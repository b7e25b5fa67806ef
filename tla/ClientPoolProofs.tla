-------------------------- MODULE ClientPoolProofs --------------------------
(***************************************************************************)
(* Proofs about ClientPool: the type invariant, that no session is lost,   *)
(* that the only watchdog armed is the newest stream's, and that the pool  *)
(* keeps what SessionPool promises, for any number of callers, sessions,   *)
(* streams and failures.                                                   *)
(*                                                                         *)
(* The inductive invariant says of every session who has its lease: the    *)
(* caller that is about to open a stream, the stream, the thread that puts *)
(* the session back, the pool, the cleanup or the goroutine of a hook; and *)
(* that there is only one of them.                                         *)
(***************************************************************************)
EXTENDS ClientPool, FiniteSetTheorems, WellFoundedInduction, TLAPS

-----------------------------------------------------------------------------
(* The constants, the threads, and the operators.                          *)

\* Each session has a receive loop of its own, which is none of the callers,
\* and the tasks are none of them (client.go:162, session.go:79-99).
LEMMA ThreadFacts ==
  /\ MaxSessions \in Nat /\ MaxStreams \in Nat /\ MaxFaults \in Nat
  /\ \A x \in Sessions : Recv(x) \in Threads /\ Recv(x) \notin Callers
  /\ \A t \in Threads : t \in Callers \/ \E x \in Sessions : t = Recv(x)
  /\ \A c \in Callers : c \in Threads
  /\ \A x, y : Recv(x) = Recv(y) => x = y
  BY ClientPoolAssumption DEF ClientPoolAssumption, Threads, Loops, Recv

\* The skip list gives the newest of the sessions it has (client.go:111, 120-132).
LEMMA NewestIn ==
  ASSUME NEW S, S \subseteq Sessions, S # {}
  PROVE  Newest(S) \in S
  <1> DEFINE Age(x) == MaxSessions - x
             Ages == {Age(x) : x \in S}
  <1>1. MaxSessions \in Nat
    BY ThreadFacts
  <1>2. Ages \subseteq Nat /\ Ages # {}
    BY <1>1 DEF Sessions
  <1>3. PICK a \in Ages : \A b \in Ages : ~(<<b, a>> \in OpToRel(<, Nat))
    <2> HIDE DEF Ages
    <2> QED BY <1>2, WFMin, NatLessThanWellFounded
  <1>4. PICK x \in S : a = Age(x)
    OBVIOUS
  <1>5. ASSUME NEW y \in S
        PROVE  y <= x
    <2>1. Age(y) \in Ages
      OBVIOUS
    <2>2. Age(y) \in Nat /\ Age(x) \in Nat
      BY <1>2, <1>4
    <2>3. ~(Age(y) < Age(x))
      <3> HIDE DEF Age
      <3> QED BY <1>3, <1>4, <2>1, <2>2 DEF OpToRel
    <2> QED BY <1>1, <2>3 DEF Sessions
  <1> QED BY <1>5 DEF Newest

\* As long as fewer than MaxStreams streams have been opened, every session
\* has opened fewer.
LEMMA OpenedBound ==
  ASSUME lastSid \in [Sessions -> 0..MaxStreams],
         NEW x \in Sessions, Cardinality(Opened) < MaxStreams
  PROVE  lastSid[x] + 1 \in Sids
  <1> DEFINE n == lastSid[x]
             f == [i \in 1..n |-> <<x, i>>]
  <1>1. MaxStreams \in Nat /\ MaxSessions \in Nat /\ n \in Nat /\ n <= MaxStreams
    BY ThreadFacts
  <1>2. IsFiniteSet(Sessions) /\ IsFiniteSet(Sids) /\ IsFiniteSet(1..n)
    BY <1>1, FS_Interval DEF Sessions, Sids
  <1>3. IsFiniteSet(Opened)
    <2>1. IsFiniteSet(Sessions \X Sids)
      BY <1>2, FS_Product
    <2> QED BY <2>1, FS_Subset DEF Opened
  <1>4. Cardinality(1..n) = n
    BY <1>1, FS_Interval
  <1>5. f \in Injection(1..n, Opened)
    <2>1. ASSUME NEW i \in 1..n PROVE <<x, i>> \in Opened
      BY <1>1 DEF Opened, Sids
    <2>2. f \in [1..n -> Opened]
      BY <2>1
    <2>3. \A i, j \in 1..n : f[i] = f[j] => i = j
      OBVIOUS
    <2> HIDE DEF f
    <2> QED BY <2>2, <2>3 DEF Injection, IsInjective
  <1>6. n <= Cardinality(Opened) /\ Cardinality(Opened) \in Nat
    <2> HIDE DEF f
    <2>1. Cardinality(1..n) <= Cardinality(Opened)
      BY <1>3, <1>5, FS_Injection
    <2> QED BY <2>1, <1>3, <1>4, FS_CardinalityType
  <1> QED BY <1>1, <1>6 DEF Sids

-----------------------------------------------------------------------------
(* The inductive invariant.                                                *)

Labels == {"idle", "get", "dial", "open", "syn", "sethook", "use", "fail", "insert", "fin",
           "none", "run", "kill", "drop", "drop insert"}

CallerLabels == {"idle", "get", "dial", "open", "syn", "sethook", "use", "fail", "insert", "fin"}
LoopLabels   == {"none", "run", "kill", "drop", "insert", "drop insert", "fin"}

\* Only sessions that have been dialed are in any list of the client.
ClientType ==
  /\ cdie \in BOOLEAN /\ taken \in BOOLEAN /\ counter \in 0..MaxSessions
  /\ faults \in 0..MaxFaults
  /\ idle \subseteq 1..counter /\ sessions \subseteq 1..counter

CloseType ==
  /\ die \subseteq 1..counter /\ todo \subseteq 1..counter /\ expired \subseteq 1..counter
  /\ reap \subseteq 1..counter
  /\ cl \in [Sessions -> {"no", "hook", "sweep", "done"}]
  /\ by \in [Sessions -> Threads \cup {Closer, Cleaner, Other, Nobody}]
  /\ \A x \in Sessions : cl[x] # "no" => x \in die

WatchType ==
  /\ synDone \in [Sessions -> 0..MaxStreams]
  /\ wd \in [Sessions -> [Sids -> {"off", "armed", "fired"}]]
  /\ \A x \in Sessions, n \in Sids : wd[x][n] # "off" => x <= counter

\* The map of a session holds streams it has opened.
StreamType ==
  /\ flushed \subseteq Sessions /\ v2 \subseteq Sessions
  /\ lastSid \in [Sessions -> 0..MaxStreams]
  /\ streams \in [Sessions -> SUBSET Sids] /\ owed \in [Sessions -> SUBSET Sids]
  /\ str \in [Sessions -> [Sids -> {"none", "made", "live", "used", "dead"}]]
  /\ \A x \in Sessions, n \in Sids : str[x][n] # "none" => x <= counter
  /\ \A x \in Sessions : \A n \in streams[x] : n <= lastSid[x] /\ str[x][n] # "none"

\* A thread that works on a session works on one that has been dialed, the
\* receive loop on its own; and on a stream that exists.
CallType ==
  /\ pc \in [Threads -> Labels]
  /\ sess \in [Threads -> 0..counter] /\ sid \in [Threads -> 0..MaxStreams]
  /\ \A c \in Callers : pc[c] \in CallerLabels
  /\ \A x \in Sessions : pc[Recv(x)] \in LoopLabels
  /\ \A t \in Threads : pc[t] \notin {"idle", "get", "dial", "none"} => sess[t] \in 1..counter
  /\ \A x \in Sessions : pc[Recv(x)] # "none" => sess[Recv(x)] = x

AtStream ==
  \A t \in Threads :
    /\ pc[t] = "syn" => sid[t] \in 1..lastSid[sess[t]]
    /\ pc[t] \in {"sethook", "use", "kill", "drop"} =>
         sid[t] \in Sids /\ str[sess[t]][sid[t]] # "none"

\* The thread t has session x: to open a stream on it, or to put it back.
Holds(t, x) == sess[t] = x /\ pc[t] \in {"open", "syn", "insert", "drop insert"}

\* One lease: a thread has it, or a stream, or one of the lists.
OneLease(x) ==
  /\ \A t, u \in Threads : Holds(t, x) /\ Holds(u, x) => t = u
  /\ \A m, n \in Live(x) : m = n
  /\ \A t \in Threads : Holds(t, x) => Live(x) = {} /\ x \notin idle \cup expired \cup reap
  /\ Live(x) # {} => x \notin idle \cup expired \cup reap
  /\ x \in idle => x \notin expired \cup reap
  /\ x \in expired => x \notin reap

LeaseInv == \A x \in Sessions : OneLease(x)

\* A watchdog that is armed is the one Session.synDone stops, and the newest
\* stream's.
OneArmed(x) ==
  \A n \in Sids : wd[x][n] = "armed" =>
    /\ n = synDone[x] /\ n = lastSid[x] /\ x \in v2
    /\ str[x][n] = "used" /\ n \in streams[x] => n \in owed[x]

WatchInv == \A x \in Sessions : OneArmed(x)

\* Client.Close finds every open session: it is in the map until the map is
\* emptied, and what is put into the pool afterwards is on Close's list.
ReachInv ==
  /\ taken => cdie
  /\ ~taken => 1..counter \ die \subseteq sessions
  /\ taken => \A x \in 1..counter \ die : x \in idle \/ Ending(x) => x \in todo
  /\ NoSessionLost

TypeInv == ClientType /\ CloseType /\ WatchType /\ StreamType /\ CallType /\ AtStream

IInv == TypeInv /\ LeaseInv /\ WatchInv /\ ReachInv

\* The type invariant of the runs follows.
LEMMA TypeInvTypeOK ==
  ASSUME TypeInv
  PROVE  TypeOK
  <1>1. 1..counter \subseteq Sessions /\ 0..counter \subseteq 0..MaxSessions
    BY ThreadFacts DEF TypeInv, ClientType, Sessions
  <1>2. /\ {cdie, taken} \subseteq BOOLEAN /\ counter \in 0..MaxSessions
        /\ faults \in 0..MaxFaults
    BY DEF TypeInv, ClientType
  <1>3. {idle, sessions, todo, expired, reap, die, flushed, v2} \subseteq SUBSET Sessions
    BY <1>1 DEF TypeInv, ClientType, CloseType, StreamType
  <1>4. /\ cl \in [Sessions -> {"no", "hook", "sweep", "done"}]
        /\ by \in [Sessions -> Threads \cup {Closer, Cleaner, Other, Nobody}]
        /\ synDone \in [Sessions -> 0..MaxStreams]
        /\ wd \in [Sessions -> [Sids -> {"off", "armed", "fired"}]]
    BY DEF TypeInv, CloseType, WatchType
  <1>5. /\ lastSid \in [Sessions -> 0..MaxStreams]
        /\ streams \in [Sessions -> SUBSET Sids] /\ owed \in [Sessions -> SUBSET Sids]
        /\ str \in [Sessions -> [Sids -> {"none", "made", "live", "used", "dead"}]]
    BY DEF TypeInv, StreamType
  <1>6. /\ sess \in [Threads -> 0..MaxSessions] /\ sid \in [Threads -> 0..MaxStreams]
        /\ \A c \in Callers : pc[c] \in CallerLabels
        /\ \A x \in Sessions : pc[Recv(x)] \in LoopLabels
    BY <1>1 DEF TypeInv, CallType
  <1> QED BY <1>2, <1>3, <1>4, <1>5, <1>6 DEF TypeOK, CallerLabels, LoopLabels

\* Nothing is dialed yet.
LEMMA InitIInv ==
  ASSUME Init
  PROVE  IInv
  <1>1. /\ MaxSessions \in Nat /\ MaxStreams \in Nat /\ MaxFaults \in Nat /\ 1..counter = {}
        /\ counter = 0
    BY ThreadFacts DEF Init
  <1>2. ClientType
    <2>1. cdie \in BOOLEAN /\ taken \in BOOLEAN
      BY DEF Init
    <2> QED BY <1>1, <2>1 DEF Init, ClientType
  <1>10. CloseType
    <2>1. by \in [Sessions -> Threads \cup {Closer, Cleaner, Other, Nobody}]
      BY DEF Init
    <2> QED BY <1>1, <2>1 DEF Init, CloseType
  <1>3. WatchType /\ StreamType
    BY <1>1 DEF Init, WatchType, StreamType, PerStream
  <1>4. CallType
    <2>1. pc \in [Threads -> Labels] /\ \A c \in Callers : pc[c] = "idle"
      BY ThreadFacts DEF Init, Labels
    <2>2. \A x \in Sessions : pc[Recv(x)] = "none"
      BY ThreadFacts DEF Init
    <2>3. \A t \in Threads : pc[t] \in {"idle", "none"}
      BY DEF Init
    <2>4. sess \in [Threads -> 0..counter] /\ sid \in [Threads -> 0..MaxStreams]
      BY <1>1 DEF Init
    <2> QED BY <2>1, <2>2, <2>3, <2>4 DEF CallType, CallerLabels, LoopLabels
  <1>5. \A t \in Threads : pc[t] \in {"idle", "none"}
    BY DEF Init
  <1>6. AtStream
    BY <1>5 DEF AtStream
  <1>7. \A x \in Sessions : Live(x) = {}
    BY DEF Init, Live, PerStream
  <1>8. LeaseInv
    BY <1>5, <1>7 DEF Init, LeaseInv, OneLease, Holds
  <1>9. WatchInv
    BY DEF Init, WatchInv, OneArmed, PerStream
  <1>11. ReachInv
    BY <1>1 DEF Init, ReachInv, NoSessionLost
  <1> QED BY <1>2, <1>3, <1>4, <1>6, <1>8, <1>9, <1>10, <1>11 DEF IInv, TypeInv

-----------------------------------------------------------------------------
(* Type correctness, one group of variables after the other.               *)

\* A write that fails counts once.
LEMMA FaultsType ==
  ASSUME faults \in 0..MaxFaults, NEW x \in Sessions, Fault \/ Fails(x)
  PROVE  faults' \in 0..MaxFaults
  BY ThreadFacts DEF Fault, Fails

\* A thread away from home works on a session that has been dialed.
LEMMA AtSession ==
  ASSUME TypeInv, NEW t \in Threads, pc[t] \notin {"idle", "get", "dial", "none"}
  PROVE  /\ sess[t] \in 1..counter /\ sess[t] \in Sessions /\ counter \in Nat
         /\ \A x \in Sessions : t = Recv(x) => sess[t] = x
  BY ThreadFacts DEF TypeInv, CallType, ClientType, Sessions

\* Where the callers and the threads that end streams can be.
LEMMA AtLabels ==
  ASSUME TypeInv
  PROVE  /\ \A t \in Threads :
              StreamEnd(t) => pc[t] \in {"use", "kill", "drop", "insert", "drop insert", "fin"}
         /\ \A t \in Threads : t \in Callers =>
              pc[t] \notin {"kill", "drop", "drop insert", "none", "run"}
         /\ \A t \in Threads : t \notin Callers =>
              pc[t] \notin {"open", "syn", "sethook", "use", "fail", "idle", "get", "dial"}
  <1>1. \A t \in Threads :
          StreamEnd(t) => pc[t] \in {"use", "kill", "drop", "insert", "drop insert", "fin"}
    BY DEF StreamEnd, StreamClose, HookInsert, StreamFin, At
  <1>2. \A t \in Threads : t \in Callers =>
              pc[t] \notin {"kill", "drop", "drop insert", "none", "run"}
    BY DEF TypeInv, CallType, CallerLabels
  <1>3. \A x \in Sessions :
              pc[Recv(x)] \notin {"open", "syn", "sethook", "use", "fail", "idle", "get", "dial"}
    BY DEF TypeInv, CallType, LoopLabels
  <1> QED BY <1>1, <1>2, <1>3, ThreadFacts

\* What closing a session changes of the types.
LEMMA StartCloseType ==
  ASSUME TypeInv, NEW x \in 1..counter,
         NEW t \in Threads \cup {Closer, Cleaner, Other}, StartClose(x, t), counter' = counter
  PROVE  CloseType' /\ WatchType'
  <1>1. CASE x \in die
    BY <1>1 DEF StartClose, TypeInv, CloseType, WatchType, closeVars
  <1>2. CASE x \notin die
    <2>1. x \in Sessions
      BY ThreadFacts DEF TypeInv, ClientType, Sessions
    <2>2. /\ die' = die \cup {x}
          /\ cl' = [cl EXCEPT ![x] = "hook"]
          /\ by' = [by EXCEPT ![x] = t]
          /\ todo' = todo \ {x} /\ expired' = expired \ {x} /\ reap' = reap \ {x}
          /\ synDone' = [synDone EXCEPT ![x] = 0]
          /\ wd' = [wd EXCEPT ![x] = [n \in Sids |-> "off"]]
      BY <1>2 DEF StartClose
    <2>3. CloseType'
      BY <2>1, <2>2 DEF TypeInv, CloseType
    <2>4. /\ synDone' \in [Sessions -> 0..MaxStreams]
          /\ wd' \in [Sessions -> [Sids -> {"off", "armed", "fired"}]]
      BY <2>1, <2>2, ThreadFacts DEF TypeInv, WatchType
    <2>5. \A y \in Sessions, n \in Sids : wd'[y][n] # "off" => wd[y][n] # "off"
      BY <2>1, <2>2 DEF TypeInv, WatchType
    <2> QED BY <2>3, <2>4, <2>5 DEF TypeInv, WatchType
  <1> QED BY <1>1, <1>2

\* The lists of the client.
LEMMA ClientTypeStep ==
  ASSUME TypeInv, Next
  PROVE  ClientType'
  <1>0. ClientType /\ CloseType /\ MaxSessions \in Nat
    BY ThreadFacts DEF TypeInv
  <1>a. ASSUME UNCHANGED <<cdie, taken, counter, faults, idle, sessions>>
        PROVE  ClientType'
    BY <1>a, <1>0 DEF ClientType
  <1>f. ASSUME NEW x \in Sessions, Fault \/ Fails(x),
               UNCHANGED <<cdie, taken, counter, idle, sessions>>
        PROVE  ClientType'
    BY <1>f, <1>0, FaultsType DEF ClientType
  <1>1. ASSUME NEW c \in Callers, CreateStream(c) \/ Send(c)
        PROVE  ClientType'
    <2>0. c \in Threads
      BY ThreadFacts
    <2>1. CASE GetIdle(c)
      <3>1. idle' \subseteq idle /\ UNCHANGED <<cdie, taken, counter, sessions, faults>>
        BY <2>1 DEF GetIdle
      <3> QED BY <3>1, <1>0 DEF ClientType
    <2>2. CASE CreateSession(c)
      <3>1. /\ counter < MaxSessions /\ counter' = counter + 1
            /\ sessions' = sessions \cup {counter'} /\ UNCHANGED <<cdie, taken, idle, faults>>
        BY <2>2 DEF CreateSession
      <3> QED BY <3>1, <1>0 DEF ClientType
    <2>3. CASE Syn(c)
      <3>1. sess[c] \in Sessions
        BY <2>3, <2>0, AtSession DEF Syn, At
      <3>2. /\ faults' = faults \/ Fault \/ Fails(sess[c])
            /\ UNCHANGED <<cdie, taken, counter, idle, sessions>>
        BY <2>3 DEF Syn, clientVars
      <3> QED BY <3>1, <3>2, <1>a, <1>f
    <2>4. CASE Create(c) \/ DialFail(c) \/ Open(c) \/ SetHook(c) \/ CreateFail(c) \/ Send(c)
      BY <2>4, <1>a DEF Create, DialFail, Open, SetHook, CreateFail, Send, clientVars
    <2> QED BY <1>1, <2>1, <2>2, <2>3, <2>4 DEF CreateStream
  <1>2. ASSUME NEW t \in Threads, StreamEnd(t)
        PROVE  ClientType'
    <2>0. sess[t] \in Sessions /\ sess[t] \in 1..counter
      BY <1>2, AtLabels, AtSession
    <2>1. CASE StreamClose(t)
      BY <2>1, <1>a DEF StreamClose, clientVars
    <2>2. CASE HookInsert(t)
      BY <2>2, <2>0, <1>0 DEF HookInsert, ClientType
    <2>3. CASE StreamFin(t)
      <3>1. /\ faults' = faults \/ Fails(sess[t])
            /\ UNCHANGED <<cdie, taken, counter, idle, sessions>>
        BY <2>3 DEF StreamFin, clientVars
      <3> QED BY <3>1, <2>0, <1>a, <1>f
    <2> QED BY <1>2, <2>1, <2>2, <2>3 DEF StreamEnd
  <1>3. ASSUME NEW x \in Sessions, RecvLoop(x)
        PROVE  ClientType'
    <2>1. CASE RecvEnd(x)
      BY <2>1, <1>f DEF RecvEnd, clientVars
    <2>2. CASE RecvSettings(x) \/ \E n \in Sids : RecvSynAck(x, n) \/ RecvSynErr(x, n) \/ RecvFin(x, n)
      BY <2>2, <1>a DEF RecvSettings, RecvSynAck, RecvSynErr, RecvFin, clientVars
    <2> QED BY <1>3, <2>1, <2>2 DEF RecvLoop
  <1>4. ASSUME NEW x \in Sessions, SessionClose(x)
        PROVE  ClientType'
    <2>1. CASE CloseHook(x)
      <3>1. /\ idle' \subseteq idle /\ sessions' \subseteq sessions
            /\ UNCHANGED <<cdie, taken, counter, faults>>
        BY <2>1 DEF CloseHook
      <3> QED BY <3>1, <1>0 DEF ClientType
    <2>2. CASE CloseSweep(x)
      BY <2>2, <1>a DEF CloseSweep, clientVars
    <2> QED BY <1>4, <2>1, <2>2 DEF SessionClose
  <1>5. ASSUME NEW x \in Sessions,
               Reap(x) \/ \E n \in Sids : WatchdogFire(x, n) \/ WatchdogClose(x, n)
        PROVE  ClientType'
    BY <1>5, <1>a DEF Reap, WatchdogFire, WatchdogClose, clientVars
  <1>6. ASSUME Tasks
        PROVE  ClientType'
    <2>1. CASE ContextDone
      BY <2>1, <1>0 DEF ContextDone, ClientType
    <2>2. CASE ClientSnapshot
      BY <2>2, <1>0 DEF ClientSnapshot, ClientType
    <2>3. CASE ClientCloseNext \/ CleanupClose
      BY <2>3, <1>a DEF ClientCloseNext, CleanupClose, clientVars
    <2>4. ASSUME NEW S \in SUBSET idle, Cleanup(S)
          PROVE  ClientType'
      <3>1. idle' \subseteq idle /\ UNCHANGED <<cdie, taken, counter, sessions, faults>>
        BY <2>4 DEF Cleanup
      <3> QED BY <3>1, <1>0 DEF ClientType
    <2> QED BY <1>6, <2>1, <2>2, <2>3, <2>4 DEF Tasks
  <1> QED BY <1>1, <1>2, <1>3, <1>4, <1>5, <1>6 DEF Next

\* The sessions that are closed, or are to be closed.
LEMMA CloseTypeStep ==
  ASSUME TypeInv, Next
  PROVE  CloseType'
  <1>0. /\ ClientType /\ CloseType /\ MaxSessions \in Nat /\ counter \in Nat
        /\ 1..counter \subseteq Sessions
    BY ThreadFacts DEF TypeInv, ClientType, Sessions
  <1>a. ASSUME UNCHANGED <<die, todo, expired, reap, cl, by, counter>>
        PROVE  CloseType'
    BY <1>a, <1>0 DEF CloseType
  <1>c. ASSUME NEW x \in 1..counter, NEW t \in Threads \cup {Closer, Cleaner, Other},
               StartClose(x, t), UNCHANGED counter
        PROVE  CloseType'
    BY <1>c, StartCloseType
  <1>1. ASSUME NEW c \in Callers, CreateStream(c) \/ Send(c)
        PROVE  CloseType'
    <2>0. c \in Threads
      BY ThreadFacts
    <2>1. CASE CreateSession(c)
      <3>1. counter' = counter + 1 /\ UNCHANGED <<die, todo, expired, reap, cl, by>>
        BY <2>1 DEF CreateSession, closeVars
      <3> QED BY <3>1, <1>0 DEF CloseType
    <2>2. CASE Syn(c)
      <3>1. sess[c] \in 1..counter
        BY <2>2, <2>0, AtSession DEF Syn, At
      <3>2. /\ StartClose(sess[c], c) \/ UNCHANGED closeVars
            /\ UNCHANGED counter
        BY <2>2 DEF Syn, clientVars
      <3> QED BY <3>1, <3>2, <2>0, <1>a, <1>c DEF closeVars
    <2>3. CASE CreateFail(c)
      <3>1. sess[c] \in 1..counter
        BY <2>3, <2>0, AtSession DEF CreateFail, At
      <3>2. StartClose(sess[c], c) /\ UNCHANGED counter
        BY <2>3 DEF CreateFail, clientVars
      <3> QED BY <3>1, <3>2, <2>0, <1>c
    <2>4. CASE Create(c) \/ GetIdle(c) \/ DialFail(c) \/ Open(c) \/ SetHook(c) \/ Send(c)
      BY <2>4, <1>a DEF Create, GetIdle, DialFail, Open, SetHook, Send, clientVars, closeVars
    <2> QED BY <1>1, <2>1, <2>2, <2>3, <2>4 DEF CreateStream
  <1>2. ASSUME NEW t \in Threads, StreamEnd(t)
        PROVE  CloseType'
    <2>0. sess[t] \in 1..counter
      BY <1>2, AtLabels, AtSession
    <2>1. CASE StreamClose(t)
      <3>1. /\ reap' = reap \/ reap' = reap \cup {sess[t]}
            /\ UNCHANGED <<die, todo, expired, cl, by, counter>>
        BY <2>1 DEF StreamClose, StreamHook, clientVars
      <3> QED BY <3>1, <2>0, <1>0 DEF CloseType
    <2>2. CASE HookInsert(t)
      BY <2>2, <1>a DEF HookInsert, closeVars
    <2>3. CASE StreamFin(t)
      <3>1. /\ StartClose(sess[t], t) \/ UNCHANGED closeVars
            /\ UNCHANGED counter
        BY <2>3 DEF StreamFin, clientVars
      <3> QED BY <3>1, <2>0, <1>a, <1>c DEF closeVars
    <2> QED BY <1>2, <2>1, <2>2, <2>3 DEF StreamEnd
  <1>3. ASSUME NEW x \in Sessions, RecvLoop(x)
        PROVE  CloseType'
    <2>1. CASE RecvEnd(x)
      <3>1. Recv(x) \in Threads /\ x \in 1..counter
        BY <2>1, ThreadFacts, AtSession DEF RecvEnd, Reading, At
      <3>2. StartClose(x, Recv(x)) /\ UNCHANGED counter
        BY <2>1 DEF RecvEnd, clientVars
      <3> QED BY <3>1, <3>2, <1>c
    <2>2. CASE RecvSettings(x) \/ \E n \in Sids : RecvSynAck(x, n) \/ RecvSynErr(x, n) \/ RecvFin(x, n)
      BY <2>2, <1>a DEF RecvSettings, RecvSynAck, RecvSynErr, RecvFin, Acked, clientVars, closeVars
    <2> QED BY <1>3, <2>1, <2>2 DEF RecvLoop
  <1>4. ASSUME NEW x \in Sessions, SessionClose(x)
        PROVE  CloseType'
    <2>1. /\ x \in die
          /\ cl' = [cl EXCEPT ![x] = "sweep"] \/ cl' = [cl EXCEPT ![x] = "done"]
          /\ by' = by \/ by' = [by EXCEPT ![x] = Nobody]
          /\ UNCHANGED <<die, todo, expired, reap, counter>>
      BY <1>4, <1>0 DEF SessionClose, CloseHook, CloseSweep, CloseType, clientVars
    <2> QED BY <2>1, <1>0 DEF CloseType
  <1>5. ASSUME NEW x \in Sessions,
               Reap(x) \/ \E n \in Sids : WatchdogFire(x, n) \/ WatchdogClose(x, n)
        PROVE  CloseType'
    <2>1. CASE Reap(x)
      BY <2>1, <1>0, <1>c DEF Reap, CloseType, clientVars
    <2>2. ASSUME NEW n \in Sids, WatchdogFire(x, n)
          PROVE  CloseType'
      BY <2>2, <1>a DEF WatchdogFire, clientVars
    <2>3. ASSUME NEW n \in Sids, WatchdogClose(x, n)
          PROVE  CloseType'
      <3>1. x \in 1..counter
        BY <2>3, <1>0 DEF WatchdogClose, TypeInv, WatchType, Sessions
      <3> QED BY <2>3, <3>1, <1>c DEF WatchdogClose, clientVars
    <2> QED BY <1>5, <2>1, <2>2, <2>3
  <1>6. ASSUME Tasks
        PROVE  CloseType'
    <2>1. CASE ContextDone
      BY <2>1, <1>a DEF ContextDone, closeVars
    <2>2. CASE ClientSnapshot
      <3>1. todo' \subseteq sessions /\ UNCHANGED <<die, expired, reap, cl, by, counter>>
        BY <2>2 DEF ClientSnapshot
      <3> QED BY <3>1, <1>0 DEF CloseType, ClientType
    <2>3. CASE ClientCloseNext
      BY <2>3, <1>0, <1>c DEF ClientCloseNext, CloseType, clientVars
    <2>4. CASE CleanupClose
      <3>1. Newest(expired) \in 1..counter
        BY <2>4, <1>0, NewestIn DEF CleanupClose, CloseType
      <3> QED BY <2>4, <3>1, <1>c DEF CleanupClose, clientVars
    <2>5. ASSUME NEW S \in SUBSET idle, Cleanup(S)
          PROVE  CloseType'
      <3>1. expired' \subseteq idle /\ UNCHANGED <<die, todo, reap, cl, by, counter>>
        BY <2>5 DEF Cleanup
      <3> QED BY <3>1, <1>0 DEF CloseType, ClientType
    <2> QED BY <1>6, <2>1, <2>2, <2>3, <2>4, <2>5 DEF Tasks
  <1> QED BY <1>1, <1>2, <1>3, <1>4, <1>5, <1>6 DEF Next

\* Stopping and arming watchdogs.
LEMMA WatchTypes ==
  ASSUME WatchType, NEW x \in Sessions
  PROVE  /\ Stopped(x) \in [Sids -> {"off", "armed", "fired"}]
         /\ \A n \in Sids : Stopped(x)[n] # "off" => wd[x][n] # "off"
         /\ \A n \in Sids : Stopped(x)[n] = "armed" => wd[x][n] = "armed" /\ n # synDone[x]
  BY DEF WatchType, Stopped

\* The watchdogs.
LEMMA WatchTypeStep ==
  ASSUME TypeInv, Next
  PROVE  WatchType'
  <1>0. /\ ClientType /\ CloseType /\ WatchType /\ MaxSessions \in Nat /\ counter \in Nat
        /\ MaxStreams \in Nat /\ 1..counter \subseteq Sessions
    BY ThreadFacts DEF TypeInv, ClientType, Sessions
  <1>a. ASSUME UNCHANGED <<synDone, wd, counter>>
        PROVE  WatchType'
    BY <1>a, <1>0 DEF WatchType
  <1>c. ASSUME NEW x \in 1..counter, NEW t \in Threads \cup {Closer, Cleaner, Other},
               StartClose(x, t), UNCHANGED counter
        PROVE  WatchType'
    BY <1>c, StartCloseType
  <1>1. ASSUME NEW c \in Callers, CreateStream(c) \/ Send(c)
        PROVE  WatchType'
    <2>0. c \in Threads
      BY ThreadFacts
    <2>1. CASE CreateSession(c)
      <3>1. counter' = counter + 1 /\ UNCHANGED <<synDone, wd>>
        BY <2>1 DEF CreateSession, closeVars
      <3>2. \A x \in Sessions : x <= counter => x <= counter'
        BY <3>1, <1>0 DEF Sessions
      <3> QED BY <3>1, <3>2, <1>0 DEF WatchType
    <2>2. CASE Syn(c)
      <3>1. sess[c] \in 1..counter
        BY <2>2, <2>0, AtSession DEF Syn, At
      <3>2. /\ StartClose(sess[c], c) \/ UNCHANGED closeVars
            /\ UNCHANGED counter
        BY <2>2 DEF Syn, clientVars
      <3> QED BY <3>1, <3>2, <2>0, <1>a, <1>c DEF closeVars
    <2>3. CASE CreateFail(c)
      <3>1. sess[c] \in 1..counter
        BY <2>3, <2>0, AtSession DEF CreateFail, At
      <3>2. StartClose(sess[c], c) /\ UNCHANGED counter
        BY <2>3 DEF CreateFail, clientVars
      <3> QED BY <3>1, <3>2, <2>0, <1>c
    <2>4. CASE Create(c) \/ GetIdle(c) \/ DialFail(c) \/ SetHook(c) \/ Send(c)
      BY <2>4, <1>a DEF Create, GetIdle, DialFail, SetHook, Send, clientVars, closeVars
    <2>5. CASE Open(c)
      <3> DEFINE x == sess[c]
                 n == lastSid[x] + 1
      <3>1. x \in 1..counter /\ x \in Sessions
        BY <2>5, <2>0, AtSession DEF Open, At
      <3>2. CASE UNCHANGED <<wd, synDone>>
        BY <2>5, <3>2, <1>a DEF Open, clientVars
      <3>3. CASE x \notin die /\ ~UNCHANGED <<wd, synDone>>
        <4>1. /\ Cardinality(Opened) < MaxStreams
              /\ lastSid' = [lastSid EXCEPT ![x] = n] /\ Watch(x, lastSid'[x])
              /\ UNCHANGED counter
          BY <2>5, <3>3 DEF Open, clientVars
        <4>2. lastSid \in [Sessions -> 0..MaxStreams]
          BY DEF TypeInv, StreamType
        <4>3. n \in Sids /\ lastSid'[x] = n
          BY <4>1, <4>2, <3>1, OpenedBound
        <4>4. /\ wd' = [wd EXCEPT ![x] = [Stopped(x) EXCEPT ![n] = "armed"]]
              /\ synDone' = [synDone EXCEPT ![x] = n]
          BY <4>1, <4>3, <3>3 DEF Watch
        <4> HIDE DEF n, x
        <4>5. synDone' \in [Sessions -> 0..MaxStreams]
          BY <4>3, <4>4, <3>1, <1>0 DEF WatchType, Sids
        <4>6. [Stopped(x) EXCEPT ![n] = "armed"] \in [Sids -> {"off", "armed", "fired"}]
          BY <3>1, <1>0, WatchTypes
        <4>7. wd' \in [Sessions -> [Sids -> {"off", "armed", "fired"}]]
          BY <4>4, <4>6, <1>0 DEF WatchType
        <4>8. \A y \in Sessions : y # x => wd'[y] = wd[y]
          BY <4>4, <1>0 DEF WatchType
        <4>9. \A y \in Sessions, m \in Sids : wd'[y][m] # "off" => y <= counter'
          BY <4>1, <4>8, <3>1, <1>0 DEF WatchType
        <4> QED BY <4>5, <4>7, <4>9 DEF WatchType
      <3> QED BY <2>5, <3>2, <3>3 DEF Open
    <2> QED BY <1>1, <2>1, <2>2, <2>3, <2>4, <2>5 DEF CreateStream
  <1>2. ASSUME NEW t \in Threads, StreamEnd(t)
        PROVE  WatchType'
    <2>0. sess[t] \in 1..counter
      BY <1>2, AtLabels, AtSession
    <2>1. CASE StreamClose(t) \/ HookInsert(t)
      BY <2>1, <1>a DEF StreamClose, HookInsert, clientVars, closeVars
    <2>3. CASE StreamFin(t)
      <3>1. /\ StartClose(sess[t], t) \/ UNCHANGED closeVars
            /\ UNCHANGED counter
        BY <2>3 DEF StreamFin, clientVars
      <3> QED BY <3>1, <2>0, <1>a, <1>c DEF closeVars
    <2> QED BY <1>2, <2>1, <2>3 DEF StreamEnd
  <1>3. ASSUME NEW x \in Sessions, RecvLoop(x)
        PROVE  WatchType'
    <2>1. CASE RecvEnd(x)
      <3>1. Recv(x) \in Threads /\ x \in 1..counter
        BY <2>1, ThreadFacts, AtSession DEF RecvEnd, Reading, At
      <3>2. StartClose(x, Recv(x)) /\ UNCHANGED counter
        BY <2>1 DEF RecvEnd, clientVars
      <3> QED BY <3>1, <3>2, <1>c
    <2>2. CASE RecvSettings(x) \/ \E n \in Sids : RecvFin(x, n)
      BY <2>2, <1>a DEF RecvSettings, RecvFin, clientVars, closeVars
    <2>3. CASE \E n \in Sids : RecvSynAck(x, n) \/ RecvSynErr(x, n)
      <3>1. /\ wd' = [wd EXCEPT ![x] = Stopped(x)]
            /\ synDone' = [synDone EXCEPT ![x] = 0] /\ UNCHANGED counter
        BY <2>3 DEF RecvSynAck, RecvSynErr, Acked, clientVars
      <3>2. /\ synDone' \in [Sessions -> 0..MaxStreams]
            /\ wd' \in [Sessions -> [Sids -> {"off", "armed", "fired"}]]
        BY <3>1, <1>0, WatchTypes DEF WatchType
      <3>3. \A y \in Sessions, n \in Sids : wd'[y][n] # "off" => wd[y][n] # "off"
        BY <3>1, <1>0, WatchTypes DEF WatchType
      <3> QED BY <3>1, <3>2, <3>3, <1>0 DEF WatchType
    <2> QED BY <1>3, <2>1, <2>2, <2>3 DEF RecvLoop
  <1>4. ASSUME NEW x \in Sessions, SessionClose(x)
        PROVE  WatchType'
    BY <1>4, <1>a DEF SessionClose, CloseHook, CloseSweep, clientVars
  <1>5. ASSUME NEW x \in Sessions,
               Reap(x) \/ \E n \in Sids : WatchdogFire(x, n) \/ WatchdogClose(x, n)
        PROVE  WatchType'
    <2>1. CASE Reap(x)
      BY <2>1, <1>0, <1>c DEF Reap, CloseType, clientVars
    <2>2. ASSUME NEW n \in Sids, WatchdogFire(x, n)
          PROVE  WatchType'
      <3>1. /\ wd[x][n] = "armed" /\ wd' = [wd EXCEPT ![x][n] = "fired"]
            /\ UNCHANGED <<synDone, counter>>
        BY <2>2 DEF WatchdogFire, clientVars
      <3>2. wd' \in [Sessions -> [Sids -> {"off", "armed", "fired"}]]
        BY <3>1, <1>0 DEF WatchType
      <3>3. \A y \in Sessions, m \in Sids : wd'[y][m] # "off" => wd[y][m] # "off"
        BY <3>1, <1>0 DEF WatchType
      <3> QED BY <3>1, <3>2, <3>3, <1>0 DEF WatchType
    <2>3. ASSUME NEW n \in Sids, WatchdogClose(x, n)
          PROVE  WatchType'
      <3>1. x \in 1..counter
        BY <2>3, <1>0 DEF WatchdogClose, WatchType, Sessions
      <3> QED BY <2>3, <3>1, <1>c DEF WatchdogClose, clientVars
    <2> QED BY <1>5, <2>1, <2>2, <2>3
  <1>6. ASSUME Tasks
        PROVE  WatchType'
    <2>1. CASE ContextDone \/ ClientSnapshot \/ \E S \in SUBSET idle : Cleanup(S)
      BY <2>1, <1>a DEF ContextDone, ClientSnapshot, Cleanup, closeVars
    <2>3. CASE ClientCloseNext
      BY <2>3, <1>0, <1>c DEF ClientCloseNext, CloseType, clientVars
    <2>4. CASE CleanupClose
      <3>1. Newest(expired) \in 1..counter
        BY <2>4, <1>0, NewestIn DEF CleanupClose, CloseType
      <3> QED BY <2>4, <3>1, <1>c DEF CleanupClose, clientVars
    <2> QED BY <1>6, <2>1, <2>3, <2>4 DEF Tasks
  <1> QED BY <1>1, <1>2, <1>3, <1>4, <1>5, <1>6 DEF Next

\* A thread that is at a stream is at one that exists.
LEMMA AtStreamFacts ==
  ASSUME TypeInv, NEW t \in Threads, pc[t] \in {"sethook", "use", "kill", "drop"}
  PROVE  /\ sess[t] \in Sessions /\ sess[t] <= counter
         /\ sid[t] \in Sids /\ str[sess[t]][sid[t]] # "none"
  BY AtSession DEF TypeInv, AtStream

StrStates == {"none", "made", "live", "used", "dead"}

\* One stream changes its state, and does not vanish.
LEMMA StreamChange ==
  ASSUME StreamType, NEW x \in Sessions, x <= counter, NEW n \in Sids,
         NEW s \in StrStates \ {"none"}, str' = [str EXCEPT ![x][n] = s],
         \A y \in Sessions : streams'[y] \subseteq streams[y] \cup (IF y = x THEN {n} ELSE {}),
         streams' \in [Sessions -> SUBSET Sids], n \in streams'[x] => n <= lastSid[x],
         owed' \in [Sessions -> SUBSET Sids], flushed' \subseteq Sessions,
         UNCHANGED <<v2, lastSid, counter>>
  PROVE  StreamType'
  <1>1. str' \in [Sessions -> [Sids -> StrStates]]
    BY DEF StreamType, StrStates
  <1>2. \A y \in Sessions, m \in Sids : str'[y][m] = IF y = x /\ m = n THEN s ELSE str[y][m]
    BY DEF StreamType
  <1>3. \A y \in Sessions, m \in Sids : str'[y][m] # "none" => y <= counter'
    BY <1>2 DEF StreamType
  <1>4. \A y \in Sessions : \A m \in streams'[y] : m <= lastSid'[y] /\ str'[y][m] # "none"
    BY <1>2 DEF StreamType, StrStates
  <1> QED BY <1>1, <1>3, <1>4 DEF StreamType, StrStates

\* The streams and what the sessions have of them.
LEMMA StreamTypeStep ==
  ASSUME TypeInv, Next
  PROVE  StreamType'
  <1>0. /\ StreamType /\ MaxSessions \in Nat /\ counter \in Nat /\ MaxStreams \in Nat
        /\ 1..counter \subseteq Sessions
    BY ThreadFacts DEF TypeInv, ClientType, Sessions
  <1>a. ASSUME UNCHANGED <<sessVars, streamVars, counter>>
        PROVE  StreamType'
    BY <1>a, <1>0 DEF StreamType, sessVars, streamVars
  <1>b. ASSUME flushed' \subseteq Sessions, v2' \subseteq Sessions,
               streams' \in [Sessions -> SUBSET Sids], owed' \in [Sessions -> SUBSET Sids],
               \A y \in Sessions : streams'[y] \subseteq streams[y],
               UNCHANGED <<lastSid, str, counter>>
        PROVE  StreamType'
    BY <1>b, <1>0 DEF StreamType
  <1>1. ASSUME NEW c \in Callers, CreateStream(c) \/ Send(c)
        PROVE  StreamType'
    <2>0. c \in Threads
      BY ThreadFacts
    <2>1. CASE CreateSession(c)
      <3>1. counter' = counter + 1 /\ UNCHANGED <<sessVars, streamVars>>
        BY <2>1 DEF CreateSession
      <3>2. \A x \in Sessions : x <= counter => x <= counter'
        BY <3>1, <1>0 DEF Sessions
      <3> QED BY <3>1, <3>2, <1>0 DEF StreamType, sessVars, streamVars
    <2>2. CASE Open(c)
      <3> DEFINE x == sess[c]
      <3>1. x \in Sessions
        BY <2>2, <2>0, AtSession DEF Open, At
      <3>2. UNCHANGED <<flushed, v2, streamVars, counter>>
        BY <2>2 DEF Open, clientVars
      <3>3. CASE lastSid' = lastSid
        BY <3>2, <3>3, <1>a DEF sessVars
      <3>4. CASE Cardinality(Opened) < MaxStreams /\ lastSid' = [lastSid EXCEPT ![x] = @ + 1]
        <4>1. lastSid[x] + 1 \in Sids
          BY <3>1, <3>4, <1>0, OpenedBound DEF StreamType
        <4> HIDE DEF x
        <4>2. lastSid' \in [Sessions -> 0..MaxStreams]
          BY <3>1, <3>4, <4>1, <1>0 DEF StreamType, Sids
        <4>3. \A y \in Sessions, m \in Sids : m <= lastSid[y] => m <= lastSid'[y]
          BY <3>1, <3>4, <1>0 DEF StreamType, Sids
        <4> QED BY <3>2, <4>2, <4>3, <1>0 DEF StreamType, streamVars
      <3> QED BY <2>2, <3>3, <3>4 DEF Open
    <2>3. CASE Syn(c)
      <3> DEFINE x == sess[c]
                 n == sid[c]
      <3>1. x \in Sessions /\ x <= counter /\ n \in 1..lastSid[x] /\ n \in Sids /\ n <= lastSid[x]
        BY <2>3, <2>0, <1>0, AtSession DEF Syn, At, TypeInv, AtStream, StreamType, Sids
      <3>2. /\ flushed' = flushed \/ flushed' = flushed \cup {x}
            /\ UNCHANGED <<v2, lastSid, owed, counter>>
        BY <2>3 DEF Syn, clientVars
      <3>3. CASE UNCHANGED <<streams, str>>
        BY <3>1, <3>2, <3>3, <1>0, <1>b DEF StreamType
      <3>4. CASE streams' = [streams EXCEPT ![x] = @ \cup {n}] /\ str' = [str EXCEPT ![x][n] = "made"]
        <4> HIDE DEF x, n
        <4>1. "made" \in StrStates \ {"none"}
          BY DEF StrStates
        <4>2. streams' \in [Sessions -> SUBSET Sids]
          BY <3>4, <3>1, <1>0 DEF StreamType
        <4>3. \A y \in Sessions : streams'[y] \subseteq streams[y] \cup (IF y = x THEN {n} ELSE {})
          BY <3>4, <3>1, <1>0 DEF StreamType
        <4>4. owed' \in [Sessions -> SUBSET Sids] /\ flushed' \subseteq Sessions
          BY <3>1, <3>2, <1>0 DEF StreamType
        <4> QED BY <3>1, <3>2, <3>4, <4>1, <4>2, <4>3, <4>4, <1>0, StreamChange
      <3> QED BY <2>3, <3>3, <3>4 DEF Syn
    <2>4. CASE SetHook(c)
      <3> DEFINE x == sess[c]
                 n == sid[c]
                 s == IF str[x][n] = "made" THEN "live" ELSE str[x][n]
      <3>1. x \in Sessions /\ x <= counter /\ n \in Sids /\ str[x][n] # "none"
        BY <2>4, <2>0, AtStreamFacts DEF SetHook, At
      <3>2. /\ str' = [str EXCEPT ![x][n] = s]
            /\ UNCHANGED <<flushed, v2, lastSid, streams, owed, counter>>
        BY <2>4 DEF SetHook, clientVars, sessVars
      <3>3. s \in StrStates \ {"none"}
        BY <3>1, <1>0 DEF StreamType, StrStates
      <3> HIDE DEF x, n, s
      <3>4. \A y \in Sessions : streams'[y] \subseteq streams[y] \cup (IF y = x THEN {n} ELSE {})
        BY <3>2
      <3>5. /\ streams' \in [Sessions -> SUBSET Sids] /\ owed' \in [Sessions -> SUBSET Sids]
            /\ flushed' \subseteq Sessions /\ (n \in streams'[x] => n <= lastSid[x])
        BY <3>1, <3>2, <1>0 DEF StreamType
      <3> QED BY <3>1, <3>2, <3>3, <3>4, <3>5, <1>0, StreamChange
    <2>5. CASE Send(c)
      <3> DEFINE x == sess[c]
                 n == sid[c]
      <3>1. x \in Sessions /\ x <= counter /\ n \in Sids /\ str[x][n] # "none"
        BY <2>5, <2>0, AtStreamFacts DEF Send, At
      <3>2. /\ str' = [str EXCEPT ![x][n] = "used"] /\ owed' = [owed EXCEPT ![x] = @ \cup {n}]
            /\ flushed' = flushed \cup {x} /\ UNCHANGED <<v2, lastSid, streams, counter>>
        BY <2>5 DEF Send, clientVars
      <3>3. "used" \in StrStates \ {"none"}
        BY DEF StrStates
      <3> HIDE DEF x, n
      <3>4. \A y \in Sessions : streams'[y] \subseteq streams[y] \cup (IF y = x THEN {n} ELSE {})
        BY <3>2
      <3>5. /\ streams' \in [Sessions -> SUBSET Sids] /\ owed' \in [Sessions -> SUBSET Sids]
            /\ flushed' \subseteq Sessions /\ (n \in streams'[x] => n <= lastSid[x])
        BY <3>1, <3>2, <1>0 DEF StreamType
      <3> QED BY <3>1, <3>2, <3>3, <3>4, <3>5, <1>0, StreamChange
    <2>6. CASE Create(c) \/ GetIdle(c) \/ DialFail(c) \/ CreateFail(c)
      BY <2>6, <1>a DEF Create, GetIdle, DialFail, CreateFail, clientVars
    <2> QED BY <1>1, <2>1, <2>2, <2>3, <2>4, <2>5, <2>6 DEF CreateStream
  <1>2. ASSUME NEW t \in Threads, StreamEnd(t)
        PROVE  StreamType'
    <2> DEFINE x == sess[t]
               n == sid[t]
    <2>0. x \in Sessions
      BY <1>2, AtLabels, AtSession
    <2>1. CASE StreamClose(t)
      <3>1. x <= counter /\ n \in Sids
        BY <2>1, AtStreamFacts DEF StreamClose, At
      <3>2. UNCHANGED <<sessVars, streams, owed, counter>>
        BY <2>1 DEF StreamClose, clientVars
      <3>3. CASE str' = str
        BY <3>2, <3>3, <1>a DEF streamVars
      <3>4. CASE str' = [str EXCEPT ![x][n] = "dead"]
        <4>1. "dead" \in StrStates \ {"none"}
          BY DEF StrStates
        <4> HIDE DEF x, n
        <4>2. \A y \in Sessions : streams'[y] \subseteq streams[y] \cup (IF y = x THEN {n} ELSE {})
          BY <3>2
        <4>3. /\ streams' \in [Sessions -> SUBSET Sids] /\ owed' \in [Sessions -> SUBSET Sids]
              /\ flushed' \subseteq Sessions /\ (n \in streams'[x] => n <= lastSid[x])
          BY <2>0, <3>1, <3>2, <1>0 DEF StreamType, sessVars
        <4> QED BY <2>0, <3>1, <3>2, <3>4, <4>1, <4>2, <4>3, <1>0, StreamChange DEF sessVars
      <3> QED BY <2>1, <3>3, <3>4 DEF StreamClose
    <2>2. CASE HookInsert(t)
      BY <2>2, <1>a DEF HookInsert
    <2>3. CASE StreamFin(t)
      <3>1. /\ flushed' = flushed \/ flushed' = flushed \cup {x}
            /\ streams' = streams \/ streams' = [streams EXCEPT ![x] = @ \ {n}]
            /\ UNCHANGED <<v2, lastSid, str, owed, counter>>
        BY <2>3 DEF StreamFin, clientVars
      <3> HIDE DEF x, n
      <3>2. /\ flushed' \subseteq Sessions /\ v2' \subseteq Sessions
            /\ streams' \in [Sessions -> SUBSET Sids] /\ owed' \in [Sessions -> SUBSET Sids]
            /\ \A y \in Sessions : streams'[y] \subseteq streams[y]
        BY <2>0, <3>1, <1>0 DEF StreamType
      <3> QED BY <3>1, <3>2, <1>b
    <2> QED BY <1>2, <2>1, <2>2, <2>3 DEF StreamEnd
  <1>3. ASSUME NEW x \in Sessions, RecvLoop(x)
        PROVE  StreamType'
    <2>1. CASE RecvEnd(x)
      BY <2>1, <1>a DEF RecvEnd, clientVars
    <2>2. CASE RecvSettings(x)
      <3>1. v2' = v2 \cup {x} /\ UNCHANGED <<flushed, lastSid, streams, str, owed, counter>>
        BY <2>2 DEF RecvSettings, clientVars, streamVars
      <3> QED BY <3>1, <1>0, <1>b DEF StreamType
    <2>3. ASSUME NEW n \in Sids, RecvSynAck(x, n) \/ RecvSynErr(x, n) \/ RecvFin(x, n)
          PROVE  StreamType'
      <3>1. /\ owed' = [owed EXCEPT ![x] = @ \ {n}]
            /\ streams' = streams \/ streams' = [streams EXCEPT ![x] = @ \ {n}]
            /\ UNCHANGED <<flushed, v2, lastSid, str, counter>>
        BY <2>3 DEF RecvSynAck, RecvSynErr, RecvFin, Acked, clientVars, sessVars
      <3>2. /\ flushed' \subseteq Sessions /\ v2' \subseteq Sessions
            /\ streams' \in [Sessions -> SUBSET Sids] /\ owed' \in [Sessions -> SUBSET Sids]
            /\ \A y \in Sessions : streams'[y] \subseteq streams[y]
        BY <3>1, <1>0 DEF StreamType
      <3> QED BY <3>1, <3>2, <1>b
    <2> QED BY <1>3, <2>1, <2>2, <2>3 DEF RecvLoop
  <1>4. ASSUME NEW x \in Sessions, SessionClose(x)
        PROVE  StreamType'
    <2>1. CASE CloseHook(x)
      BY <2>1, <1>a DEF CloseHook
    <2>2. CASE CloseSweep(x)
      <3>1. /\ str' = [str EXCEPT ![x] = [n \in Sids |-> IF n \in streams[x] THEN "dead" ELSE str[x][n]]]
            /\ streams' = [streams EXCEPT ![x] = {}] /\ owed' = [owed EXCEPT ![x] = {}]
            /\ UNCHANGED <<flushed, v2, lastSid, counter>>
        BY <2>2, <1>0 DEF CloseSweep, clientVars, sessVars, StreamType
      <3>2. str' \in [Sessions -> [Sids -> StrStates]]
        BY <3>1, <1>0 DEF StreamType, StrStates
      <3>3. \A y \in Sessions, m \in Sids :
              str'[y][m] = IF y = x /\ m \in streams[x] THEN "dead" ELSE str[y][m]
        BY <3>1, <1>0 DEF StreamType
      <3>4. \A y \in Sessions, m \in Sids : str[y][m] # "none" <=> str'[y][m] # "none"
        BY <3>3, <1>0 DEF StreamType
      <3>5. /\ streams' \in [Sessions -> SUBSET Sids] /\ owed' \in [Sessions -> SUBSET Sids]
            /\ \A y \in Sessions : streams'[y] \subseteq streams[y]
        BY <3>1, <1>0 DEF StreamType
      <3> QED BY <3>1, <3>2, <3>4, <3>5, <1>0 DEF StreamType, StrStates
    <2> QED BY <1>4, <2>1, <2>2 DEF SessionClose
  <1>5. ASSUME NEW x \in Sessions,
               Reap(x) \/ \E n \in Sids : WatchdogFire(x, n) \/ WatchdogClose(x, n)
        PROVE  StreamType'
    BY <1>5, <1>a DEF Reap, WatchdogFire, WatchdogClose, clientVars
  <1>6. ASSUME Tasks
        PROVE  StreamType'
    BY <1>6, <1>a DEF Tasks, ContextDone, ClientSnapshot, ClientCloseNext, CleanupClose, Cleanup,
                      clientVars
  <1> QED BY <1>1, <1>2, <1>3, <1>4, <1>5, <1>6 DEF Next

\* A thread moves; the others stay where they are.
Others(t) ==
  \A u \in Threads : u # t => pc'[u] = pc[u] /\ sess'[u] = sess[u] /\ sid'[u] = sid[u]

CallFunctions ==
  /\ pc \in [Threads -> Labels]
  /\ sess \in [Threads -> 0..counter] /\ sid \in [Threads -> 0..MaxStreams]

\* A thread that moves to a place its code has keeps the types of the calls.
LEMMA CallMove ==
  ASSUME TypeInv, UNCHANGED counter, NEW t \in Threads, Others(t), CallFunctions',
         IF t \in Callers THEN pc'[t] \in CallerLabels ELSE pc'[t] \in LoopLabels,
         pc'[t] \notin {"idle", "get", "dial", "none"} => sess'[t] \in 1..counter,
         \A x \in Sessions : t = Recv(x) /\ pc'[t] # "none" => sess'[t] = x
  PROVE  CallType'
  <1>1. CallType
    BY DEF TypeInv
  <1>2. \A c \in Callers : pc'[c] \in CallerLabels
    BY <1>1, ThreadFacts DEF CallType, Others
  <1>3. \A x \in Sessions : pc'[Recv(x)] \in LoopLabels
    BY <1>1, ThreadFacts DEF CallType, Others
  <1>4. \A u \in Threads : pc'[u] \notin {"idle", "get", "dial", "none"} => sess'[u] \in 1..counter'
    BY <1>1 DEF CallType, Others
  <1>5. \A x \in Sessions : pc'[Recv(x)] # "none" => sess'[Recv(x)] = x
    BY <1>1, ThreadFacts DEF CallType, Others
  <1> QED BY <1>2, <1>3, <1>4, <1>5 DEF CallType, CallFunctions

\* What Goto does, pointwise.
LEMMA GotoMoves ==
  ASSUME TypeInv, NEW t \in Threads, NEW l \in Labels, Goto(t, l), UNCHANGED <<sess, sid, counter>>
  PROVE  Others(t) /\ CallFunctions' /\ pc'[t] = l /\ sess'[t] = sess[t] /\ sid'[t] = sid[t]
  BY DEF TypeInv, CallType, Goto, Others, CallFunctions

\* What GoHome does, pointwise.
LEMMA HomeMoves ==
  ASSUME TypeInv, NEW t \in Threads, GoHome(t), UNCHANGED counter
  PROVE  /\ Others(t) /\ CallFunctions' /\ sid'[t] = 0
         /\ IF t \in Callers THEN pc'[t] = "idle" /\ sess'[t] = 0
            ELSE pc'[t] = "run" /\ sess'[t] = sess[t]
  <1>1. MaxStreams \in Nat /\ counter \in Nat /\ 0 \in 0..counter /\ 0 \in 0..MaxStreams
    BY ThreadFacts DEF TypeInv, ClientType
  <1>2. pc' = [pc EXCEPT ![t] = IF t \in Callers THEN "idle" ELSE "run"]
    BY DEF GoHome, Goto
  <1>3. pc' \in [Threads -> Labels]
    BY <1>2 DEF TypeInv, CallType, Labels
  <1>4. sid' = [sid EXCEPT ![t] = 0] /\ sid' \in [Threads -> 0..MaxStreams]
    BY <1>1 DEF TypeInv, CallType, GoHome
  <1>5. /\ sess' = IF t \in Callers THEN [sess EXCEPT ![t] = 0] ELSE sess
        /\ sess' \in [Threads -> 0..counter']
    BY <1>1 DEF TypeInv, CallType, GoHome
  <1> QED BY <1>2, <1>3, <1>4, <1>5 DEF TypeInv, CallType, Others, CallFunctions

\* A thread that is busy goes to another place.
LEMMA CallGoto ==
  ASSUME TypeInv, NEW t \in Threads, NEW l \in Labels, Goto(t, l), UNCHANGED <<sess, sid, counter>>,
         pc[t] \notin {"idle", "get", "dial", "none"},
         IF t \in Callers THEN l \in CallerLabels ELSE l \in LoopLabels
  PROVE  CallType'
  BY GotoMoves, CallMove, AtSession

\* A thread that is done with its stream goes back to where it waits: a caller
\* to its next CreateStream, a receive loop to its next frame.
LEMMA CallHome ==
  ASSUME TypeInv, NEW t \in Threads, GoHome(t), UNCHANGED counter,
         pc[t] \notin {"idle", "get", "dial", "none"}
  PROVE  CallType'
  <1>1. /\ Others(t) /\ CallFunctions'
        /\ IF t \in Callers THEN pc'[t] = "idle" ELSE pc'[t] = "run" /\ sess'[t] = sess[t]
    BY HomeMoves
  <1>2. sess[t] \in 1..counter /\ \A x \in Sessions : t = Recv(x) => sess[t] = x
    BY AtSession
  <1>3. CASE t \in Callers
    BY <1>1, <1>3, CallMove, ThreadFacts DEF CallerLabels
  <1>4. CASE t \notin Callers
    BY <1>1, <1>2, <1>4, CallMove DEF LoopLabels
  <1> QED BY <1>3, <1>4

\* After the hook a thread goes on to the FIN or is done.
LEMMA AfterHookMoves ==
  ASSUME TypeInv, NEW t \in Threads, AfterHook(t), UNCHANGED counter,
         pc[t] \notin {"idle", "get", "dial", "none"}
  PROVE  /\ CallType' /\ Others(t) /\ pc'[t] \in {"fin", "idle", "run"}
         /\ pc'[t] = "fin" => sess'[t] = sess[t]
  <1>1. CASE GoHome(t)
    BY <1>1, HomeMoves, CallHome
  <1>2. CASE Goto(t, "fin") /\ UNCHANGED <<sess, sid>>
    <2>1. "fin" \in Labels /\ "fin" \in CallerLabels /\ "fin" \in LoopLabels
      BY DEF Labels, CallerLabels, LoopLabels
    <2> QED BY <1>2, <2>1, GotoMoves, CallGoto
  <1> QED BY <1>1, <1>2 DEF AfterHook

\* Or it goes to put the session into the pool.
LEMMA ToInsertMoves ==
  ASSUME TypeInv, NEW t \in Threads, ToInsert(t), UNCHANGED counter,
         pc[t] \in {"use", "kill", "drop"}
  PROVE  /\ CallType' /\ Others(t) /\ pc'[t] \in {"insert", "drop insert"}
         /\ sess'[t] = sess[t]
  <1> DEFINE l == IF pc[t] = "drop" THEN "drop insert" ELSE "insert"
  <1>1. Goto(t, l) /\ UNCHANGED <<sess, sid>>
    BY DEF ToInsert
  <1>2. l \in Labels /\ l \in {"insert", "drop insert"} /\ l \in LoopLabels
    BY DEF Labels, LoopLabels
  <1>3. IF t \in Callers THEN l \in CallerLabels ELSE l \in LoopLabels
    BY <1>2, AtLabels DEF CallerLabels
  <1> QED BY <1>1, <1>2, <1>3, GotoMoves, CallGoto

\* A new session: the caller has it, and its receive loop starts.
LEMMA CreateSessionMoves ==
  ASSUME TypeInv, NEW c \in Callers, CreateSession(c)
  PROVE  /\ CallType' /\ counter' \in Sessions /\ counter' = counter + 1
         /\ pc'[c] = "open" /\ sess'[c] = counter' /\ sid' = sid
         /\ pc'[Recv(counter')] = "run" /\ sess'[Recv(counter')] = counter'
         /\ \A u \in Threads \ {c, Recv(counter')} : pc'[u] = pc[u] /\ sess'[u] = sess[u]
  <1> DEFINE x == counter + 1
             r == Recv(x)
  <1>1. /\ CallType /\ counter \in Nat /\ counter' = x /\ x \in Sessions /\ sid' = sid
        /\ sess' = [sess EXCEPT ![c] = x, ![r] = x]
        /\ pc' = [pc EXCEPT ![c] = "open", ![r] = "run"]
    BY ThreadFacts DEF CreateSession, TypeInv, ClientType, Sessions
  <1>2. c \in Threads /\ r \in Threads /\ r # c /\ r \notin Callers
    BY <1>1, ThreadFacts
  <1> HIDE DEF r
  <1>3. /\ pc' \in [Threads -> Labels] /\ pc'[c] = "open" /\ pc'[r] = "run"
        /\ \A u \in Threads \ {c, r} : pc'[u] = pc[u]
    BY <1>1, <1>2 DEF CallType, Labels
  <1>4. /\ sess' \in [Threads -> 0..x] /\ sess'[c] = x /\ sess'[r] = x
        /\ \A u \in Threads \ {c, r} : sess'[u] = sess[u]
    BY <1>1, <1>2 DEF CallType
  <1>5. \A a \in Callers : pc'[a] \in CallerLabels
    BY <1>1, <1>2, <1>3, ThreadFacts DEF CallType, CallerLabels
  <1>6. ASSUME NEW y \in Sessions
        PROVE  pc'[Recv(y)] \in LoopLabels
    <2>1. Recv(y) \in Threads /\ Recv(y) # c
      BY ThreadFacts
    <2>2. pc[Recv(y)] \in LoopLabels
      BY <1>1 DEF CallType
    <2>3. "run" \in LoopLabels
      BY DEF LoopLabels
    <2> QED BY <2>1, <2>2, <2>3, <1>3
  <1>7. \A u \in Threads : pc'[u] \notin {"idle", "get", "dial", "none"} => sess'[u] \in 1..x
    BY <1>1, <1>2, <1>3, <1>4 DEF CallType
  <1>8. \A y \in Sessions : pc'[Recv(y)] # "none" => sess'[Recv(y)] = y
    <2>1. ASSUME NEW y \in Sessions, y = x
          PROVE  sess'[Recv(y)] = y
      BY <2>1, <1>4 DEF r
    <2>2. ASSUME NEW y \in Sessions, y # x, pc'[Recv(y)] # "none"
          PROVE  sess'[Recv(y)] = y
      <3>1. Recv(y) \in Threads \ {c, r}
        BY <2>2, <1>2, ThreadFacts DEF r
      <3> QED BY <2>2, <3>1, <1>1, <1>3, <1>4 DEF CallType
    <2> QED BY <2>1, <2>2
  <1>9. CallType'
    BY <1>1, <1>3, <1>4, <1>5, <1>6, <1>7, <1>8 DEF CallType
  <1> QED BY <1>1, <1>2, <1>3, <1>4, <1>9 DEF r

\* Where the steps of a caller take it.
LEMMA CreateMoves ==
  ASSUME TypeInv, NEW c \in Callers, Create(c) \/ DialFail(c)
  PROVE  CallType' /\ Others(c) /\ pc'[c] \in {"idle", "get"}
  <1>1. c \in Threads /\ MaxStreams \in Nat
    BY ThreadFacts
  <1>2. PICK l \in {"idle", "get"} : Goto(c, l)
    BY DEF Create, DialFail
  <1>3. UNCHANGED <<sess, sid, counter>> /\ l \in Labels /\ l \in CallerLabels
    BY DEF Create, DialFail, clientVars, Labels, CallerLabels
  <1>4. Others(c) /\ CallFunctions' /\ pc'[c] = l
    BY <1>1, <1>2, <1>3, GotoMoves
  <1> QED BY <1>1, <1>2, <1>3, <1>4, CallMove, ThreadFacts

\* GetIdle either finds the pool empty and dials, or takes one session out of it.
LEMMA GetIdleMoves ==
  ASSUME TypeInv, NEW c \in Callers, GetIdle(c)
  PROVE  /\ CallType' /\ Others(c)
         /\ \/ pc'[c] = "dial" /\ idle' = idle
            \/ /\ pc'[c] = "open" /\ sess'[c] \in idle /\ idle' = idle \ {sess'[c]}
  <1>1. c \in Threads /\ idle \subseteq Sessions /\ idle \subseteq 1..counter /\ counter \in Nat
    BY ThreadFacts DEF TypeInv, ClientType, Sessions
  <1>2. CASE idle = {}
    <2>1. Goto(c, "dial") /\ UNCHANGED <<sess, sid, counter, idle>>
      BY <1>2 DEF GetIdle
    <2>2. "dial" \in Labels /\ "dial" \in CallerLabels
      BY DEF Labels, CallerLabels
    <2>3. Others(c) /\ CallFunctions' /\ pc'[c] = "dial"
      BY <1>1, <2>1, <2>2, GotoMoves
    <2> QED BY <1>1, <2>1, <2>2, <2>3, CallMove, ThreadFacts
  <1>3. CASE idle # {}
    <2> DEFINE x == Newest(idle)
    <2>1. x \in idle
      BY <1>1, <1>3, NewestIn
    <2>2. /\ sess' = [sess EXCEPT ![c] = x] /\ idle' = idle \ {x} /\ Goto(c, "open")
          /\ UNCHANGED <<sid, counter>>
      BY <1>3 DEF GetIdle
    <2> HIDE DEF x
    <2>5. x \in 0..counter /\ "open" \in Labels
      BY <1>1, <2>1 DEF Labels
    <2>6. /\ pc' \in [Threads -> Labels] /\ pc'[c] = "open"
          /\ \A u \in Threads : u # c => pc'[u] = pc[u]
      BY <1>1, <2>2, <2>5 DEF TypeInv, CallType, Goto
    <2>7. /\ sess' \in [Threads -> 0..counter'] /\ sess'[c] = x
          /\ \A u \in Threads : u # c => sess'[u] = sess[u]
      BY <1>1, <2>2, <2>5 DEF TypeInv, CallType
    <2>3. /\ Others(c) /\ CallFunctions' /\ pc'[c] = "open" /\ sess'[c] = x
      BY <2>2, <2>6, <2>7 DEF TypeInv, CallType, Others, CallFunctions
    <2>4. CallType'
      BY <1>1, <2>1, <2>2, <2>3, CallMove, ThreadFacts DEF CallerLabels
    <2> QED BY <2>1, <2>2, <2>3, <2>4
  <1> QED BY <1>2, <1>3

\* Open finds the session closed, or gives the caller the session's next stream.
LEMMA OpenMoves ==
  ASSUME TypeInv, NEW c \in Callers, Open(c)
  PROVE  /\ CallType' /\ Others(c) /\ sess[c] \in Sessions /\ sess'[c] = sess[c] /\ pc[c] = "open"
         /\ \/ pc'[c] = "fail" /\ sess[c] \in die /\ lastSid' = lastSid
            \/ /\ pc'[c] = "syn" /\ sess[c] \notin die
               /\ lastSid[sess[c]] + 1 \in Sids /\ sid'[c] = lastSid[sess[c]] + 1
               /\ lastSid' = [lastSid EXCEPT ![sess[c]] = sid'[c]]
               /\ Watch(sess[c], sid'[c])
  <1> DEFINE x == sess[c]
             n == lastSid[x] + 1
  <1>1. c \in Threads /\ pc[c] = "open" /\ MaxStreams \in Nat
    BY ThreadFacts DEF Open, At
  <1>2. x \in Sessions
    BY <1>1, AtSession
  <1>3. {"fail", "syn"} \subseteq Labels \cap CallerLabels
    BY DEF Labels, CallerLabels
  <1>4. CASE x \in die
    <2>1. Goto(c, "fail") /\ UNCHANGED <<lastSid, sess, sid, counter>>
      BY <1>4 DEF Open, clientVars
    <2>2. Others(c) /\ pc'[c] = "fail" /\ sess'[c] = sess[c]
      BY <1>1, <1>3, <2>1, GotoMoves
    <2>3. CallType'
      BY <1>1, <1>3, <2>1, CallGoto
    <2> QED BY <1>1, <1>2, <1>4, <2>1, <2>2, <2>3
  <1>5. CASE x \notin die
    <2>1. /\ Cardinality(Opened) < MaxStreams
          /\ lastSid' = [lastSid EXCEPT ![x] = n] /\ Watch(x, lastSid'[x])
          /\ sid' = [sid EXCEPT ![c] = lastSid'[x]] /\ Goto(c, "syn")
          /\ UNCHANGED <<sess, counter>>
      BY <1>5 DEF Open, clientVars
    <2>2. lastSid \in [Sessions -> 0..MaxStreams]
      BY DEF TypeInv, StreamType
    <2>3. n \in Sids /\ lastSid'[x] = n
      BY <2>1, <2>2, <1>2, OpenedBound
    <2>4. /\ Others(c) /\ CallFunctions' /\ pc'[c] = "syn" /\ sess'[c] = x /\ sid'[c] = n
      <3> HIDE DEF n, x
      <3>1. n \in 0..MaxStreams
        BY <1>1, <2>3 DEF Sids
      <3>2. /\ pc' \in [Threads -> Labels] /\ pc'[c] = "syn"
            /\ \A u \in Threads : u # c => pc'[u] = pc[u]
        BY <1>1, <1>3, <2>1 DEF TypeInv, CallType, Goto
      <3>3. /\ sid' \in [Threads -> 0..MaxStreams] /\ sid'[c] = n
            /\ \A u \in Threads : u # c => sid'[u] = sid[u]
        BY <1>1, <2>1, <2>3, <3>1 DEF TypeInv, CallType
      <3> QED BY <2>1, <3>2, <3>3 DEF TypeInv, CallType, Others, CallFunctions, x
    <2>5. CallType'
      <3> HIDE DEF n
      <3> QED BY <1>1, <1>2, <1>3, <2>1, <2>4, CallMove, AtSession
    <2> QED BY <1>1, <1>2, <1>5, <2>1, <2>3, <2>4, <2>5
  <1> QED BY <1>4, <1>5

\* Syn fails and the session is being closed, or the stream enters the map.
LEMMA SynMoves ==
  ASSUME TypeInv, NEW c \in Callers, Syn(c)
  PROVE  /\ CallType' /\ Others(c) /\ sess[c] \in Sessions /\ sess[c] \in 1..counter
         /\ sid[c] \in Sids /\ sid[c] <= lastSid[sess[c]]
         /\ sess'[c] = sess[c] /\ sid'[c] = sid[c] /\ pc[c] = "syn"
         /\ \/ /\ pc'[c] = "fail" /\ UNCHANGED <<streams, str>>
               /\ \/ sess[c] \in die /\ UNCHANGED closeVars
                  \/ StartClose(sess[c], c)
            \/ /\ pc'[c] = "sethook" /\ sess[c] \notin die /\ UNCHANGED closeVars
               /\ streams' = [streams EXCEPT ![sess[c]] = @ \cup {sid[c]}]
               /\ str' = [str EXCEPT ![sess[c]][sid[c]] = "made"]
         /\ UNCHANGED <<clientVars, taken, v2, lastSid, owed>>
  <1>1. c \in Threads /\ pc[c] = "syn"
    BY ThreadFacts DEF Syn, At
  <1>2. sess[c] \in Sessions /\ sess[c] \in 1..counter
    BY <1>1, AtSession
  <1>3. sid[c] \in Sids /\ sid[c] <= lastSid[sess[c]]
    BY <1>1, <1>2, ThreadFacts DEF TypeInv, AtStream, StreamType, Sids
  <1>4. UNCHANGED <<clientVars, taken, v2, lastSid, owed, sess, sid>>
    BY DEF Syn
  <1>5. /\ {"fail", "sethook"} \subseteq Labels /\ {"fail", "sethook"} \subseteq CallerLabels
    BY DEF Labels, CallerLabels
  <1>6. \/ /\ Goto(c, "fail") /\ UNCHANGED <<streams, str>>
           /\ (sess[c] \in die /\ UNCHANGED closeVars) \/ StartClose(sess[c], c)
        \/ /\ Goto(c, "sethook") /\ sess[c] \notin die /\ UNCHANGED closeVars
           /\ streams' = [streams EXCEPT ![sess[c]] = @ \cup {sid[c]}]
           /\ str' = [str EXCEPT ![sess[c]][sid[c]] = "made"]
    BY DEF Syn
  <1>7. ASSUME NEW l \in {"fail", "sethook"}, Goto(c, l)
        PROVE  CallType' /\ Others(c) /\ pc'[c] = l /\ sess'[c] = sess[c] /\ sid'[c] = sid[c]
    BY <1>1, <1>4, <1>5, <1>7, GotoMoves, CallGoto DEF clientVars
  <1> QED BY <1>1, <1>2, <1>3, <1>4, <1>6, <1>7

\* Setting the hook and sending keep the caller at its stream.
LEMMA UseMoves ==
  ASSUME TypeInv, NEW c \in Callers, SetHook(c) \/ Send(c)
  PROVE  /\ CallType' /\ Others(c) /\ pc'[c] = "use" /\ pc[c] \in {"sethook", "use"}
         /\ sess'[c] = sess[c] /\ sid'[c] = sid[c] /\ sess[c] \in Sessions /\ sid[c] \in Sids
  <1>1. c \in Threads /\ pc[c] \in {"sethook", "use"}
    BY ThreadFacts DEF SetHook, Send, At
  <1>2. sess[c] \in Sessions /\ sid[c] \in Sids
    BY <1>1, AtStreamFacts
  <1>3. CASE SetHook(c)
    <2>1. "use" \in Labels /\ "use" \in CallerLabels
      BY DEF Labels, CallerLabels
    <2>2. Goto(c, "use") /\ UNCHANGED <<sess, sid, counter>>
      BY <1>3 DEF SetHook, clientVars
    <2> QED BY <1>1, <1>2, <2>1, <2>2, GotoMoves, CallGoto
  <1>4. CASE Send(c)
    <2>1. UNCHANGED <<callVars, counter>> /\ pc[c] = "use"
      BY <1>4 DEF Send, clientVars, At
    <2> QED BY <1>1, <1>2, <2>1 DEF callVars, Others, TypeInv, CallType
  <1> QED BY <1>3, <1>4

\* CreateFail closes the session that would not open a stream (client.go:95-99).
LEMMA CreateFailMoves ==
  ASSUME TypeInv, NEW c \in Callers, CreateFail(c)
  PROVE  /\ CallType' /\ Others(c) /\ pc'[c] = "idle" /\ pc[c] = "fail"
         /\ sess[c] \in Sessions /\ sess[c] \in 1..counter /\ StartClose(sess[c], c)
         /\ UNCHANGED <<clientVars, taken, sessVars, streamVars>>
  <1>1. c \in Threads /\ pc[c] = "fail" /\ GoHome(c) /\ UNCHANGED counter
    BY ThreadFacts DEF CreateFail, At, clientVars
  <1>2. sess[c] \in Sessions /\ sess[c] \in 1..counter
    BY <1>1, AtSession
  <1> QED BY <1>1, <1>2, HomeMoves, CallHome DEF CreateFail

\* Where the threads that end streams go.
LEMMA StreamCloseMoves ==
  ASSUME TypeInv, NEW t \in Threads, StreamClose(t)
  PROVE  /\ CallType' /\ Others(t) /\ pc[t] \in {"use", "kill", "drop"}
         /\ sess[t] \in Sessions /\ sid[t] \in Sids /\ sess[t] \in 1..counter
         /\ str[sess[t]][sid[t]] # "none"
         /\ pc'[t] = "fin" => sess'[t] = sess[t]
         /\ \/ /\ pc'[t] \in {"idle", "run"} /\ UNCHANGED <<str, reap>>
            \/ /\ str[sess[t]][sid[t]] # "dead"
               /\ str' = [str EXCEPT ![sess[t]][sid[t]] = "dead"]
               /\ \/ /\ pc'[t] \in {"fin", "idle", "run"}
                     /\ \/ sess[t] \in die /\ reap' = reap
                        \/ sess[t] \notin die /\ cdie /\ reap' = reap \cup {sess[t]}
                  \/ /\ pc'[t] \in {"insert", "drop insert"} /\ sess'[t] = sess[t]
                     /\ sess[t] \notin die /\ ~cdie /\ reap' = reap
  <1>1. pc[t] \in {"use", "kill", "drop"} /\ UNCHANGED counter
    BY DEF StreamClose, At, clientVars
  <1>2. /\ sess[t] \in Sessions /\ sid[t] \in Sids /\ sess[t] \in 1..counter
        /\ str[sess[t]][sid[t]] # "none"
    BY <1>1, AtStreamFacts, AtSession
  <1>3. CASE str[sess[t]][sid[t]] = "dead"
    <2>1. GoHome(t) /\ UNCHANGED <<str, reap>>
      BY <1>3 DEF StreamClose
    <2>2. CallType'
      BY <1>1, <2>1, CallHome
    <2>3. Others(t) /\ pc'[t] \in {"idle", "run"}
      BY <1>1, <2>1, HomeMoves
    <2> QED BY <1>1, <1>2, <2>1, <2>2, <2>3
  <1>4. CASE str[sess[t]][sid[t]] # "dead"
    <2>1. str' = [str EXCEPT ![sess[t]][sid[t]] = "dead"] /\ StreamHook(t)
      BY <1>4 DEF StreamClose
    <2>2. CASE AfterHook(t) /\ sess[t] \in die /\ reap' = reap
      BY <1>1, <1>2, <1>4, <2>1, <2>2, AfterHookMoves
    <2>3. CASE AfterHook(t) /\ sess[t] \notin die /\ cdie /\ reap' = reap \cup {sess[t]}
      BY <1>1, <1>2, <1>4, <2>1, <2>3, AfterHookMoves
    <2>4. CASE ToInsert(t) /\ sess[t] \notin die /\ ~cdie /\ reap' = reap
      BY <1>1, <1>2, <1>4, <2>1, <2>4, ToInsertMoves
    <2> QED BY <2>1, <2>2, <2>3, <2>4 DEF StreamHook
  <1> QED BY <1>3, <1>4

\* After the hook the thread goes on to the FIN, or has nothing left to do.
LEMMA HookInsertMoves ==
  ASSUME TypeInv, NEW t \in Threads, HookInsert(t)
  PROVE  /\ CallType' /\ Others(t) /\ pc[t] \in {"insert", "drop insert"}
         /\ pc'[t] \in {"fin", "idle", "run"}
         /\ pc'[t] = "fin" => sess'[t] = sess[t]
         /\ sess[t] \in Sessions /\ sess[t] \in 1..counter
  <1>1. pc[t] \in {"insert", "drop insert"} /\ UNCHANGED counter /\ AfterHook(t)
    BY DEF HookInsert, At
  <1> QED BY <1>1, AtSession, AfterHookMoves

\* The FIN is the last a thread does for a stream; a write that fails closes the
\* session.
LEMMA StreamFinMoves ==
  ASSUME TypeInv, NEW t \in Threads, StreamFin(t)
  PROVE  /\ CallType' /\ Others(t) /\ pc[t] = "fin" /\ pc'[t] \in {"idle", "run"}
         /\ sess[t] \in Sessions /\ sess[t] \in 1..counter
         /\ StartClose(sess[t], t) \/ UNCHANGED closeVars
         /\ streams' = streams \/ streams' = [streams EXCEPT ![sess[t]] = @ \ {sid[t]}]
         /\ UNCHANGED <<clientVars, taken, v2, lastSid, str, owed>>
  <1>1. /\ pc[t] = "fin" /\ UNCHANGED counter /\ GoHome(t)
        /\ UNCHANGED <<clientVars, taken, v2, lastSid, str, owed>>
    BY DEF StreamFin, At, clientVars
  <1>2. /\ StartClose(sess[t], t) \/ UNCHANGED closeVars
        /\ streams' = streams \/ streams' = [streams EXCEPT ![sess[t]] = @ \ {sid[t]}]
    BY DEF StreamFin
  <1> QED BY <1>1, <1>2, AtSession, HomeMoves, CallHome

\* Where a receive loop goes.
LEMMA RecvMoves ==
  ASSUME TypeInv, NEW x \in Sessions, RecvLoop(x)
  PROVE  /\ CallType' /\ Others(Recv(x)) /\ Recv(x) \in Threads
         /\ pc[Recv(x)] = "run" /\ sess[Recv(x)] = x /\ x \in 1..counter
         /\ pc'[Recv(x)] \in {"run", "kill", "drop"} /\ sess'[Recv(x)] = x
         /\ pc'[Recv(x)] \in {"kill", "drop"} =>
              sid'[Recv(x)] \in Sids /\ str[x][sid'[Recv(x)]] # "none"
  <1> DEFINE r == Recv(x)
  <1>1. /\ r \in Threads /\ r \notin Callers /\ pc[r] = "run" /\ UNCHANGED counter
    BY ThreadFacts DEF RecvLoop, RecvSettings, RecvEnd, RecvSynAck, RecvSynErr, RecvFin, Acked,
                       Reading, At, clientVars
  <1>2. sess[r] = x /\ x \in 1..counter
    BY <1>1, AtSession
  <1>3. CASE UNCHANGED callVars
    <2>1. Others(r) /\ UNCHANGED <<pc, sess, sid>>
      BY <1>3 DEF Others, callVars
    <2> QED BY <1>1, <1>2, <2>1 DEF TypeInv, CallType
  <1>4. ASSUME NEW n \in Sids, RecvSynErr(x, n) \/ RecvFin(x, n)
        PROVE  /\ CallType' /\ Others(r) /\ pc'[r] \in {"kill", "drop"} /\ sess'[r] = x
               /\ sid'[r] = n /\ str[x][n] # "none"
    <2>1. n \in streams[x] \/ str[x][n] = "used"
      BY <1>4 DEF RecvSynErr, RecvFin
    <2>2. str[x][n] # "none"
      BY <2>1 DEF TypeInv, StreamType
    <2>3. PICK l \in {"kill", "drop"} :
            Goto(r, l) /\ sid' = [sid EXCEPT ![r] = n] /\ UNCHANGED <<sess, counter>>
      BY <1>4 DEF RecvSynErr, RecvFin, clientVars
    <2>4. l \in Labels /\ l \in LoopLabels
      BY DEF Labels, LoopLabels
    <2>5. n \in 0..MaxStreams
      BY ThreadFacts DEF Sids
    <2> HIDE DEF r
    <2>6. /\ Others(r) /\ CallFunctions' /\ pc'[r] = l /\ sess'[r] = sess[r] /\ sid'[r] = n
      BY <1>1, <2>3, <2>4, <2>5 DEF TypeInv, CallType, Goto, Others, CallFunctions
    <2>7. CallType'
      <3>1. \A y \in Sessions : r = Recv(y) => sess'[r] = y
        BY <1>1, <2>6, AtSession
      <3> QED BY <1>1, <1>2, <2>3, <2>4, <2>6, <3>1, CallMove
    <2> QED BY <1>2, <2>2, <2>6, <2>7
  <1>5. \/ UNCHANGED callVars
        \/ \E n \in Sids : RecvSynErr(x, n) \/ RecvFin(x, n)
    BY DEF RecvLoop, RecvSettings, RecvEnd, RecvSynAck
  <1> QED BY <1>1, <1>2, <1>3, <1>4, <1>5

\* The callers, the receive loops and the threads that end streams.
LEMMA CallTypeStep ==
  ASSUME TypeInv, Next
  PROVE  CallType'
  <1>a. ASSUME UNCHANGED <<callVars, counter>>
        PROVE  CallType'
    BY <1>a DEF TypeInv, CallType, callVars
  <1>1. ASSUME NEW c \in Callers, CreateStream(c) \/ Send(c)
        PROVE  CallType'
    BY <1>1, CreateMoves, GetIdleMoves, CreateSessionMoves, OpenMoves, SynMoves, UseMoves,
       CreateFailMoves DEF CreateStream
  <1>2. ASSUME NEW t \in Threads, StreamEnd(t)
        PROVE  CallType'
    BY <1>2, StreamCloseMoves, HookInsertMoves, StreamFinMoves DEF StreamEnd
  <1>3. ASSUME NEW x \in Sessions, RecvLoop(x)
        PROVE  CallType'
    BY <1>3, RecvMoves
  <1>4. ASSUME NEW x \in Sessions,
               \/ SessionClose(x) \/ Reap(x)
               \/ \E n \in Sids : WatchdogFire(x, n) \/ WatchdogClose(x, n)
        PROVE  CallType'
    BY <1>4, <1>a DEF SessionClose, CloseHook, CloseSweep, Reap, WatchdogFire, WatchdogClose,
                      clientVars
  <1>5. ASSUME Tasks
        PROVE  CallType'
    BY <1>5, <1>a DEF Tasks, ContextDone, ClientSnapshot, ClientCloseNext, CleanupClose, Cleanup,
                      clientVars
  <1> QED BY <1>1, <1>2, <1>3, <1>4, <1>5 DEF Next

\* Streams are numbered upwards, and do not vanish.
Grows ==
  /\ \A x \in Sessions : lastSid[x] <= lastSid'[x]
  /\ \A x \in Sessions, n \in Sids : str[x][n] # "none" => str'[x][n] # "none"

\* Stream numbers are only handed out, and a stream that exists remains known.
LEMMA StreamsGrow ==
  ASSUME TypeInv, Next
  PROVE  Grows
  <1>0. StreamType /\ \A x \in Sessions : lastSid[x] \in Nat
    BY ThreadFacts DEF TypeInv, StreamType
  <1>a. ASSUME UNCHANGED <<lastSid, str>>
        PROVE  Grows
    BY <1>a, <1>0 DEF Grows
  <1>b. ASSUME NEW x \in Sessions, NEW n \in Sids, NEW s \in StrStates \ {"none"},
               str' = [str EXCEPT ![x][n] = s], UNCHANGED lastSid
        PROVE  Grows
    <2>1. \A y \in Sessions, m \in Sids : str'[y][m] = s \/ str'[y][m] = str[y][m]
      BY <1>b, <1>0 DEF StreamType
    <2> QED BY <1>b, <1>0, <2>1 DEF Grows, StrStates
  <1>1. ASSUME NEW c \in Callers, CreateStream(c) \/ Send(c)
        PROVE  Grows
    <2>1. CASE Open(c)
      <3>1. UNCHANGED str /\ sess[c] \in Sessions
        BY <2>1, OpenMoves DEF Open, streamVars
      <3>2. \/ lastSid' = lastSid
            \/ lastSid' = [lastSid EXCEPT ![sess[c]] = lastSid[sess[c]] + 1]
        BY <2>1, OpenMoves
      <3> QED BY <3>1, <3>2, <1>0 DEF Grows, StreamType
    <2>2. CASE Syn(c)
      <3>1. /\ sess[c] \in Sessions /\ sid[c] \in Sids /\ UNCHANGED lastSid
            /\ UNCHANGED str \/ str' = [str EXCEPT ![sess[c]][sid[c]] = "made"]
        BY <2>2, SynMoves
      <3>2. "made" \in StrStates \ {"none"}
        BY DEF StrStates
      <3> QED BY <3>1, <3>2, <1>a, <1>b
    <2>3. CASE SetHook(c)
      <3> DEFINE s == IF str[sess[c]][sid[c]] = "made" THEN "live" ELSE str[sess[c]][sid[c]]
      <3>1. c \in Threads /\ pc[c] = "sethook"
        BY <2>3, ThreadFacts DEF SetHook, At
      <3>2. sess[c] \in Sessions /\ sid[c] \in Sids /\ str[sess[c]][sid[c]] # "none"
        BY <3>1, AtStreamFacts
      <3>3. str' = [str EXCEPT ![sess[c]][sid[c]] = s] /\ UNCHANGED lastSid
        BY <2>3 DEF SetHook, sessVars
      <3>4. s \in StrStates \ {"none"}
        BY <3>2, <1>0 DEF StreamType, StrStates
      <3> HIDE DEF s
      <3> QED BY <3>2, <3>3, <3>4, <1>b
    <2>4. CASE Send(c)
      <3>1. "used" \in StrStates \ {"none"}
        BY DEF StrStates
      <3>2. str' = [str EXCEPT ![sess[c]][sid[c]] = "used"] /\ UNCHANGED lastSid
        BY <2>4 DEF Send
      <3> QED BY <2>4, <3>1, <3>2, <1>b, UseMoves
    <2>5. CASE Create(c) \/ GetIdle(c) \/ DialFail(c) \/ CreateSession(c) \/ CreateFail(c)
      BY <2>5, <1>a DEF Create, GetIdle, DialFail, CreateSession, CreateFail, sessVars, streamVars
    <2> QED BY <1>1, <2>1, <2>2, <2>3, <2>4, <2>5 DEF CreateStream
  <1>2. ASSUME NEW t \in Threads, StreamEnd(t)
        PROVE  Grows
    <2>1. CASE StreamClose(t)
      <3>1. "dead" \in StrStates \ {"none"}
        BY DEF StrStates
      <3>2. UNCHANGED lastSid
        BY <2>1 DEF StreamClose, sessVars
      <3>3. /\ sess[t] \in Sessions /\ sid[t] \in Sids
            /\ str' = str \/ str' = [str EXCEPT ![sess[t]][sid[t]] = "dead"]
        BY <2>1, StreamCloseMoves
      <3> QED BY <3>1, <3>2, <3>3, <1>a, <1>b
    <2>2. CASE HookInsert(t) \/ StreamFin(t)
      BY <2>2, <1>a DEF HookInsert, StreamFin, sessVars, streamVars
    <2> QED BY <1>2, <2>1, <2>2 DEF StreamEnd
  <1>3. ASSUME NEW x \in Sessions, RecvLoop(x)
        PROVE  Grows
    BY <1>3, <1>a DEF RecvLoop, RecvSettings, RecvSynAck, RecvSynErr, RecvFin, RecvEnd,
                      sessVars, streamVars
  <1>4. ASSUME NEW x \in Sessions,
               \/ SessionClose(x) \/ Reap(x)
               \/ \E n \in Sids : WatchdogFire(x, n) \/ WatchdogClose(x, n)
        PROVE  Grows
    <2>1. CASE CloseSweep(x)
      <3>1. /\ str' = [str EXCEPT ![x] = [n \in Sids |-> IF n \in streams[x] THEN "dead" ELSE str[x][n]]]
            /\ UNCHANGED lastSid
        BY <2>1, <1>0 DEF CloseSweep, sessVars, StreamType
      <3>2. \A y \in Sessions, m \in Sids : str'[y][m] \in {"dead", str[y][m]}
        BY <3>1, <1>0 DEF StreamType
      <3> QED BY <3>1, <3>2, <1>0 DEF Grows
    <2>2. CASE CloseHook(x) \/ Reap(x) \/ \E n \in Sids : WatchdogFire(x, n) \/ WatchdogClose(x, n)
      BY <2>2, <1>a DEF CloseHook, Reap, WatchdogFire, WatchdogClose, sessVars, streamVars
    <2> QED BY <1>4, <2>1, <2>2 DEF SessionClose
  <1>5. ASSUME Tasks
        PROVE  Grows
    BY <1>5, <1>a DEF Tasks, ContextDone, ClientSnapshot, ClientCloseNext, CleanupClose, Cleanup,
                      sessVars, streamVars
  <1> QED BY <1>1, <1>2, <1>3, <1>4, <1>5 DEF Next

\* A thread that is at a stream stays at one that exists.
LEMMA AtStreamKept ==
  ASSUME TypeInv, Grows, StreamType', NEW t \in Threads, Others(t),
         pc'[t] = "syn" => sid'[t] \in 1..lastSid'[sess'[t]],
         pc'[t] \in {"sethook", "use", "kill", "drop"} =>
           sid'[t] \in Sids /\ str'[sess'[t]][sid'[t]] # "none"
  PROVE  AtStream'
  <1> SUFFICES ASSUME NEW u \in Threads
               PROVE  /\ pc'[u] = "syn" => sid'[u] \in 1..lastSid'[sess'[u]]
                      /\ pc'[u] \in {"sethook", "use", "kill", "drop"} =>
                           sid'[u] \in Sids /\ str'[sess'[u]][sid'[u]] # "none"
    BY DEF AtStream
  <1>1. CASE u = t
    BY <1>1
  <1>2. CASE u # t
    <2>1. pc'[u] = pc[u] /\ sess'[u] = sess[u] /\ sid'[u] = sid[u]
      BY <1>2 DEF Others
    <2>2. ASSUME pc[u] = "syn"
          PROVE  sid[u] \in 1..lastSid'[sess[u]]
      <3>1. sess[u] \in Sessions /\ sid[u] \in 1..lastSid[sess[u]]
        BY <2>2, AtSession DEF TypeInv, AtStream
      <3>2. lastSid[sess[u]] <= lastSid'[sess[u]]
        BY <3>1 DEF Grows
      <3>3. lastSid[sess[u]] \in Nat /\ lastSid'[sess[u]] \in Nat
        BY <3>1, ThreadFacts DEF TypeInv, StreamType
      <3> QED BY <3>1, <3>2, <3>3
    <2>3. ASSUME pc[u] \in {"sethook", "use", "kill", "drop"}
          PROVE  sid[u] \in Sids /\ str'[sess[u]][sid[u]] # "none"
      BY <2>3, AtStreamFacts DEF Grows
    <2> QED BY <2>1, <2>2, <2>3
  <1> QED BY <1>1, <1>2

\* Every step keeps a thread at a stream that exists.
LEMMA AtStreamStep ==
  ASSUME TypeInv, Next
  PROVE  AtStream'
  <1>0. Grows /\ StreamType' /\ StreamType
    BY StreamsGrow, StreamTypeStep DEF TypeInv
  <1>k. ASSUME NEW t \in Threads, Others(t),
               pc'[t] \notin {"syn", "sethook", "use", "kill", "drop"}
        PROVE  AtStream'
    BY <1>k, <1>0, AtStreamKept
  <1>a. ASSUME UNCHANGED callVars
        PROVE  AtStream'
    <2> SUFFICES ASSUME NEW u \in Threads
                 PROVE  /\ pc'[u] = "syn" => sid'[u] \in 1..lastSid'[sess'[u]]
                        /\ pc'[u] \in {"sethook", "use", "kill", "drop"} =>
                             sid'[u] \in Sids /\ str'[sess'[u]][sid'[u]] # "none"
      BY DEF AtStream
    <2>1. UNCHANGED <<pc, sess, sid>> /\ Others(u)
      BY <1>a DEF callVars, Others
    <2>2. ASSUME pc[u] = "syn"
          PROVE  sid[u] \in 1..lastSid'[sess[u]]
      <3>1. sess[u] \in Sessions /\ sid[u] \in 1..lastSid[sess[u]]
        BY <2>2, AtSession DEF TypeInv, AtStream
      <3>2. lastSid[sess[u]] \in Nat /\ lastSid'[sess[u]] \in Nat /\ lastSid[sess[u]] <= lastSid'[sess[u]]
        BY <3>1, <1>0, ThreadFacts DEF StreamType, Grows
      <3> QED BY <3>1, <3>2
    <2>3. ASSUME pc[u] \in {"sethook", "use", "kill", "drop"}
          PROVE  sid[u] \in Sids /\ str'[sess[u]][sid[u]] # "none"
      BY <2>3, <1>0, AtStreamFacts DEF Grows
    <2> QED BY <2>1, <2>2, <2>3
  <1>1. ASSUME NEW c \in Callers, CreateStream(c) \/ Send(c)
        PROVE  AtStream'
    <2>0. c \in Threads
      BY ThreadFacts
    <2>1. CASE Create(c) \/ DialFail(c) \/ GetIdle(c) \/ CreateFail(c)
      BY <2>0, <2>1, <1>k, CreateMoves, GetIdleMoves, CreateFailMoves
    <2>2. CASE CreateSession(c)
      <3>1. \A u \in Threads : \/ pc'[u] \in {"open", "run"}
                               \/ pc'[u] = pc[u] /\ sess'[u] = sess[u] /\ sid'[u] = sid[u]
        BY <2>2, CreateSessionMoves
      <3>2. UNCHANGED <<lastSid, str>>
        BY <2>2 DEF CreateSession, sessVars, streamVars
      <3> QED BY <3>1, <3>2 DEF TypeInv, AtStream
    <2>3. CASE Open(c)
      <3>1. ASSUME pc'[c] = "syn"
            PROVE  sid'[c] \in 1..lastSid'[sess'[c]]
        <4>1. /\ sess[c] \in Sessions /\ sess'[c] = sess[c]
              /\ lastSid[sess[c]] + 1 \in Sids /\ sid'[c] = lastSid[sess[c]] + 1
              /\ lastSid' = [lastSid EXCEPT ![sess[c]] = sid'[c]]
          BY <2>3, <3>1, OpenMoves
        <4>2. lastSid'[sess'[c]] = sid'[c]
          BY <4>1, <1>0 DEF StreamType
        <4> QED BY <4>1, <4>2 DEF Sids
      <3>2. pc'[c] \in {"fail", "syn"} /\ Others(c)
        BY <2>3, OpenMoves
      <3> QED BY <2>0, <3>1, <3>2, <1>0, AtStreamKept
    <2>4. CASE Syn(c)
      <3>1. /\ Others(c) /\ sess[c] \in Sessions /\ sid[c] \in Sids
            /\ sess'[c] = sess[c] /\ sid'[c] = sid[c]
            /\ \/ pc'[c] = "fail"
               \/ pc'[c] = "sethook" /\ str' = [str EXCEPT ![sess[c]][sid[c]] = "made"]
        BY <2>4, SynMoves
      <3>2. pc'[c] = "sethook" => str'[sess[c]][sid[c]] # "none"
        BY <3>1, <1>0 DEF StreamType
      <3> QED BY <2>0, <3>1, <3>2, <1>0, AtStreamKept
    <2>5. CASE SetHook(c) \/ Send(c)
      <3>1. /\ Others(c) /\ pc'[c] = "use" /\ sess'[c] = sess[c] /\ sid'[c] = sid[c]
            /\ sess[c] \in Sessions /\ sid[c] \in Sids /\ str[sess[c]][sid[c]] # "none"
        BY <2>0, <2>5, UseMoves, AtStreamFacts
      <3>2. str'[sess[c]][sid[c]] # "none"
        BY <3>1, <1>0 DEF Grows
      <3> QED BY <2>0, <3>1, <3>2, <1>0, AtStreamKept
    <2> QED BY <1>1, <2>1, <2>2, <2>3, <2>4, <2>5 DEF CreateStream
  <1>2. ASSUME NEW t \in Threads, StreamEnd(t)
        PROVE  AtStream'
    <2>1. CASE StreamClose(t)
      BY <2>1, <1>k, StreamCloseMoves
    <2>2. CASE HookInsert(t)
      BY <2>2, <1>k, HookInsertMoves
    <2>3. CASE StreamFin(t)
      BY <2>3, <1>k, StreamFinMoves
    <2> QED BY <1>2, <2>1, <2>2, <2>3 DEF StreamEnd
  <1>3. ASSUME NEW x \in Sessions, RecvLoop(x)
        PROVE  AtStream'
    <2> DEFINE r == Recv(x)
    <2>1. /\ r \in Threads /\ Others(r) /\ pc'[r] \in {"run", "kill", "drop"} /\ sess'[r] = x
          /\ pc'[r] \in {"kill", "drop"} => sid'[r] \in Sids /\ str[x][sid'[r]] # "none"
      BY <1>3, RecvMoves
    <2> HIDE DEF r
    <2>2. pc'[r] \in {"kill", "drop"} => str'[x][sid'[r]] # "none"
      BY <2>1, <1>0 DEF Grows
    <2> QED BY <2>1, <2>2, <1>0, AtStreamKept
  <1>4. ASSUME NEW x \in Sessions,
               \/ SessionClose(x) \/ Reap(x)
               \/ \E n \in Sids : WatchdogFire(x, n) \/ WatchdogClose(x, n)
        PROVE  AtStream'
    BY <1>4, <1>a DEF SessionClose, CloseHook, CloseSweep, Reap, WatchdogFire, WatchdogClose
  <1>5. ASSUME Tasks
        PROVE  AtStream'
    BY <1>5, <1>a DEF Tasks, ContextDone, ClientSnapshot, ClientCloseNext, CleanupClose, Cleanup
  <1> QED BY <1>1, <1>2, <1>3, <1>4, <1>5 DEF Next

\* The types are an invariant of their own.
LEMMA TypeStep ==
  ASSUME TypeInv, [Next]_vars
  PROVE  TypeInv'
  <1>1. CASE Next
    BY <1>1, ClientTypeStep, CloseTypeStep, WatchTypeStep, StreamTypeStep, CallTypeStep,
       AtStreamStep DEF TypeInv
  <1>2. CASE UNCHANGED vars
    <2>1. /\ UNCHANGED <<cdie, counter, idle, sessions, taken, die, cl, by, todo, expired, reap>>
          /\ UNCHANGED <<synDone, wd, flushed, v2, lastSid, streams, str, owed, pc, sess, sid, faults>>
      BY <1>2 DEF vars, clientVars, closeVars, sessVars, streamVars, callVars
    <2> QED BY <2>1 DEF TypeInv, ClientType, CloseType, WatchType, StreamType, CallType, AtStream
  <1> QED BY <1>1, <1>2

-----------------------------------------------------------------------------
(* One lease for a session.                                                *)

\* What becomes of the streams that are alive when one changes its state.
LEMMA LiveChange ==
  ASSUME TypeInv, NEW x \in Sessions, NEW n \in Sids, NEW s,
         str' = [str EXCEPT ![x][n] = s]
  PROVE  /\ \A y \in Sessions : y # x => Live(y)' = Live(y)
         /\ s \in {"made", "live", "used"} => Live(x)' = Live(x) \cup {n}
         /\ s = "dead" => Live(x)' = Live(x) \ {n}
  <1>1. \A y \in Sessions, m \in Sids : str'[y][m] = IF y = x /\ m = n THEN s ELSE str[y][m]
    BY DEF TypeInv, StreamType
  <1>2. ASSUME NEW y \in Sessions, y # x
        PROVE  Live(y)' = Live(y)
    BY <1>1, <1>2 DEF Live
  <1>3. ASSUME s \in {"made", "live", "used"}
        PROVE  Live(x)' = Live(x) \cup {n}
    BY <1>1, <1>3 DEF Live
  <1>4. ASSUME s = "dead"
        PROVE  Live(x)' = Live(x) \ {n}
    BY <1>1, <1>4 DEF Live
  <1> QED BY <1>2, <1>3, <1>4

\* The streams that are live change only with the state of a stream.
LEMMA LiveSame ==
  ASSUME UNCHANGED str
  PROVE  \A x \in Sessions : Live(x)' = Live(x)
  BY DEF Live

\* A session nobody comes to have keeps its one lease, or loses it.
Kept1(x) ==
  /\ \A t \in Threads : Holds(t, x)' => Holds(t, x)
  /\ Live(x)' \subseteq Live(x)

Kept2(x) ==
  /\ x \in idle' => x \in idle
  /\ x \in expired' => x \in expired
  /\ x \in reap' => x \in reap

\* One lease stays one lease when nobody new comes to have it.
LEMMA LeaseKept ==
  ASSUME NEW x \in Sessions, OneLease(x), Kept1(x), Kept2(x)
  PROVE  OneLease(x)'
  <1>1. \A t, u \in Threads : Holds(t, x)' /\ Holds(u, x)' => t = u
    BY DEF OneLease, Kept1
  <1>2. \A m, n \in Live(x)' : m = n
    BY DEF OneLease, Kept1
  <1>3. ASSUME NEW t \in Threads, Holds(t, x)'
        PROVE  Live(x)' = {} /\ x \notin (idle \cup expired \cup reap)'
    BY <1>3 DEF OneLease, Kept1, Kept2
  <1>4. Live(x)' # {} => x \notin (idle \cup expired \cup reap)'
    BY DEF OneLease, Kept1, Kept2
  <1>5. /\ x \in idle' => x \notin (expired \cup reap)'
        /\ x \in expired' => x \notin reap'
    BY DEF OneLease, Kept2
  <1> QED BY <1>1, <1>2, <1>3, <1>4, <1>5 DEF OneLease

\* The thread that moves is the only one to come to hold anything.
LEMMA HoldsOthers ==
  ASSUME NEW t \in Threads, Others(t), NEW x
  PROVE  /\ \A u \in Threads : u # t => (Holds(u, x)' <=> Holds(u, x))
         /\ pc'[t] \notin {"open", "syn", "insert", "drop insert"} \/ sess'[t] # x => ~Holds(t, x)'
  BY DEF Others, Holds

\* A thread that goes elsewhere takes no session.
LEMMA HoldsKept ==
  ASSUME NEW t \in Threads, Others(t), NEW x,
         \/ pc'[t] \notin {"open", "syn", "insert", "drop insert"} \/ sess'[t] # x
         \/ Holds(t, x)
  PROVE  \A u \in Threads : Holds(u, x)' => Holds(u, x)
  BY HoldsOthers

\* Where no thread moves, the threads have the sessions they had.
LEMMA HoldsSame ==
  ASSUME UNCHANGED callVars
  PROVE  \A x : \A u \in Threads : Holds(u, x)' <=> Holds(u, x)
  BY DEF Holds, callVars

\* What closing a session leaves in the lists.
LEMMA StartCloseLists ==
  ASSUME NEW x, NEW t, StartClose(x, t)
  PROVE  /\ todo' \in {todo, todo \ {x}} /\ expired' \in {expired, expired \ {x}}
         /\ reap' \in {reap, reap \ {x}}
         /\ die' = die \cup {x}
         /\ x \in die => UNCHANGED closeVars
  <1>1. CASE x \in die
    <2>1. UNCHANGED closeVars
      BY <1>1 DEF StartClose
    <2> QED BY <1>1, <2>1 DEF closeVars
  <1>2. CASE x \notin die
    BY <1>2 DEF StartClose
  <1> QED BY <1>1, <1>2

\* A step that moves one thread, which comes to hold nothing, and puts nothing
\* into a list.
LEMMA LeaseIdle ==
  ASSUME LeaseInv, NEW t \in Threads, Others(t),
         pc'[t] \notin {"open", "syn", "insert", "drop insert"},
         \A x \in Sessions : Live(x)' \subseteq Live(x),
         idle' \subseteq idle, expired' \subseteq expired, reap' \subseteq reap
  PROVE  LeaseInv'
  <1> SUFFICES ASSUME NEW x \in Sessions
               PROVE  OneLease(x)'
    BY DEF LeaseInv
  <1>1. Kept1(x)
    BY HoldsKept DEF Kept1
  <1>2. Kept2(x)
    BY DEF Kept2
  <1> QED BY <1>1, <1>2, LeaseKept DEF LeaseInv

\* A step of no thread, which makes the lists and the streams fewer.
LEMMA LeaseTask ==
  ASSUME LeaseInv, UNCHANGED callVars, \A x \in Sessions : Live(x)' \subseteq Live(x),
         idle' \subseteq idle, expired' \subseteq expired, reap' \subseteq reap
  PROVE  LeaseInv'
  <1> SUFFICES ASSUME NEW x \in Sessions
               PROVE  OneLease(x)'
    BY DEF LeaseInv
  <1>1. Kept1(x)
    BY HoldsSame DEF Kept1
  <1>2. Kept2(x)
    BY DEF Kept2
  <1> QED BY <1>1, <1>2, LeaseKept DEF LeaseInv

\* The caller takes the lease from the pool.
LEMMA LeaseGetIdle ==
  ASSUME TypeInv, LeaseInv, NEW c \in Callers, GetIdle(c)
  PROVE  LeaseInv'
  <1>1. /\ c \in Threads /\ Others(c) /\ UNCHANGED <<str, expired, reap>>
        /\ \/ pc'[c] = "dial" /\ idle' = idle
           \/ pc'[c] = "open" /\ sess'[c] \in idle /\ idle' = idle \ {sess'[c]}
    BY ThreadFacts, GetIdleMoves DEF GetIdle, streamVars, closeVars
  <1>2. \A x \in Sessions : Live(x)' = Live(x)
    BY <1>1, LiveSame
  <1>3. CASE pc'[c] = "dial" /\ idle' = idle
    BY <1>1, <1>2, <1>3, LeaseIdle
  <1>4. CASE pc'[c] = "open" /\ sess'[c] \in idle /\ idle' = idle \ {sess'[c]}
    <2> SUFFICES ASSUME NEW x \in Sessions
                 PROVE  OneLease(x)'
      BY DEF LeaseInv
    <2>1. OneLease(x)
      BY DEF LeaseInv
    <2>2. CASE x # sess'[c]
      <3>1. Kept1(x)
        BY <1>1, <1>2, <2>2, HoldsKept DEF Kept1
      <3>2. Kept2(x)
        BY <1>1, <1>4 DEF Kept2
      <3> QED BY <3>1, <3>2, <2>1, LeaseKept
    <2>3. CASE x = sess'[c]
      <3>1. x \in idle /\ x \notin idle'
        BY <1>4, <2>3
      <3>2. Live(x) = {} /\ (\A u \in Threads : ~Holds(u, x)) /\ x \notin expired \cup reap
        BY <3>1, <2>1 DEF OneLease
      <3>3. \A u \in Threads : Holds(u, x)' => u = c
        BY <1>1, <3>2, HoldsOthers
      <3>4. Live(x)' = {} /\ x \notin (idle \cup expired \cup reap)'
        BY <1>1, <1>2, <3>1, <3>2
      <3> QED BY <3>3, <3>4 DEF OneLease
    <2> QED BY <2>2, <2>3
  <1> QED BY <1>1, <1>3, <1>4

\* A new session has been nobody's.
LEMMA LeaseCreateSession ==
  ASSUME TypeInv, LeaseInv, NEW c \in Callers, CreateSession(c)
  PROVE  LeaseInv'
  <1>1. PICK z \in Sessions :
        /\ z = counter' /\ z = counter + 1 /\ counter \in Nat
        /\ pc'[c] = "open" /\ sess'[c] = z /\ pc'[Recv(z)] = "run"
        /\ \A u \in Threads \ {c, Recv(z)} : pc'[u] = pc[u] /\ sess'[u] = sess[u]
    BY CreateSessionMoves, ThreadFacts DEF TypeInv, ClientType
  <1>2. UNCHANGED <<str, idle, expired, reap>>
    BY DEF CreateSession, streamVars, closeVars
  <1>3. \A x \in Sessions : Live(x)' = Live(x)
    BY <1>2, LiveSame
  <1>4. \A u \in Threads \ {c, Recv(z)} : \A x \in Sessions : Holds(u, x)' <=> Holds(u, x)
    BY <1>1 DEF Holds
  <1>5. \A x \in Sessions : /\ ~Holds(Recv(z), x)'
                            /\ x # z => ~Holds(c, x)'
    BY <1>1 DEF Holds
  <1> SUFFICES ASSUME NEW x \in Sessions
               PROVE  OneLease(x)'
    BY DEF LeaseInv
  <1>6. OneLease(x)
    BY DEF LeaseInv
  <1>7. CASE x # z
    <2>1. Kept1(x)
      BY <1>3, <1>4, <1>5, <1>7 DEF Kept1
    <2>2. Kept2(x)
      BY <1>2 DEF Kept2
    <2> QED BY <2>1, <2>2, <1>6, LeaseKept
  <1>8. CASE x = z
    <2>1. ~(x <= counter)
      BY <1>1, <1>8
    <2>2. Live(x) = {}
      <3>1. \A n \in Sids : str[x][n] = "none"
        BY <2>1 DEF TypeInv, StreamType
      <3> QED BY <3>1 DEF Live
    <2>3. x \notin idle \cup expired \cup reap
      BY <2>1, <1>1 DEF TypeInv, ClientType, CloseType
    <2>4. \A u \in Threads : sess[u] # x
      BY <2>1, <1>1 DEF TypeInv, CallType
    <2>5. \A u \in Threads : Holds(u, x)' => u = c
      BY <1>4, <1>5, <2>4 DEF Holds
    <2>6. Live(x)' = {} /\ x \notin (idle \cup expired \cup reap)'
      BY <2>2, <2>3, <1>2, <1>3
    <2> QED BY <2>5, <2>6 DEF OneLease
  <1> QED BY <1>7, <1>8

\* The lease stays with the caller while it opens the stream.
LEMMA LeaseOpen ==
  ASSUME TypeInv, LeaseInv, NEW c \in Callers, Open(c)
  PROVE  LeaseInv'
  <1>1. /\ c \in Threads /\ Others(c) /\ pc[c] = "open" /\ sess'[c] = sess[c]
        /\ UNCHANGED <<str, idle, expired, reap>>
    BY ThreadFacts, OpenMoves DEF Open, streamVars, clientVars
  <1> SUFFICES ASSUME NEW x \in Sessions
               PROVE  OneLease(x)'
    BY DEF LeaseInv
  <1>2. sess'[c] # x \/ Holds(c, x)
    BY <1>1 DEF Holds
  <1>3. Live(x)' = Live(x)
    BY <1>1, LiveSame
  <1>4. Kept1(x)
    BY <1>1, <1>2, <1>3, HoldsKept DEF Kept1
  <1>5. Kept2(x)
    BY <1>1 DEF Kept2
  <1> QED BY <1>4, <1>5, LeaseKept DEF LeaseInv

\* The lease goes to the stream, or to nobody.
LEMMA LeaseSyn ==
  ASSUME TypeInv, LeaseInv, NEW c \in Callers, Syn(c)
  PROVE  LeaseInv'
  <1>0. PICK x \in Sessions, n \in Sids : x = sess[c] /\ n = sid[c]
    BY SynMoves
  <1>1. c \in Threads /\ Others(c) /\ pc[c] = "syn" /\ UNCHANGED idle
    BY ThreadFacts, SynMoves DEF clientVars
  <1>2. CASE pc'[c] = "fail" /\ UNCHANGED str /\ (UNCHANGED closeVars \/ StartClose(x, c))
    <2>1. expired' \subseteq expired /\ reap' \subseteq reap
      BY <1>2, StartCloseLists DEF closeVars
    <2> QED BY <1>1, <1>2, <2>1, LiveSame, LeaseIdle
  <1>3. CASE /\ pc'[c] = "sethook" /\ UNCHANGED closeVars
             /\ str' = [str EXCEPT ![x][n] = "made"]
    <2>1. UNCHANGED <<expired, reap>>
      BY <1>3 DEF closeVars
    <2>2. Holds(c, x)
      BY <1>0, <1>1 DEF Holds
    <2>3. /\ \A y \in Sessions : y # x => Live(y)' = Live(y)
          /\ Live(x)' = Live(x) \cup {n}
      BY <1>1, <1>3, LiveChange
    <2> SUFFICES ASSUME NEW y \in Sessions
                 PROVE  OneLease(y)'
      BY DEF LeaseInv
    <2>4. OneLease(y)
      BY DEF LeaseInv
    <2>5. CASE y # x
      <3>1. Kept1(y)
        BY <1>1, <1>3, <2>3, <2>5, HoldsKept DEF Kept1
      <3>2. Kept2(y)
        BY <1>1, <2>1 DEF Kept2
      <3> QED BY <3>1, <3>2, <2>4, LeaseKept
    <2>6. CASE y = x
      <3>1. /\ \A u \in Threads : Holds(u, x) => u = c
            /\ Live(x) = {} /\ x \notin idle \cup expired \cup reap
        BY <1>1, <2>2, <2>4, <2>6 DEF OneLease
      <3>2. \A u \in Threads : ~Holds(u, x)'
        BY <1>1, <1>3, <3>1, HoldsOthers
      <3>3. Live(x)' = {n} /\ x \notin (idle \cup expired \cup reap)'
        BY <1>1, <2>1, <2>3, <3>1
      <3> QED BY <2>6, <3>2, <3>3 DEF OneLease
    <2> QED BY <2>5, <2>6
  <1> QED BY <1>0, <1>2, <1>3, SynMoves

\* Its hook and the data on it leave a stream alive.
LEMMA LeaseUse ==
  ASSUME TypeInv, LeaseInv, NEW c \in Callers, SetHook(c) \/ Send(c)
  PROVE  LeaseInv'
  <1>0. PICK x \in Sessions, n \in Sids : x = sess[c] /\ n = sid[c]
    BY UseMoves
  <1>1. c \in Threads /\ Others(c) /\ pc'[c] = "use"
    BY ThreadFacts, UseMoves
  <1>2. UNCHANGED <<idle, expired, reap>>
    BY DEF SetHook, Send, clientVars, closeVars
  <1>3. \/ str[x][n] \in {"made", "live"} /\ \E s \in {"live", "used"} : str' = [str EXCEPT ![x][n] = s]
        \/ str[x][n] # "made" /\ str' = [str EXCEPT ![x][n] = str[x][n]]
    BY <1>0 DEF SetHook, Send
  <1>4. CASE str[x][n] # "made" /\ str' = [str EXCEPT ![x][n] = str[x][n]]
    <2>1. \A y \in Sessions, m \in Sids : str'[y][m] = str[y][m]
      BY <1>1, <1>4 DEF TypeInv, StreamType
    <2>2. \A y \in Sessions : Live(y)' = Live(y)
      BY <2>1 DEF Live
    <2> QED BY <1>1, <1>2, <2>2, LeaseIdle
  <1>5. ASSUME NEW s \in {"live", "used"}, str[x][n] \in {"made", "live"},
               str' = [str EXCEPT ![x][n] = s]
        PROVE  LeaseInv'
    <2>1. n \in Live(x)
      BY <1>1, <1>5 DEF Live
    <2>2. Live(x)' = Live(x) \cup {n} /\ \A y \in Sessions : y # x => Live(y)' = Live(y)
      BY <1>1, <1>5, LiveChange
    <2>3. \A y \in Sessions : Live(y)' \subseteq Live(y)
      BY <2>1, <2>2
    <2> QED BY <1>1, <1>2, <2>3, LeaseIdle
  <1> QED BY <1>3, <1>4, <1>5

\* The stream's lease goes to the thread that closed it, to the goroutine of
\* its hook, or to nobody.
LEMMA LeaseStreamClose ==
  ASSUME TypeInv, LeaseInv, NEW t \in Threads, StreamClose(t)
  PROVE  LeaseInv'
  <1>0. PICK x \in Sessions, n \in Sids : x = sess[t] /\ n = sid[t]
    BY StreamCloseMoves
  <1>1. /\ Others(t) /\ pc[t] \in {"use", "kill", "drop"} /\ str[x][n] # "none"
        /\ UNCHANGED <<idle, expired>>
    BY <1>0, StreamCloseMoves DEF StreamClose, clientVars
  <1>2. CASE pc'[t] \in {"idle", "run"} /\ UNCHANGED <<str, reap>>
    BY <1>1, <1>2, LiveSame, LeaseIdle
  <1>3. CASE /\ str[x][n] # "dead" /\ str' = [str EXCEPT ![x][n] = "dead"]
             /\ \/ /\ pc'[t] \in {"fin", "idle", "run"}
                   /\ reap' = reap \/ reap' = reap \cup {x}
                \/ /\ pc'[t] \in {"insert", "drop insert"} /\ sess'[t] = x /\ reap' = reap
    <2>1. n \in Live(x)
      <3>1. str[x][n] \in {"none", "made", "live", "used", "dead"}
        BY DEF TypeInv, StreamType
      <3> QED BY <3>1, <1>1, <1>3 DEF Live
    <2>2. /\ \A y \in Sessions : y # x => Live(y)' = Live(y)
          /\ Live(x)' = Live(x) \ {n}
      BY <1>3, LiveChange
    <2> SUFFICES ASSUME NEW y \in Sessions
                 PROVE  OneLease(y)'
      BY DEF LeaseInv
    <2>3. OneLease(y)
      BY DEF LeaseInv
    <2>4. CASE y # x
      <3>1. pc'[t] \notin {"open", "syn", "insert", "drop insert"} \/ sess'[t] # y
        BY <1>3, <2>4
      <3>2. Kept1(y)
        BY <1>1, <2>2, <2>4, <3>1, HoldsKept DEF Kept1
      <3>3. Kept2(y)
        BY <1>1, <1>3, <2>4 DEF Kept2
      <3> QED BY <2>3, <3>2, <3>3, LeaseKept
    <2>5. CASE y = x
      <3>1. /\ Live(x) = {n} /\ x \notin idle \cup expired \cup reap
            /\ \A u \in Threads : ~Holds(u, x)
        BY <2>1, <2>3, <2>5 DEF OneLease
      <3>2. Live(x)' = {} /\ x \notin idle' /\ x \notin expired'
        BY <1>1, <2>2, <3>1
      <3>3. \A u \in Threads : Holds(u, x)' => u = t
        BY <1>1, <3>1, HoldsOthers
      <3>4. CASE pc'[t] \in {"fin", "idle", "run"}
        <4>1. \A u \in Threads : ~Holds(u, x)'
          BY <1>1, <3>3, <3>4, HoldsOthers
        <4> QED BY <2>5, <3>2, <4>1 DEF OneLease
      <3>5. CASE reap' = reap
        BY <2>5, <3>1, <3>2, <3>3, <3>5 DEF OneLease
      <3> QED BY <1>3, <3>4, <3>5
    <2> QED BY <2>4, <2>5
  <1> QED BY <1>0, <1>2, <1>3, StreamCloseMoves

\* The pool has the lease.
LEMMA LeaseHookInsert ==
  ASSUME TypeInv, LeaseInv, NEW t \in Threads, HookInsert(t)
  PROVE  LeaseInv'
  <1>0. PICK x \in Sessions : x = sess[t]
    BY HookInsertMoves
  <1>1. /\ Others(t) /\ pc[t] \in {"insert", "drop insert"} /\ pc'[t] \in {"fin", "idle", "run"}
    BY HookInsertMoves
  <1>2. idle' = idle \cup {x} /\ UNCHANGED <<str, expired, reap>>
    BY <1>0 DEF HookInsert, streamVars, closeVars
  <1>3. Holds(t, x)
    BY <1>0, <1>1 DEF Holds
  <1> SUFFICES ASSUME NEW y \in Sessions
               PROVE  OneLease(y)'
    BY DEF LeaseInv
  <1>4. OneLease(y) /\ Live(y)' = Live(y)
    BY <1>2, LiveSame DEF LeaseInv
  <1>5. \A u \in Threads : Holds(u, y)' => Holds(u, y) /\ u # t
    BY <1>1, HoldsOthers
  <1>6. CASE y # x
    <2>1. Kept1(y)
      BY <1>4, <1>5 DEF Kept1
    <2>2. Kept2(y)
      BY <1>2, <1>6 DEF Kept2
    <2> QED BY <1>4, <2>1, <2>2, LeaseKept
  <1>7. CASE y = x
    <2>1. /\ \A u \in Threads : Holds(u, x) => u = t
          /\ Live(x) = {} /\ x \notin expired \cup reap
      BY <1>3, <1>4, <1>7 DEF OneLease
    <2>2. \A u \in Threads : ~Holds(u, x)'
      BY <1>5, <1>7, <2>1
    <2>3. Live(x)' = {} /\ x \notin (expired \cup reap)'
      BY <1>2, <1>4, <1>7, <2>1
    <2> QED BY <1>7, <2>2, <2>3 DEF OneLease
  <1> QED BY <1>6, <1>7

\* What the cleanup takes from the pool it has to close.
LEMMA LeaseCleanup ==
  ASSUME LeaseInv, NEW S \in SUBSET idle, Cleanup(S)
  PROVE  LeaseInv'
  <1>1. PICK out \in SUBSET idle :
          idle' = idle \ out /\ expired' = out \ die /\ UNCHANGED <<str, reap, callVars>>
    BY DEF Cleanup, streamVars
  <1> SUFFICES ASSUME NEW x \in Sessions
               PROVE  OneLease(x)'
    BY DEF LeaseInv
  <1>2. OneLease(x) /\ Live(x)' = Live(x) /\ \A u \in Threads : Holds(u, x)' <=> Holds(u, x)
    BY <1>1, LiveSame, HoldsSame DEF LeaseInv
  <1>3. CASE x \notin expired'
    <2>1. Kept1(x) /\ Kept2(x)
      BY <1>1, <1>2, <1>3 DEF Kept1, Kept2
    <2> QED BY <1>2, <2>1, LeaseKept
  <1>4. CASE x \in expired'
    <2>1. x \in idle /\ x \notin idle'
      BY <1>1, <1>4
    <2>2. Live(x) = {} /\ (\A u \in Threads : ~Holds(u, x)) /\ x \notin reap
      BY <1>2, <2>1 DEF OneLease
    <2>3. Live(x)' = {} /\ (\A u \in Threads : ~Holds(u, x)') /\ x \notin reap'
      BY <1>1, <1>2, <2>2
    <2> QED BY <2>1, <2>3 DEF OneLease
  <1> QED BY <1>3, <1>4

\* No step gives a session a second lease.
LEMMA LeaseStep ==
  ASSUME TypeInv, LeaseInv, [Next]_vars
  PROVE  LeaseInv'
  <1>1. ASSUME NEW c \in Callers, CreateStream(c) \/ Send(c)
        PROVE  LeaseInv'
    <2>1. CASE Create(c) \/ DialFail(c)
      <3>1. c \in Threads /\ Others(c) /\ pc'[c] \in {"idle", "get"}
        BY <2>1, ThreadFacts, CreateMoves
      <3>2. UNCHANGED <<str, idle, expired, reap>>
        BY <2>1 DEF Create, DialFail, clientVars, closeVars, streamVars
      <3> QED BY <3>1, <3>2, LiveSame, LeaseIdle
    <2>2. CASE CreateFail(c)
      <3>1. c \in Threads /\ Others(c) /\ pc'[c] = "idle" /\ StartClose(sess[c], c)
        BY <2>2, ThreadFacts, CreateFailMoves
      <3>2. UNCHANGED <<str, idle>> /\ expired' \subseteq expired /\ reap' \subseteq reap
        BY <2>2, <3>1, StartCloseLists DEF CreateFail, clientVars, streamVars
      <3> QED BY <3>1, <3>2, LiveSame, LeaseIdle
    <2> QED BY <1>1, <2>1, <2>2, LeaseGetIdle, LeaseCreateSession, LeaseOpen, LeaseSyn, LeaseUse
            DEF CreateStream
  <1>2. ASSUME NEW t \in Threads, StreamEnd(t)
        PROVE  LeaseInv'
    <2>1. CASE StreamFin(t)
      <3>1. /\ Others(t) /\ pc'[t] \in {"idle", "run"}
            /\ StartClose(sess[t], t) \/ UNCHANGED closeVars
            /\ UNCHANGED <<clientVars, str>>
        BY <2>1, StreamFinMoves
      <3>2. UNCHANGED <<str, idle>> /\ expired' \subseteq expired /\ reap' \subseteq reap
        BY <3>1, StartCloseLists DEF clientVars, closeVars
      <3> QED BY <3>1, <3>2, LiveSame, LeaseIdle
    <2> QED BY <1>2, <2>1, LeaseStreamClose, LeaseHookInsert DEF StreamEnd
  <1>3. ASSUME NEW x \in Sessions, RecvLoop(x)
        PROVE  LeaseInv'
    <2>1. Recv(x) \in Threads /\ Others(Recv(x)) /\ pc'[Recv(x)] \in {"run", "kill", "drop"}
      BY <1>3, RecvMoves
    <2>2. /\ UNCHANGED <<str, idle>>
          /\ StartClose(x, Recv(x)) \/ UNCHANGED <<expired, reap>>
      BY <1>3 DEF RecvLoop, RecvSettings, RecvSynAck, RecvSynErr, RecvFin, RecvEnd, Acked,
                  clientVars, closeVars, streamVars
    <2>3. expired' \subseteq expired /\ reap' \subseteq reap
      BY <2>2, StartCloseLists
    <2> QED BY <2>1, <2>2, <2>3, LiveSame, LeaseIdle
  <1>4. ASSUME NEW x \in Sessions, SessionClose(x)
        PROVE  LeaseInv'
    <2>1. UNCHANGED <<callVars, expired, reap>> /\ idle' \subseteq idle
      BY <1>4 DEF SessionClose, CloseHook, CloseSweep, clientVars
    <2>2. CASE UNCHANGED str
      BY <2>1, <2>2, LiveSame, LeaseTask
    <2>3. CASE CloseSweep(x)
      <3>1. str' = [str EXCEPT ![x] = [n \in Sids |-> IF n \in streams[x] THEN "dead" ELSE str[x][n]]]
        BY <2>3 DEF CloseSweep, TypeInv, StreamType
      <3>2. \A y \in Sessions, m \in Sids : str'[y][m] \in {"dead", str[y][m]}
        BY <3>1 DEF TypeInv, StreamType
      <3>3. \A y \in Sessions : Live(y)' \subseteq Live(y)
        BY <3>2 DEF Live
      <3> QED BY <2>1, <3>3, LeaseTask
    <2> QED BY <1>4, <2>2, <2>3 DEF SessionClose, CloseHook, streamVars
  <1>5. ASSUME NEW x \in Sessions,
               Reap(x) \/ \E n \in Sids : WatchdogFire(x, n) \/ WatchdogClose(x, n)
        PROVE  LeaseInv'
    <2>1. /\ UNCHANGED <<callVars, idle, str>>
          /\ StartClose(x, Other) \/ UNCHANGED <<expired, reap>>
      BY <1>5 DEF Reap, WatchdogFire, WatchdogClose, clientVars, streamVars
    <2>2. expired' \subseteq expired /\ reap' \subseteq reap
      BY <2>1, StartCloseLists
    <2> QED BY <2>1, <2>2, LiveSame, LeaseTask
  <1>6. ASSUME Tasks
        PROVE  LeaseInv'
    <2>1. CASE ContextDone \/ ClientSnapshot \/ ClientCloseNext \/ CleanupClose
      <3>1. UNCHANGED <<callVars, idle, str>>
        BY <2>1 DEF ContextDone, ClientSnapshot, ClientCloseNext, CleanupClose, clientVars, streamVars
      <3>2. UNCHANGED <<expired, reap>> \/ \E x, t : StartClose(x, t)
        BY <2>1 DEF ContextDone, ClientSnapshot, ClientCloseNext, CleanupClose, closeVars
      <3>3. expired' \subseteq expired /\ reap' \subseteq reap
        BY <3>2, StartCloseLists
      <3> QED BY <3>1, <3>3, LiveSame, LeaseTask
    <2> QED BY <1>6, <2>1, LeaseCleanup DEF Tasks
  <1>7. CASE UNCHANGED vars
    <2>1. UNCHANGED <<callVars, idle, expired, reap, str>>
      BY <1>7 DEF vars, clientVars, closeVars, streamVars
    <2> QED BY <2>1, LiveSame, LeaseTask
  <1> QED BY <1>1, <1>2, <1>3, <1>4, <1>5, <1>6, <1>7 DEF Next

-----------------------------------------------------------------------------
(* One armed watchdog for a session.                                       *)

\* Nothing happens on session x that an armed watchdog has to fear.
WatchQuiet(x) ==
  /\ \A n \in Sids : wd'[x][n] = "armed" => wd[x][n] = "armed"
  /\ synDone'[x] = synDone[x]

StreamsQuiet(x) ==
  /\ lastSid'[x] = lastSid[x]
  /\ x \in v2 => x \in v2'
  /\ \A n \in Sids : str'[x][n] = "used" /\ n \in streams'[x] /\ n \notin owed'[x] =>
                     str[x][n] = "used" /\ n \in streams[x] /\ n \notin owed[x]

\* An armed watchdog stays the newest stream's where nothing about it changes.
LEMMA WatchKept ==
  ASSUME NEW x \in Sessions, OneArmed(x),
         \/ \A n \in Sids : wd'[x][n] # "armed"
         \/ WatchQuiet(x) /\ StreamsQuiet(x)
  PROVE  OneArmed(x)'
  <1>1. CASE \A n \in Sids : wd'[x][n] # "armed"
    BY <1>1 DEF OneArmed
  <1>2. CASE WatchQuiet(x) /\ StreamsQuiet(x)
    <2> SUFFICES ASSUME NEW n \in Sids, wd'[x][n] = "armed"
                 PROVE  /\ n = synDone'[x] /\ n = lastSid'[x] /\ x \in v2'
                        /\ str'[x][n] = "used" /\ n \in streams'[x] => n \in owed'[x]
      BY DEF OneArmed
    <2>1. /\ n = synDone[x] /\ n = lastSid[x] /\ x \in v2
          /\ str[x][n] = "used" /\ n \in streams[x] => n \in owed[x]
      BY <1>2 DEF OneArmed, WatchQuiet
    <2> QED BY <1>2, <2>1 DEF WatchQuiet, StreamsQuiet
  <1> QED BY <1>1, <1>2

\* A session that is closed has no watchdog any more; the others keep theirs.
LEMMA StartCloseWatch ==
  ASSUME TypeInv, NEW x \in Sessions, NEW t, StartClose(x, t)
  PROVE  \A y \in Sessions : (\A n \in Sids : wd'[y][n] # "armed") \/ WatchQuiet(y)
  <1>1. CASE x \in die
    BY <1>1 DEF StartClose, closeVars, WatchQuiet
  <1>2. CASE x \notin die
    <2>1. /\ synDone' = [synDone EXCEPT ![x] = 0]
          /\ wd' = [wd EXCEPT ![x] = [n \in Sids |-> "off"]]
      BY <1>2 DEF StartClose
    <2> QED BY <2>1 DEF TypeInv, WatchType, WatchQuiet
  <1> QED BY <1>1, <1>2

\* A step that closes a session or leaves the watchdogs alone.
LEMMA WatchClosing ==
  ASSUME TypeInv, WatchInv, \A y \in Sessions : StreamsQuiet(y),
         \/ UNCHANGED <<wd, synDone>>
         \/ \E x \in Sessions, t \in Threads \cup {Closer, Cleaner, Other} : StartClose(x, t)
  PROVE  WatchInv'
  <1> SUFFICES ASSUME NEW y \in Sessions
               PROVE  OneArmed(y)'
    BY DEF WatchInv
  <1>1. (\A n \in Sids : wd'[y][n] # "armed") \/ WatchQuiet(y)
    BY StartCloseWatch DEF WatchQuiet
  <1> QED BY <1>1, WatchKept DEF WatchInv

\* A step that leaves the streams alone too.
LEMMA WatchTask ==
  ASSUME TypeInv, WatchInv, UNCHANGED <<lastSid, v2, streamVars>>,
         \/ UNCHANGED <<wd, synDone>>
         \/ \E x \in Sessions, t \in Threads \cup {Closer, Cleaner, Other} : StartClose(x, t)
  PROVE  WatchInv'
  <1>1. \A y \in Sessions : StreamsQuiet(y)
    BY DEF StreamsQuiet, streamVars
  <1> QED BY <1>1, WatchClosing

\* The watchdog of a new stream takes the place of the one before.
LEMMA WatchOpen ==
  ASSUME TypeInv, WatchInv, NEW c \in Callers, Open(c)
  PROVE  WatchInv'
  <1>0. PICK x \in Sessions : x = sess[c]
    BY OpenMoves
  <1>1. UNCHANGED <<v2, streams, str, owed>>
    BY DEF Open, streamVars
  <1>2. CASE x \in die
    <2>1. UNCHANGED <<lastSid, wd, synDone>>
      BY <1>0, <1>2 DEF Open
    <2> QED BY <1>1, <2>1, WatchTask DEF streamVars
  <1>3. CASE x \notin die
    <2>1. PICK n \in Sids : /\ n = lastSid[x] + 1 /\ lastSid' = [lastSid EXCEPT ![x] = n]
                            /\ Watch(x, n)
      BY <1>0, <1>3, OpenMoves
    <2>2. n \notin streams[x] /\ lastSid[x] \in Nat /\ lastSid'[x] = n
      <3>1. lastSid[x] \in Nat
        BY ThreadFacts DEF TypeInv, StreamType
      <3>2. \A m \in streams[x] : m <= lastSid[x]
        BY DEF TypeInv, StreamType
      <3>3. lastSid'[x] = n
        BY <2>1 DEF TypeInv, StreamType
      <3> QED BY <2>1, <3>1, <3>2, <3>3
    <2>3. ASSUME NEW m \in Sids, wd[x][m] = "armed"
          PROVE  m = synDone[x] /\ m = lastSid[x] /\ x \in v2
      BY <2>3 DEF WatchInv, OneArmed
    <2> SUFFICES ASSUME NEW y \in Sessions
                 PROVE  OneArmed(y)'
      BY DEF WatchInv
    <2>4. CASE y # x
      <3>1. wd'[y] = wd[y] /\ synDone'[y] = synDone[y]
        BY <2>1, <2>4 DEF Watch, TypeInv, WatchType
      <3>2. lastSid'[y] = lastSid[y]
        BY <2>1, <2>4 DEF TypeInv, StreamType
      <3>3. WatchQuiet(y) /\ StreamsQuiet(y)
        BY <1>1, <3>1, <3>2 DEF WatchQuiet, StreamsQuiet
      <3> QED BY <3>3, WatchKept DEF WatchInv
    <2>5. CASE y = x
      <3>1. CASE n >= 2 /\ x \in v2
        <4>1. /\ wd' = [wd EXCEPT ![x] = [Stopped(x) EXCEPT ![n] = "armed"]]
              /\ synDone' = [synDone EXCEPT ![x] = n]
          BY <2>1, <3>1 DEF Watch
        <4>2. synDone'[x] = n
          BY <4>1 DEF TypeInv, WatchType
        <4>3. wd'[x] = [Stopped(x) EXCEPT ![n] = "armed"]
          BY <4>1 DEF TypeInv, WatchType
        <4>4. ASSUME NEW m \in Sids, wd'[x][m] = "armed", m # n
              PROVE  FALSE
          <5>1. Stopped(x)[m] = "armed"
            BY <4>3, <4>4 DEF Stopped
          <5>2. wd[x][m] = "armed" /\ m # synDone[x]
            BY <5>1, WatchTypes DEF TypeInv
          <5> QED BY <5>2, <2>3
        <4>5. ASSUME NEW m \in Sids, wd'[x][m] = "armed"
              PROVE  /\ m = synDone'[x] /\ m = lastSid'[x] /\ x \in v2'
                     /\ str'[x][m] = "used" /\ m \in streams'[x] => m \in owed'[x]
          BY <4>2, <4>4, <4>5, <1>1, <2>2, <3>1
        <4> QED BY <2>5, <4>5 DEF OneArmed
      <3>2. CASE ~(n >= 2 /\ x \in v2)
        <4>1. wd' = wd
          BY <2>1, <3>2 DEF Watch
        <4>2. ASSUME NEW m \in Sids, wd[x][m] = "armed"
              PROVE  FALSE
          BY <2>1, <2>2, <2>3, <3>2, <4>2 DEF Sids
        <4> QED BY <2>5, <4>1, <4>2, WatchKept DEF WatchInv
      <3> QED BY <3>1, <3>2
    <2> QED BY <2>4, <2>5
  <1> QED BY <1>2, <1>3

\* A stream comes into use with a SYNACK owed; it leaves the map or its use
\* before that is no longer so.
LEMMA WatchStream ==
  ASSUME TypeInv, WatchInv, NEW x \in Sessions, NEW n \in Sids, NEW s,
         str' = [str EXCEPT ![x][n] = s],
         \/ s # "used" /\ UNCHANGED owed
         \/ s = str[x][n] /\ UNCHANGED owed
         \/ owed' = [owed EXCEPT ![x] = @ \cup {n}],
         \/ UNCHANGED streams
         \/ streams' = [streams EXCEPT ![x] = @ \cup {n}] /\ s # "used",
         UNCHANGED <<lastSid, v2, wd, synDone>>
  PROVE  WatchInv'
  <1>1. \A y \in Sessions, m \in Sids : str'[y][m] = IF y = x /\ m = n THEN s ELSE str[y][m]
    BY DEF TypeInv, StreamType
  <1>2. \A y \in Sessions, m \in Sids : y # x \/ m # n =>
          /\ m \in streams'[y] <=> m \in streams[y]
          /\ m \in owed'[y] <=> m \in owed[y]
    BY DEF TypeInv, StreamType
  <1>3. \/ s # "used" /\ UNCHANGED owed
        \/ s = str[x][n] /\ UNCHANGED <<owed, streams>>
        \/ n \in owed'[x]
    BY DEF TypeInv, StreamType
  <1>4. ASSUME NEW y \in Sessions
        PROVE  StreamsQuiet(y)
    BY <1>1, <1>2, <1>3 DEF StreamsQuiet
  <1> QED BY <1>4, WatchClosing

\* A SYNACK stops the watchdog there is.
LEMMA WatchAcked ==
  ASSUME TypeInv, WatchInv, NEW x \in Sessions, NEW n \in Sids, Acked(x, n),
         UNCHANGED <<lastSid, v2, streams, str>>
  PROVE  WatchInv'
  <1>1. /\ wd' = [wd EXCEPT ![x] = Stopped(x)] /\ synDone' = [synDone EXCEPT ![x] = 0]
        /\ owed' = [owed EXCEPT ![x] = @ \ {n}]
    BY DEF Acked
  <1> SUFFICES ASSUME NEW y \in Sessions
               PROVE  OneArmed(y)'
    BY DEF WatchInv
  <1>2. CASE y = x
    <2>1. wd'[x] = Stopped(x)
      BY <1>1 DEF TypeInv, WatchType
    <2>2. ASSUME NEW m \in Sids, wd'[x][m] = "armed"
          PROVE  FALSE
      <3>1. wd[x][m] = "armed" /\ m # synDone[x]
        BY <2>1, <2>2, WatchTypes DEF TypeInv
      <3> QED BY <3>1 DEF WatchInv, OneArmed
    <2> QED BY <1>2, <2>2 DEF OneArmed
  <1>3. CASE y # x
    <2>1. wd'[y] = wd[y] /\ synDone'[y] = synDone[y] /\ owed'[y] = owed[y]
      BY <1>1, <1>3 DEF TypeInv, WatchType, StreamType
    <2>2. WatchQuiet(y) /\ StreamsQuiet(y)
      BY <2>1 DEF WatchQuiet, StreamsQuiet
    <2> QED BY <2>2, WatchKept DEF WatchInv
  <1> QED BY <1>2, <1>3

\* No step leaves a watchdog armed that is not the newest stream's.
LEMMA WatchStep ==
  ASSUME TypeInv, WatchInv, [Next]_vars
  PROVE  WatchInv'
  <1>1. ASSUME NEW c \in Callers, CreateStream(c) \/ Send(c)
        PROVE  WatchInv'
    <2>0. c \in Threads \cup {Closer, Cleaner, Other}
      BY ThreadFacts
    <2>1. CASE Create(c) \/ GetIdle(c) \/ DialFail(c) \/ CreateSession(c)
      BY <2>1, WatchTask DEF Create, GetIdle, DialFail, CreateSession, closeVars, sessVars
    <2>2. CASE CreateFail(c)
      <3>1. sess[c] \in Sessions /\ StartClose(sess[c], c) /\ UNCHANGED <<lastSid, v2, streamVars>>
        BY <2>2, CreateFailMoves DEF sessVars
      <3> QED BY <2>0, <3>1, WatchTask
    <2>3. CASE Syn(c)
      <3>0. PICK x \in Sessions, n \in Sids : x = sess[c] /\ n = sid[c]
        BY <2>3, SynMoves
      <3>1. /\ \/ /\ UNCHANGED <<streams, str>>
                  /\ UNCHANGED closeVars \/ StartClose(x, c)
               \/ /\ UNCHANGED closeVars
                  /\ streams' = [streams EXCEPT ![x] = @ \cup {n}]
                  /\ str' = [str EXCEPT ![x][n] = "made"]
            /\ UNCHANGED <<v2, lastSid, owed>>
        BY <2>3, <3>0, SynMoves
      <3>2. CASE UNCHANGED <<streams, str>> /\ (UNCHANGED closeVars \/ StartClose(x, c))
        <4>1. UNCHANGED <<wd, synDone>> \/ StartClose(x, c)
          BY <3>2 DEF closeVars
        <4> QED BY <2>0, <3>1, <3>2, <4>1, WatchTask DEF streamVars
      <3>3. CASE /\ UNCHANGED closeVars /\ streams' = [streams EXCEPT ![x] = @ \cup {n}]
                 /\ str' = [str EXCEPT ![x][n] = "made"]
        BY <3>1, <3>3, WatchStream DEF closeVars
      <3> QED BY <3>1, <3>2, <3>3
    <2>4. CASE SetHook(c)
      <3>0. PICK x \in Sessions, n \in Sids : x = sess[c] /\ n = sid[c]
        BY <2>4, UseMoves
      <3>1. /\ \E s \in {"live", str[x][n]} : str' = [str EXCEPT ![x][n] = s]
            /\ UNCHANGED <<lastSid, v2, wd, synDone, streams, owed>>
        BY <2>4, <3>0 DEF SetHook, closeVars, sessVars
      <3> QED BY <3>1, WatchStream
    <2>5. CASE Send(c)
      <3>0. PICK x \in Sessions, n \in Sids : x = sess[c] /\ n = sid[c]
        BY <2>5, UseMoves
      <3>1. /\ str' = [str EXCEPT ![x][n] = "used"] /\ owed' = [owed EXCEPT ![x] = @ \cup {n}]
            /\ UNCHANGED <<lastSid, v2, wd, synDone, streams>>
        BY <2>5, <3>0 DEF Send, closeVars
      <3> QED BY <3>1, WatchStream
    <2> QED BY <1>1, <2>1, <2>2, <2>3, <2>4, <2>5, WatchOpen DEF CreateStream
  <1>2. ASSUME NEW t \in Threads, StreamEnd(t)
        PROVE  WatchInv'
    <2>1. CASE StreamClose(t)
      <3>0. PICK x \in Sessions, n \in Sids : x = sess[t] /\ n = sid[t]
        BY <2>1, StreamCloseMoves
      <3>1. UNCHANGED <<lastSid, v2, wd, synDone, streams, owed>>
        BY <2>1 DEF StreamClose, sessVars
      <3>2. UNCHANGED str \/ str' = [str EXCEPT ![x][n] = "dead"]
        BY <2>1, <3>0, StreamCloseMoves
      <3> QED BY <3>1, <3>2, WatchTask, WatchStream DEF streamVars
    <2>2. CASE HookInsert(t)
      BY <2>2, WatchTask DEF HookInsert, closeVars, sessVars
    <2>3. CASE StreamFin(t)
      <3>0. PICK x \in Sessions : x = sess[t]
        BY <2>3, StreamFinMoves
      <3>1. /\ StartClose(x, t) \/ UNCHANGED closeVars
            /\ streams' = streams \/ streams' = [streams EXCEPT ![x] = @ \ {sid[t]}]
            /\ UNCHANGED <<v2, lastSid, str, owed>>
        BY <2>3, <3>0, StreamFinMoves
      <3>2. \A y \in Sessions : streams'[y] \subseteq streams[y]
        BY <3>1 DEF TypeInv, StreamType
      <3>3. \A y \in Sessions : StreamsQuiet(y)
        BY <3>1, <3>2 DEF StreamsQuiet
      <3>4. UNCHANGED <<wd, synDone>> \/ StartClose(x, t)
        BY <3>1 DEF closeVars
      <3> QED BY <3>3, <3>4, WatchClosing
    <2> QED BY <1>2, <2>1, <2>2, <2>3 DEF StreamEnd
  <1>3. ASSUME NEW x \in Sessions, RecvLoop(x)
        PROVE  WatchInv'
    <2>1. CASE RecvSettings(x)
      <3>1. /\ v2' = v2 \cup {x} /\ UNCHANGED <<lastSid, streams, str, owed, wd, synDone>>
        BY <2>1 DEF RecvSettings, closeVars, streamVars
      <3>2. \A y \in Sessions : StreamsQuiet(y)
        BY <3>1 DEF StreamsQuiet
      <3> QED BY <3>1, <3>2, WatchClosing
    <2>2. CASE RecvEnd(x)
      <3>1. Recv(x) \in Threads
        BY ThreadFacts
      <3> QED BY <2>2, <3>1, WatchTask DEF RecvEnd, sessVars
    <2>3. ASSUME NEW n \in Sids, RecvSynAck(x, n) \/ RecvSynErr(x, n)
          PROVE  WatchInv'
      BY <2>3, WatchAcked DEF RecvSynAck, RecvSynErr, sessVars
    <2>4. ASSUME NEW n \in Sids, RecvFin(x, n)
          PROVE  WatchInv'
      <3>1. /\ streams' = [streams EXCEPT ![x] = @ \ {n}] /\ owed' = [owed EXCEPT ![x] = @ \ {n}]
            /\ UNCHANGED <<lastSid, v2, str, wd, synDone>>
        BY <2>4 DEF RecvFin, closeVars, sessVars
      <3>2. \A y \in Sessions, m \in Sids :
              m \in streams'[y] => /\ m \in streams[y]
                                   /\ m \in owed[y] => m \in owed'[y]
        BY <3>1 DEF TypeInv, StreamType
      <3>3. \A y \in Sessions : StreamsQuiet(y)
        BY <3>1, <3>2 DEF StreamsQuiet
      <3> QED BY <3>1, <3>3, WatchClosing
    <2> QED BY <1>3, <2>1, <2>2, <2>3, <2>4 DEF RecvLoop
  <1>4. ASSUME NEW x \in Sessions, SessionClose(x)
        PROVE  WatchInv'
    <2>1. CASE CloseHook(x)
      BY <2>1, WatchTask DEF CloseHook, sessVars
    <2>2. CASE CloseSweep(x)
      <3>1. /\ str' = [str EXCEPT ![x] = [n \in Sids |-> IF n \in streams[x] THEN "dead" ELSE str[x][n]]]
            /\ streams' = [streams EXCEPT ![x] = {}] /\ owed' = [owed EXCEPT ![x] = {}]
            /\ UNCHANGED <<lastSid, v2, wd, synDone>>
        BY <2>2 DEF CloseSweep, sessVars, TypeInv, StreamType
      <3>2. \A y \in Sessions : streams'[y] = {} \/ (str'[y] = str[y] /\ streams'[y] = streams[y] /\ owed'[y] = owed[y])
        BY <3>1 DEF TypeInv, StreamType
      <3>3. \A y \in Sessions : StreamsQuiet(y)
        BY <3>1, <3>2 DEF StreamsQuiet
      <3> QED BY <3>1, <3>3, WatchClosing
    <2> QED BY <1>4, <2>1, <2>2 DEF SessionClose
  <1>5. ASSUME NEW x \in Sessions,
               Reap(x) \/ \E n \in Sids : WatchdogFire(x, n) \/ WatchdogClose(x, n)
        PROVE  WatchInv'
    <2>1. CASE Reap(x) \/ \E n \in Sids : WatchdogClose(x, n)
      BY <2>1, WatchTask DEF Reap, WatchdogClose, sessVars
    <2>2. ASSUME NEW n \in Sids, WatchdogFire(x, n)
          PROVE  WatchInv'
      <3>1. /\ wd' = [wd EXCEPT ![x][n] = "fired"]
            /\ UNCHANGED <<synDone, lastSid, v2, streams, str, owed>>
        BY <2>2 DEF WatchdogFire, sessVars, streamVars
      <3>2. \A y \in Sessions : WatchQuiet(y) /\ StreamsQuiet(y)
        BY <3>1 DEF WatchQuiet, StreamsQuiet, TypeInv, WatchType
      <3>3. \A y \in Sessions : OneArmed(y)'
        BY <3>2, WatchKept DEF WatchInv
      <3> QED BY <3>3 DEF WatchInv
    <2> QED BY <1>5, <2>1, <2>2
  <1>6. ASSUME Tasks
        PROVE  WatchInv'
    <2>1. UNCHANGED <<lastSid, v2, streamVars>>
      BY <1>6 DEF Tasks, ContextDone, ClientSnapshot, ClientCloseNext, CleanupClose, Cleanup, sessVars
    <2>2. CASE UNCHANGED <<wd, synDone>>
      BY <2>1, <2>2, WatchTask
    <2>3. CASE ClientCloseNext
      <3>1. \E x \in Sessions : StartClose(x, Closer)
        BY <2>3, TypeInvTypeOK DEF ClientCloseNext, TypeOK
      <3> QED BY <2>1, <3>1, WatchTask
    <2>4. CASE CleanupClose
      <3>1. StartClose(Newest(expired), Cleaner) /\ expired # {} /\ expired \subseteq Sessions
        BY <2>4, TypeInvTypeOK DEF CleanupClose, TypeOK
      <3>2. Newest(expired) \in Sessions
        BY <3>1, NewestIn
      <3> QED BY <2>1, <3>1, <3>2, WatchTask
    <2> QED BY <1>6, <2>2, <2>3, <2>4 DEF Tasks, ContextDone, ClientSnapshot, Cleanup, closeVars
  <1>7. CASE UNCHANGED vars
    BY <1>7, WatchTask DEF vars, closeVars, sessVars
  <1> QED BY <1>1, <1>2, <1>3, <1>4, <1>5, <1>6, <1>7 DEF Next

-----------------------------------------------------------------------------
(* No session is lost.                                                     *)

\* Somebody is with the session, and Client.Close finds it.
Reached(x) ==
  /\ \/ Opening(x) \/ Live(x) # {} \/ Ending(x)
     \/ x \in idle /\ ~taken
     \/ x \in todo \cup expired \cup reap
  /\ taken => (x \in idle \/ Ending(x) => x \in todo)

ReachMap ==
  /\ taken => cdie
  /\ ~taken => 1..counter \ die \subseteq sessions

ReachSessions == \A x \in 1..counter \ die : Reached(x)

\* What the invariant says of reaching the sessions, session by session.
LEMMA ReachParts == ReachInv <=> ReachMap /\ ReachSessions
  <1>1. ASSUME ReachInv
        PROVE  ReachMap /\ ReachSessions
    <2>1. \A x \in 1..counter \ die :
            /\ \/ Opening(x) \/ Live(x) # {} \/ Ending(x)
               \/ x \in idle /\ ~taken
               \/ x \in todo \cup expired \cup reap
            /\ taken => (x \in idle \/ Ending(x) => x \in todo)
      BY <1>1 DEF ReachInv, NoSessionLost
    <2> QED BY <1>1, <2>1 DEF ReachInv, ReachMap, ReachSessions, Reached
  <1>2. ASSUME ReachMap, ReachSessions
        PROVE  ReachInv
    <2>1. NoSessionLost
      BY <1>2 DEF ReachSessions, Reached, NoSessionLost
    <2>2. taken => \A x \in 1..counter \ die : x \in idle \/ Ending(x) => x \in todo
      BY <1>2 DEF ReachSessions, Reached
    <2> QED BY <1>2, <2>1, <2>2 DEF ReachMap, ReachInv
  <1> QED BY <1>1, <1>2

\* A session once closed stays closed.
LEMMA DieGrows ==
  ASSUME Next
  PROVE  die \subseteq die'
  <1>1. UNCHANGED die \/ \E x, t : StartClose(x, t)
    <2>1. ASSUME NEW c \in Callers, CreateStream(c) \/ Send(c)
          PROVE  UNCHANGED die \/ \E x, t : StartClose(x, t)
      BY <2>1 DEF CreateStream, Send, Create, GetIdle, DialFail, CreateSession, Open, Syn, SetHook,
                  CreateFail, closeVars
    <2>2. ASSUME NEW t \in Threads, StreamEnd(t)
          PROVE  UNCHANGED die \/ \E x, u : StartClose(x, u)
      BY <2>2 DEF StreamEnd, StreamClose, HookInsert, StreamFin, closeVars
    <2>3. ASSUME NEW x \in Sessions,
                 \/ RecvLoop(x) \/ SessionClose(x) \/ Reap(x)
                 \/ \E n \in Sids : WatchdogFire(x, n) \/ WatchdogClose(x, n)
          PROVE  UNCHANGED die \/ \E y, t : StartClose(y, t)
      BY <2>3 DEF RecvLoop, RecvSettings, RecvSynAck, RecvSynErr, RecvFin, RecvEnd, Acked,
                  SessionClose, CloseHook, CloseSweep, Reap, WatchdogFire, WatchdogClose, closeVars
    <2>4. ASSUME Tasks
          PROVE  UNCHANGED die \/ \E x, t : StartClose(x, t)
      BY <2>4 DEF Tasks, ContextDone, ClientSnapshot, ClientCloseNext, CleanupClose, Cleanup, closeVars
    <2> QED BY <2>1, <2>2, <2>3, <2>4 DEF Next
  <1> QED BY <1>1, StartCloseLists

\* The client's map has every open session until Client.Close takes it.
LEMMA ReachMapStep ==
  ASSUME TypeInv, ReachMap, [Next]_vars
  PROVE  ReachMap'
  <1>a. ASSUME Next, UNCHANGED <<cdie, taken, counter, sessions>>
        PROVE  ReachMap'
    BY <1>a, DieGrows DEF ReachMap
  <1>1. ASSUME NEW c \in Callers, CreateStream(c) \/ Send(c), Next
        PROVE  ReachMap'
    <2>1. CASE CreateSession(c)
      <3>1. /\ counter \in Nat /\ counter' = counter + 1 /\ sessions' = sessions \cup {counter'}
            /\ UNCHANGED <<cdie, taken, die>>
        BY <2>1, ThreadFacts DEF CreateSession, closeVars, TypeInv, ClientType
      <3>2. 1..counter' = 1..counter \cup {counter'}
        BY <3>1
      <3> QED BY <3>1, <3>2 DEF ReachMap
    <2>2. CASE ~CreateSession(c)
      <3>1. UNCHANGED <<cdie, taken, counter, sessions>>
        BY <1>1, <2>2 DEF CreateStream, Send, Create, GetIdle, DialFail, Open, Syn, SetHook,
                          CreateFail, clientVars
      <3> QED BY <1>1, <3>1, <1>a
    <2> QED BY <2>1, <2>2
  <1>2. ASSUME NEW t \in Threads, StreamEnd(t), Next
        PROVE  ReachMap'
    BY <1>2, <1>a DEF StreamEnd, StreamClose, HookInsert, StreamFin, clientVars
  <1>3. ASSUME NEW x \in Sessions, Next,
               \/ RecvLoop(x) \/ Reap(x)
               \/ \E n \in Sids : WatchdogFire(x, n) \/ WatchdogClose(x, n)
        PROVE  ReachMap'
    BY <1>3, <1>a DEF RecvLoop, RecvSettings, RecvSynAck, RecvSynErr, RecvFin, RecvEnd, Reap,
                      WatchdogFire, WatchdogClose, clientVars
  <1>4. ASSUME NEW x \in Sessions, SessionClose(x), Next
        PROVE  ReachMap'
    <2>1. CASE CloseHook(x)
      <3>1. x \in die /\ sessions' = sessions \ {x} /\ UNCHANGED <<cdie, taken, counter, die>>
        BY <2>1 DEF CloseHook, TypeInv, CloseType
      <3> QED BY <3>1 DEF ReachMap
    <2>2. CASE CloseSweep(x)
      BY <1>4, <2>2, <1>a DEF CloseSweep, clientVars
    <2> QED BY <1>4, <2>1, <2>2 DEF SessionClose
  <1>5. ASSUME Tasks, Next
        PROVE  ReachMap'
    <2>1. CASE ContextDone \/ ClientSnapshot
      <3>1. \/ cdie' /\ UNCHANGED <<taken, counter, sessions, die>>
            \/ cdie /\ taken' /\ UNCHANGED cdie
        BY <2>1 DEF ContextDone, ClientSnapshot, closeVars
      <3> QED BY <3>1 DEF ReachMap
    <2>2. CASE ClientCloseNext \/ CleanupClose \/ \E S \in SUBSET idle : Cleanup(S)
      BY <1>5, <2>2, <1>a DEF ClientCloseNext, CleanupClose, Cleanup, clientVars
    <2> QED BY <1>5, <2>1, <2>2 DEF Tasks
  <1>6. CASE UNCHANGED vars
    <2>1. UNCHANGED <<cdie, taken, counter, sessions, die>>
      BY <1>6 DEF vars, clientVars, closeVars
    <2> QED BY <2>1 DEF ReachMap
  <1> QED BY <1>1, <1>2, <1>3, <1>4, <1>5, <1>6 DEF Next

\* Whoever is with the session stays with it.
Stays(x) ==
  /\ Opening(x) => Opening(x)'
  /\ Ending(x)' <=> Ending(x)
  /\ Live(x) # {} => Live(x)' # {}

InLists(x) ==
  /\ x \in idle' <=> x \in idle
  /\ x \in todo => x \in todo'
  /\ x \in expired => x \in expired'
  /\ x \in reap => x \in reap'

\* A session in somebody's hands stays so when its holder and lists keep it.
LEMMA ReachedKept ==
  ASSUME NEW x, Reached(x), Stays(x), InLists(x), UNCHANGED taken
  PROVE  Reached(x)'
  <1>1. \/ Opening(x)' \/ Live(x)' # {} \/ Ending(x)'
        \/ x \in idle' /\ ~taken'
        \/ x \in (todo \cup expired \cup reap)'
    BY DEF Reached, Stays, InLists
  <1>2. taken' => (x \in idle' \/ Ending(x)' => x \in todo')
    BY DEF Reached, Stays, InLists
  <1> QED BY <1>1, <1>2 DEF Reached

\* A step that takes no caller away from a session it opens, and nobody from
\* one that is to be put back.
LEMMA StaysQuiet ==
  ASSUME NEW t \in Threads, Others(t), NEW x,
         pc[t] \notin {"open", "syn", "fail", "insert", "drop insert"} \/ sess[t] # x,
         pc'[t] \notin {"insert", "drop insert"} \/ sess'[t] # x
  PROVE  /\ Opening(x) => Opening(x)'
         /\ Ending(x)' <=> Ending(x)
  <1>1. ASSUME Opening(x)
        PROVE  Opening(x)'
    <2>1. PICK c \in Callers : sess[c] = x /\ pc[c] \in {"open", "syn", "fail"}
      BY <1>1 DEF Opening
    <2>2. c # t /\ c \in Threads
      BY <2>1, ThreadFacts
    <2>3. sess'[c] = x /\ pc'[c] \in {"open", "syn", "fail"}
      BY <2>1, <2>2 DEF Others
    <2> QED BY <2>3 DEF Opening
  <1>2. ASSUME NEW u \in Threads
        PROVE  sess'[u] = x /\ pc'[u] \in {"insert", "drop insert"} <=>
               sess[u] = x /\ pc[u] \in {"insert", "drop insert"}
    BY DEF Others
  <1>3. Ending(x)' <=> Ending(x)
    BY <1>2 DEF Ending
  <1> QED BY <1>1, <1>3

\* Where no thread moves, no session changes hands.
LEMMA StaysSame ==
  ASSUME UNCHANGED callVars
  PROVE  \A x : (Opening(x) => Opening(x)') /\ (Ending(x)' <=> Ending(x))
  BY DEF Opening, Ending, callVars

\* A session that is not closed by this step stays in the lists.
LEMMA ListsKept ==
  ASSUME NEW z, NEW t, StartClose(z, t), NEW x, x \notin die',
         x \in idle' <=> x \in idle
  PROVE  InLists(x)
  BY StartCloseLists DEF InLists

\* A thread that was and is not about to put a session back changes nothing for it.
LEMMA EndingSame ==
  ASSUME NEW t \in Threads, Others(t), NEW x,
         pc[t] \notin {"insert", "drop insert"} \/ sess[t] # x,
         pc'[t] \notin {"insert", "drop insert"} \/ sess'[t] # x
  PROVE  Ending(x)' <=> Ending(x)
  <1>1. ASSUME NEW u \in Threads
        PROVE  sess'[u] = x /\ pc'[u] \in {"insert", "drop insert"} <=>
               sess[u] = x /\ pc[u] \in {"insert", "drop insert"}
    BY DEF Others
  <1> QED BY <1>1 DEF Ending

\* What the receive loops and the tasks do changes nothing for a session that
\* stays open, and neither does what a thread away from its session does.
LEMMA ReachQuiet ==
  ASSUME TypeInv, ReachSessions, Next, UNCHANGED <<taken, counter>>,
         \A x \in Sessions \ die' : Stays(x) /\ InLists(x)
  PROVE  ReachSessions'
  <1> SUFFICES ASSUME NEW x \in 1..counter' \ die'
               PROVE  Reached(x)'
    BY DEF ReachSessions
  <1>1. x \in 1..counter \ die /\ x \in Sessions
    BY DieGrows, ThreadFacts DEF TypeInv, ClientType, Sessions
  <1> QED BY <1>1, ReachedKept DEF ReachSessions

\* The session taken out of the pool is the caller's (client.go:120-132).
LEMMA ReachGetIdle ==
  ASSUME TypeInv, ReachSessions, NEW c \in Callers, GetIdle(c), Next
  PROVE  ReachSessions'
  <1>1. /\ c \in Threads /\ Others(c) /\ pc[c] = "get"
        /\ \/ pc'[c] = "dial" /\ idle' = idle
           \/ pc'[c] = "open" /\ sess'[c] \in idle /\ idle' = idle \ {sess'[c]}
        /\ UNCHANGED <<taken, counter, str, die, todo, expired, reap>>
    BY ThreadFacts, GetIdleMoves DEF GetIdle, At, streamVars, closeVars
  <1>2. ASSUME NEW x \in Sessions, pc'[c] = "dial" \/ sess'[c] # x
        PROVE  Stays(x) /\ InLists(x)
    <2>1. InLists(x)
      BY <1>1, <1>2 DEF InLists
    <2>2. Stays(x)
      BY <1>1, StaysQuiet, LiveSame DEF Stays
    <2> QED BY <2>1, <2>2
  <1> SUFFICES ASSUME NEW x \in 1..counter' \ die'
               PROVE  Reached(x)'
    BY DEF ReachSessions
  <1>3. Reached(x) /\ x \in Sessions
    BY <1>1, ThreadFacts DEF ReachSessions, TypeInv, ClientType, Sessions
  <1>4. CASE pc'[c] = "dial" \/ sess'[c] # x
    BY <1>1, <1>2, <1>3, <1>4, ReachedKept
  <1>5. CASE pc'[c] = "open" /\ sess'[c] = x
    <2>1. Opening(x)' /\ x \in idle /\ x \notin idle'
      BY <1>1, <1>5 DEF Opening
    <2>2. Ending(x)' <=> Ending(x)
      BY <1>1, <1>5, EndingSame
    <2> QED BY <1>1, <1>3, <2>1, <2>2 DEF Reached
  <1> QED BY <1>1, <1>4, <1>5

\* A new session is the caller's that dialed it (client.go:140-165).
LEMMA ReachCreateSession ==
  ASSUME TypeInv, ReachSessions, NEW c \in Callers, CreateSession(c)
  PROVE  ReachSessions'
  <1>1. PICK z \in Sessions :
        /\ z = counter' /\ z = counter + 1 /\ counter \in Nat
        /\ pc'[c] = "open" /\ sess'[c] = z /\ pc'[Recv(z)] = "run"
        /\ \A u \in Threads \ {c, Recv(z)} : pc'[u] = pc[u] /\ sess'[u] = sess[u]
    BY CreateSessionMoves, ThreadFacts DEF TypeInv, ClientType
  <1>2. UNCHANGED <<str, taken, idle, die, todo, expired, reap>> /\ pc[c] = "dial"
    BY DEF CreateSession, At, streamVars, closeVars
  <1>3. Recv(z) \in Threads /\ pc[Recv(z)] = "none"
    BY <1>1, ThreadFacts DEF TypeInv, CallType
  <1> SUFFICES ASSUME NEW x \in 1..counter' \ die'
               PROVE  Reached(x)'
    BY DEF ReachSessions
  <1>4. CASE x = z
    <2>1. Opening(x)'
      BY <1>1, <1>4 DEF Opening
    <2>2. x \notin idle'
      BY <1>1, <1>2, <1>4 DEF TypeInv, ClientType
    <2>3. ASSUME NEW u \in Threads, sess'[u] = x, pc'[u] \in {"insert", "drop insert"}
          PROVE  FALSE
      <3>1. u # c /\ u # Recv(z)
        BY <1>1, <2>3
      <3>2. sess[u] = x
        BY <1>1, <2>3, <3>1
      <3> QED BY <1>1, <1>4, <3>2 DEF TypeInv, CallType
    <2>4. ~Ending(x)'
      BY <2>3 DEF Ending
    <2> QED BY <2>1, <2>2, <2>4 DEF Reached
  <1>5. CASE x # z
    <2>1. x \in 1..counter \ die /\ x \in Sessions
      BY <1>1, <1>2, <1>5, ThreadFacts DEF Sessions
    <2>2. \A u \in Threads : sess'[u] = x /\ pc'[u] \in {"insert", "drop insert"} <=>
                             sess[u] = x /\ pc[u] \in {"insert", "drop insert"}
      BY <1>1, <1>2, <1>3
    <2>3. Ending(x)' <=> Ending(x)
      BY <2>2 DEF Ending
    <2>4. ASSUME Opening(x)
          PROVE  Opening(x)'
      <3>1. PICK a \in Callers : sess[a] = x /\ pc[a] \in {"open", "syn", "fail"}
        BY <2>4 DEF Opening
      <3>2. a # c /\ a # Recv(z) /\ a \in Threads
        BY <1>1, <1>2, <3>1, ThreadFacts
      <3>3. sess'[a] = x /\ pc'[a] \in {"open", "syn", "fail"}
        BY <1>1, <3>1, <3>2
      <3> QED BY <3>3 DEF Opening
    <2>5. Stays(x)
      BY <1>2, <2>1, <2>3, <2>4, LiveSame DEF Stays
    <2>6. InLists(x)
      BY <1>2 DEF InLists
    <2> QED BY <1>2, <2>1, <2>5, <2>6, ReachedKept DEF ReachSessions
  <1> QED BY <1>4, <1>5

\* The caller keeps its session, or finds it closed.
LEMMA ReachOpen ==
  ASSUME TypeInv, ReachSessions, NEW c \in Callers, Open(c), Next
  PROVE  ReachSessions'
  <1>1. /\ c \in Threads /\ Others(c) /\ pc[c] = "open" /\ sess'[c] = sess[c]
        /\ pc'[c] \in {"fail", "syn"}
        /\ UNCHANGED <<taken, counter, str, idle, die, todo, expired, reap>>
    BY ThreadFacts, OpenMoves DEF Open, streamVars, clientVars
  <1> SUFFICES ASSUME NEW x \in Sessions
               PROVE  Stays(x) /\ InLists(x)
    BY <1>1, ReachQuiet
  <1>2. InLists(x)
    BY <1>1 DEF InLists
  <1>3. Ending(x)' <=> Ending(x)
    BY <1>1, EndingSame
  <1>4. Opening(x) => Opening(x)'
    <2>1. CASE sess[c] = x
      BY <1>1, <2>1 DEF Opening
    <2>2. CASE sess[c] # x
      BY <1>1, <2>2, StaysQuiet
    <2> QED BY <2>1, <2>2
  <1> QED BY <1>1, <1>2, <1>3, <1>4, LiveSame DEF Stays

\* The session passes from the caller to its stream, or is closed.
LEMMA ReachSyn ==
  ASSUME TypeInv, ReachSessions, NEW c \in Callers, Syn(c), Next
  PROVE  ReachSessions'
  <1>0. PICK x \in Sessions, n \in Sids : x = sess[c] /\ n = sid[c]
    BY SynMoves
  <1>1. /\ c \in Threads /\ Others(c) /\ pc[c] = "syn" /\ sess'[c] = x
        /\ UNCHANGED <<idle, taken, counter>>
    BY <1>0, ThreadFacts, SynMoves DEF clientVars
  <1>2. CASE pc'[c] = "fail" /\ UNCHANGED str /\ ((x \in die /\ UNCHANGED closeVars) \/ StartClose(x, c))
    <2>1. x \in die'
      BY <1>2, StartCloseLists DEF closeVars
    <2> SUFFICES ASSUME NEW y \in Sessions \ die'
                 PROVE  Stays(y) /\ InLists(y)
      BY <1>1, ReachQuiet
    <2>2. InLists(y)
      BY <1>1, <1>2, ListsKept DEF InLists, closeVars
    <2>3. Stays(y)
      BY <1>0, <1>1, <1>2, <2>1, StaysQuiet, LiveSame DEF Stays
    <2> QED BY <2>2, <2>3
  <1>3. CASE /\ pc'[c] = "sethook" /\ UNCHANGED closeVars
             /\ str' = [str EXCEPT ![x][n] = "made"]
    <2>1. /\ \A y \in Sessions : y # x => Live(y)' = Live(y)
          /\ Live(x)' = Live(x) \cup {n}
      BY <1>3, LiveChange
    <2>2. UNCHANGED <<die, todo, expired, reap>>
      BY <1>3 DEF closeVars
    <2> SUFFICES ASSUME NEW y \in 1..counter' \ die'
                 PROVE  Reached(y)'
      BY DEF ReachSessions
    <2>3. y \in Sessions /\ Reached(y)
      BY <1>1, <2>2, ThreadFacts DEF ReachSessions, TypeInv, ClientType, Sessions
    <2>4. InLists(y)
      BY <1>1, <2>2 DEF InLists
    <2>5. Ending(y)' <=> Ending(y)
      BY <1>1, <1>3, EndingSame
    <2>6. CASE y # x
      <3>1. Stays(y)
        BY <1>0, <1>1, <1>3, <2>1, <2>3, <2>6, StaysQuiet DEF Stays
      <3> QED BY <1>1, <2>3, <2>4, <3>1, ReachedKept
    <2>7. CASE y = x
      <3>1. Live(y)' # {}
        BY <2>1, <2>7
      <3> QED BY <1>1, <2>3, <2>4, <2>5, <3>1 DEF Reached, InLists
    <2> QED BY <2>6, <2>7
  <1> QED BY <1>0, <1>2, <1>3, SynMoves

\* A stream in use stays live.
LEMMA ReachUse ==
  ASSUME TypeInv, ReachSessions, NEW c \in Callers, SetHook(c) \/ Send(c), Next
  PROVE  ReachSessions'
  <1>0. PICK x \in Sessions, n \in Sids : x = sess[c] /\ n = sid[c]
    BY UseMoves
  <1>1. /\ c \in Threads /\ Others(c) /\ pc'[c] = "use" /\ pc[c] \in {"sethook", "use"}
    BY ThreadFacts, UseMoves
  <1>2. UNCHANGED <<idle, taken, counter, todo, expired, reap>>
    BY DEF SetHook, Send, clientVars, closeVars
  <1>3. \E s \in {"live", "used", str[x][n]} : str' = [str EXCEPT ![x][n] = s]
    BY <1>0 DEF SetHook, Send
  <1>4. \A y \in Sessions, m \in Sids : str'[y][m] \in {"live", "used", str[y][m]}
    BY <1>3 DEF TypeInv, StreamType
  <1>5. \A y \in Sessions : Live(y) \subseteq Live(y)'
    BY <1>4 DEF Live
  <1> SUFFICES ASSUME NEW y \in Sessions
               PROVE  Stays(y) /\ InLists(y)
    BY <1>2, ReachQuiet
  <1>6. InLists(y)
    BY <1>2 DEF InLists
  <1>7. Stays(y)
    BY <1>1, <1>5, StaysQuiet DEF Stays
  <1> QED BY <1>6, <1>7

\* A stream that ends hands its session to the thread that runs the hook, to the
\* goroutine that reaps it, or the session is closed.
LEMMA ReachStreamClose ==
  ASSUME TypeInv, ReachMap, ReachSessions, NEW t \in Threads, StreamClose(t), Next
  PROVE  ReachSessions'
  <1>0. PICK x \in Sessions, n \in Sids : x = sess[t] /\ n = sid[t]
    BY StreamCloseMoves
  <1>1. /\ Others(t) /\ pc[t] \in {"use", "kill", "drop"}
        /\ UNCHANGED <<cdie, idle, taken, counter, die, todo, expired>>
    BY <1>0, StreamCloseMoves DEF StreamClose, clientVars
  <1>2. CASE pc'[t] \in {"idle", "run"} /\ UNCHANGED <<str, reap>>
    <2> SUFFICES ASSUME NEW y \in Sessions
                 PROVE  Stays(y) /\ InLists(y)
      BY <1>1, ReachQuiet
    <2>1. InLists(y)
      BY <1>1, <1>2 DEF InLists
    <2>2. Stays(y)
      BY <1>1, <1>2, StaysQuiet, LiveSame DEF Stays
    <2> QED BY <2>1, <2>2
  <1>3. CASE /\ str' = [str EXCEPT ![x][n] = "dead"]
             /\ \/ /\ pc'[t] \in {"fin", "idle", "run"}
                   /\ \/ x \in die /\ reap' = reap
                      \/ x \notin die /\ cdie /\ reap' = reap \cup {x}
                \/ /\ pc'[t] \in {"insert", "drop insert"} /\ sess'[t] = x
                   /\ x \notin die /\ ~cdie /\ reap' = reap
    <2>1. \A y \in Sessions : y # x => Live(y)' = Live(y)
      BY <1>3, LiveChange
    <2> SUFFICES ASSUME NEW y \in 1..counter' \ die'
                 PROVE  Reached(y)'
      BY DEF ReachSessions
    <2>2. y \in Sessions /\ Reached(y)
      BY <1>1, ThreadFacts DEF ReachSessions, TypeInv, ClientType, Sessions
    <2>3. InLists(y)
      BY <1>1, <1>3 DEF InLists
    <2>4. CASE y # x
      <3>1. pc'[t] \notin {"insert", "drop insert"} \/ sess'[t] # y
        BY <1>3, <2>4
      <3>2. Stays(y)
        BY <1>1, <2>1, <2>2, <2>4, <3>1, StaysQuiet DEF Stays
      <3> QED BY <1>1, <2>2, <2>3, <3>2, ReachedKept
    <2>5. CASE y = x
      <3>1. CASE pc'[t] \in {"fin", "idle", "run"} /\ reap' = reap \cup {x}
        <4>1. Ending(y)' <=> Ending(y)
          BY <1>1, <3>1, EndingSame
        <4>2. y \in reap'
          BY <2>5, <3>1
        <4> QED BY <1>1, <2>2, <4>1, <4>2 DEF Reached
      <3>2. CASE pc'[t] \in {"insert", "drop insert"} /\ sess'[t] = x /\ ~cdie
        <4>1. Ending(y)'
          BY <2>5, <3>2 DEF Ending
        <4>2. ~taken'
          BY <1>1, <3>2 DEF ReachMap
        <4> QED BY <4>1, <4>2 DEF Reached
      <3>3. x \notin die
        BY <1>1, <2>5
      <3> QED BY <1>3, <3>1, <3>2, <3>3
    <2> QED BY <2>4, <2>5
  <1> QED BY <1>0, <1>2, <1>3, StreamCloseMoves

\* The hook puts the session into the pool, and after Client.Close it was on
\* Close's list (client.go:103-113).
LEMMA ReachHookInsert ==
  ASSUME TypeInv, ReachSessions, NEW t \in Threads, HookInsert(t), Next
  PROVE  ReachSessions'
  <1>0. PICK x \in Sessions : x = sess[t]
    BY HookInsertMoves
  <1>1. /\ Others(t) /\ pc[t] \in {"insert", "drop insert"} /\ pc'[t] \in {"fin", "idle", "run"}
        /\ idle' = idle \cup {x} /\ UNCHANGED <<taken, counter, str, die, todo, expired, reap>>
    BY <1>0, HookInsertMoves DEF HookInsert, streamVars, closeVars
  <1> SUFFICES ASSUME NEW y \in 1..counter' \ die'
               PROVE  Reached(y)'
    BY DEF ReachSessions
  <1>2. y \in Sessions /\ Reached(y)
    <2>1. counter' = counter /\ die' = die /\ y \in 1..counter \ die
      BY <1>1
    <2>2. y \in Sessions
      BY <2>1, ThreadFacts DEF TypeInv, ClientType, Sessions
    <2> QED BY <2>1, <2>2 DEF ReachSessions
  <1>3. CASE y # x
    <2>1. InLists(y)
      BY <1>1, <1>3 DEF InLists
    <2>2. Stays(y)
      BY <1>0, <1>1, <1>2, <1>3, StaysQuiet, LiveSame DEF Stays
    <2> QED BY <1>1, <1>2, <2>1, <2>2, ReachedKept
  <1>4. CASE y = x
    <2>1. Ending(y)
      BY <1>0, <1>1, <1>4 DEF Ending
    <2>2. taken => y \in todo
      BY <1>2, <2>1 DEF Reached
    <2> QED BY <1>1, <1>4, <2>2 DEF Reached
  <1> QED BY <1>3, <1>4

\* What the cleanup takes out of the pool it has on its list, or it is closed.
LEMMA ReachCleanup ==
  ASSUME TypeInv, ReachSessions, NEW S \in SUBSET idle, Cleanup(S)
  PROVE  ReachSessions'
  <1>1. PICK out \in SUBSET idle :
          /\ idle' = idle \ out /\ expired' = out \ die /\ expired = {}
          /\ UNCHANGED <<taken, counter, str, die, todo, reap, callVars>>
    BY DEF Cleanup, streamVars
  <1> SUFFICES ASSUME NEW x \in 1..counter' \ die'
               PROVE  Reached(x)'
    BY DEF ReachSessions
  <1>2. x \in Sessions /\ Reached(x) /\ x \notin die
    <2>1. counter' = counter /\ die' = die /\ x \in 1..counter \ die
      BY <1>1
    <2>2. x \in Sessions
      BY <2>1, ThreadFacts DEF TypeInv, ClientType, Sessions
    <2> QED BY <2>1, <2>2 DEF ReachSessions
  <1>3. Stays(x)
    BY <1>1, <1>2, StaysSame, LiveSame DEF Stays
  <1>4. CASE x \notin out
    <2>1. InLists(x)
      BY <1>1, <1>4 DEF InLists
    <2> QED BY <1>1, <1>2, <1>3, <2>1, ReachedKept
  <1>5. CASE x \in out
    BY <1>1, <1>2, <1>3, <1>5 DEF Reached, Stays
  <1> QED BY <1>4, <1>5

\* Client.Close takes every session of the map that is open.
LEMMA ReachSnapshot ==
  ASSUME TypeInv, ReachMap, ReachSessions, ClientSnapshot
  PROVE  ReachSessions'
  <1>1. /\ ~taken /\ todo' = sessions \ die /\ UNCHANGED <<counter, die>>
    BY DEF ClientSnapshot
  <1>2. \A x \in 1..counter \ die : x \in todo'
    BY <1>1 DEF ReachMap
  <1> QED BY <1>1, <1>2 DEF ReachSessions, Reached

\* A step of no thread which closes a session, or none.
LEMMA ReachTask ==
  ASSUME TypeInv, ReachSessions, Next, UNCHANGED <<taken, counter, callVars>>,
         \A x \in Sessions \ die' : (Live(x)' = Live(x)) /\ (x \in idle' <=> x \in idle),
         \/ UNCHANGED <<todo, expired, reap>>
         \/ \E x, t : StartClose(x, t)
  PROVE  ReachSessions'
  <1> SUFFICES ASSUME NEW x \in Sessions \ die'
               PROVE  Stays(x) /\ InLists(x)
    BY ReachQuiet
  <1>1. Stays(x)
    BY StaysSame DEF Stays
  <1>2. InLists(x)
    BY ListsKept DEF InLists
  <1> QED BY <1>1, <1>2

\* No step loses a session.
LEMMA ReachStep ==
  ASSUME TypeInv, ReachMap, ReachSessions, Next
  PROVE  ReachSessions'
  <1>1. ASSUME NEW c \in Callers, CreateStream(c) \/ Send(c)
        PROVE  ReachSessions'
    <2>1. CASE Create(c) \/ DialFail(c)
      <3>1. /\ c \in Threads /\ Others(c) /\ pc[c] \in {"idle", "dial"} /\ pc'[c] \in {"idle", "get"}
        BY <2>1, ThreadFacts, CreateMoves DEF Create, DialFail, At
      <3>2. UNCHANGED <<str, taken, counter, idle, todo, expired, reap>>
        BY <2>1 DEF Create, DialFail, clientVars, closeVars, streamVars
      <3>3. \A x \in Sessions : Stays(x) /\ InLists(x)
        BY <3>1, <3>2, StaysQuiet, LiveSame DEF Stays, InLists
      <3> QED BY <3>2, <3>3, ReachQuiet
    <2>2. CASE CreateFail(c)
      <3>1. /\ c \in Threads /\ Others(c) /\ pc'[c] = "idle" /\ pc[c] = "fail"
            /\ StartClose(sess[c], c)
        BY <2>2, ThreadFacts, CreateFailMoves
      <3>2. UNCHANGED <<str, idle, taken, counter>> /\ sess[c] \in die'
        BY <2>2, <3>1, StartCloseLists DEF CreateFail, clientVars, streamVars
      <3>3. ASSUME NEW x \in Sessions \ die'
            PROVE  Stays(x) /\ InLists(x)
        <4>1. Stays(x)
          BY <3>1, <3>2, StaysQuiet, LiveSame DEF Stays
        <4>2. InLists(x)
          BY <3>1, <3>2, ListsKept
        <4> QED BY <4>1, <4>2
      <3> QED BY <3>2, <3>3, ReachQuiet
    <2> QED BY <1>1, <2>1, <2>2, ReachGetIdle, ReachCreateSession, ReachOpen, ReachSyn, ReachUse
            DEF CreateStream
  <1>2. ASSUME NEW t \in Threads, StreamEnd(t)
        PROVE  ReachSessions'
    <2>1. CASE StreamFin(t)
      <3>1. /\ Others(t) /\ pc[t] = "fin" /\ pc'[t] \in {"idle", "run"}
            /\ StartClose(sess[t], t) \/ UNCHANGED closeVars
            /\ UNCHANGED <<idle, taken, counter, str>>
        BY <2>1, StreamFinMoves DEF clientVars
      <3>2. ASSUME NEW x \in Sessions \ die'
            PROVE  Stays(x) /\ InLists(x)
        <4>1. Stays(x)
          BY <3>1, StaysQuiet, LiveSame DEF Stays
        <4>2. InLists(x)
          BY <3>1, ListsKept DEF InLists, closeVars
        <4> QED BY <4>1, <4>2
      <3> QED BY <3>1, <3>2, ReachQuiet
    <2> QED BY <1>2, <2>1, ReachStreamClose, ReachHookInsert DEF StreamEnd
  <1>3. ASSUME NEW x \in Sessions, RecvLoop(x)
        PROVE  ReachSessions'
    <2>1. /\ Recv(x) \in Threads /\ Others(Recv(x)) /\ pc[Recv(x)] = "run"
          /\ pc'[Recv(x)] \in {"run", "kill", "drop"}
      BY <1>3, RecvMoves
    <2>2. /\ UNCHANGED <<str, idle, taken, counter>>
          /\ StartClose(x, Recv(x)) \/ UNCHANGED <<todo, expired, reap>>
      BY <1>3 DEF RecvLoop, RecvSettings, RecvSynAck, RecvSynErr, RecvFin, RecvEnd, Acked,
                  clientVars, closeVars, streamVars
    <2>3. ASSUME NEW y \in Sessions \ die'
          PROVE  Stays(y) /\ InLists(y)
      <3>1. Stays(y)
        BY <2>1, <2>2, StaysQuiet, LiveSame DEF Stays
      <3>2. InLists(y)
        BY <2>2, ListsKept DEF InLists
      <3> QED BY <3>1, <3>2
    <2> QED BY <2>2, <2>3, ReachQuiet
  <1>4. ASSUME NEW x \in Sessions, SessionClose(x)
        PROVE  ReachSessions'
    <2>1. /\ x \in die /\ UNCHANGED <<taken, counter, callVars, die, todo, expired, reap>>
          /\ idle' = idle \/ idle' = idle \ {x}
      BY <1>4 DEF SessionClose, CloseHook, CloseSweep, clientVars, TypeInv, CloseType
    <2>2. ASSUME NEW y \in Sessions \ die'
          PROVE  Live(y)' = Live(y)
      <3>1. y # x
        BY <2>1, <2>2
      <3>2. str'[y] = str[y]
        BY <1>4, <3>1 DEF SessionClose, CloseHook, CloseSweep, streamVars, TypeInv, StreamType
      <3> QED BY <3>2 DEF Live
    <2>3. \A y \in Sessions \ die' : y \in idle' <=> y \in idle
      BY <2>1
    <2> QED BY <2>1, <2>2, <2>3, ReachTask
  <1>5. ASSUME NEW x \in Sessions,
               Reap(x) \/ \E n \in Sids : WatchdogFire(x, n) \/ WatchdogClose(x, n)
        PROVE  ReachSessions'
    <2>1. /\ UNCHANGED <<taken, counter, callVars, idle, str>>
          /\ StartClose(x, Other) \/ UNCHANGED <<todo, expired, reap>>
      BY <1>5 DEF Reap, WatchdogFire, WatchdogClose, clientVars, streamVars
    <2> QED BY <2>1, LiveSame, ReachTask
  <1>6. ASSUME Tasks
        PROVE  ReachSessions'
    <2>1. CASE ContextDone \/ ClientCloseNext \/ CleanupClose
      <3>1. UNCHANGED <<taken, counter, callVars, idle, str>>
        BY <2>1 DEF ContextDone, ClientCloseNext, CleanupClose, clientVars, streamVars
      <3>2. UNCHANGED <<todo, expired, reap>> \/ \E x, t : StartClose(x, t)
        BY <2>1 DEF ContextDone, ClientCloseNext, CleanupClose, closeVars
      <3> QED BY <3>1, <3>2, LiveSame, ReachTask
    <2> QED BY <1>6, <2>1, ReachSnapshot, ReachCleanup DEF Tasks
  <1> QED BY <1>1, <1>2, <1>3, <1>4, <1>5, <1>6 DEF Next

\* A step that changes nothing loses none either.
LEMMA ReachStutter ==
  ASSUME ReachSessions, UNCHANGED vars
  PROVE  ReachSessions'
  <1>1. UNCHANGED <<counter, die, str, idle, taken, todo, expired, reap, callVars>>
    BY DEF vars, clientVars, closeVars, streamVars
  <1> SUFFICES ASSUME NEW x \in 1..counter' \ die'
               PROVE  Reached(x)'
    BY DEF ReachSessions
  <1>2. counter' = counter /\ die' = die /\ taken' = taken
    BY <1>1
  <1>3. Reached(x)
    BY <1>2 DEF ReachSessions
  <1>4. Live(x)' = Live(x)
    BY <1>1 DEF Live
  <1>5. Stays(x) /\ InLists(x)
    BY <1>1, <1>4, StaysSame DEF Stays, InLists
  <1> QED BY <1>2, <1>3, <1>5, ReachedKept

-----------------------------------------------------------------------------
(* The invariant and what follows from it.                                 *)

\* Every step of the client, its sessions and its tasks keeps the invariant.
LEMMA IInvStep ==
  ASSUME IInv, [Next]_vars
  PROVE  IInv'
  <1>1. TypeInv /\ LeaseInv /\ WatchInv /\ ReachMap /\ ReachSessions
    BY ReachParts DEF IInv
  <1>2. TypeInv' /\ LeaseInv' /\ WatchInv' /\ ReachMap'
    BY <1>1, TypeStep, LeaseStep, WatchStep, ReachMapStep
  <1>3. ReachSessions'
    BY <1>1, ReachStep, ReachStutter
  <1>4. ReachMap' /\ ReachSessions' => ReachInv'
    BY ReachParts, PTL
  <1> QED BY <1>2, <1>3, <1>4 DEF IInv

\* One lease for a session, no watchdog armed but the newest stream's, and every
\* open session in somebody's hands (client.go:70-180, session.go:146-156).
THEOREM Invariance == Spec => []IInv
  <1>1. Init => IInv
    BY InitIInv
  <1>2. IInv /\ [Next]_vars => IInv'
    BY IInvStep
  <1> QED BY <1>1, <1>2, PTL DEF Spec

\* Type correctness of the client, its sessions, its streams and its threads.
THEOREM TypeCorrect == Spec => []TypeOK
  <1>1. IInv => TypeOK
    BY TypeInvTypeOK DEF IInv
  <1> QED BY <1>1, Invariance, PTL

\* A session that is open is in use, in the pool of a client that is not
\* closed, or about to be closed (client.go:70-180).
THEOREM NothingLost == Spec => []NoSessionLost
  <1>1. IInv => NoSessionLost
    BY DEF IInv, ReachInv
  <1> QED BY <1>1, Invariance, PTL

\* A watchdog that is neither stopped nor past its timer is the one synDone stops,
\* the newest stream's, and no SYNACK for it has come (session.go:146-156, 228-234).
THEOREM NoStrayWatchdog == Spec => []ArmedIsNewest
  <1>1. IInv => ArmedIsNewest
    BY DEF IInv, WatchInv, OneArmed, ArmedIsNewest
  <1> QED BY <1>1, Invariance, PTL

-----------------------------------------------------------------------------
(* The pool of sessions.                                                   *)

\* The state a session has for the pool.
PoolState(x) ==
  IF x \in die THEN "closed"
  ELSE IF x \in idle THEN "idle"
  ELSE IF x <= counter THEN "leased" ELSE "none"

PoolStep == Pool!Next \/ UNCHANGED Pool!vars

\* At the beginning the pool has no session.
LEMMA PoolInit ==
  ASSUME Init
  PROVE  Pool!Init
  <1>1. \A x \in Sessions : ~(x <= counter) /\ x \notin die /\ x \notin idle
    BY ThreadFacts DEF Init, Sessions
  <1>2. \A x \in Sessions : Live(x) = {}
    BY DEF Init, Live, PerStream
  <1> QED BY <1>1, <1>2 DEF Pool!Init

\* The pool's state is unchanged where each session's is.
LEMMA PoolStays ==
  ASSUME \A x \in Sessions : PoolState(x)' = PoolState(x) /\ Live(x)' = Live(x)
  PROVE  UNCHANGED Pool!vars
  BY DEF Pool!vars, PoolState

\* A session's state in the pool changes only with die, idle and the counter.
LEMMA PoolStateSame ==
  ASSUME UNCHANGED <<die, idle, counter>>
  PROVE  \A x \in Sessions : PoolState(x)' = PoolState(x)
  BY DEF PoolState

\* A session changes its state, or has another stream.
LEMMA PoolBecomes ==
  ASSUME NEW x \in Sessions, NEW s, PoolState(x)' = s,
         \A y \in Sessions : y # x => PoolState(y)' = PoolState(y),
         \A y \in Sessions : Live(y)' = Live(y)
  PROVE  Pool!Becomes(x, s)
  BY DEF Pool!Becomes, PoolState

\* A step that changes the streams of one session changes only those.
LEMMA PoolLive ==
  ASSUME NEW x \in Sessions, NEW S, Live(x)' = S,
         \A y \in Sessions : y # x => Live(y)' = Live(y),
         UNCHANGED <<die, idle, counter>>
  PROVE  /\ [y \in Sessions |-> Live(y)]' = [[y \in Sessions |-> Live(y)] EXCEPT ![x] = S]
         /\ \A y \in Sessions : PoolState(y)' = PoolState(y)
  BY PoolStateSame

\* The stream of a session is over.
LEMMA PoolEnd ==
  ASSUME NEW x \in Sessions, Live(x) # {}, Live(x)' = {},
         \A y \in Sessions : y # x => Live(y)' = Live(y),
         UNCHANGED <<die, idle, counter>>
  PROVE  Pool!Next
  <1>1. Pool!End(x)
    BY PoolLive DEF Pool!End, PoolState
  <1> QED BY <1>1 DEF Pool!Next

\* Closing a session that is in use or in the pool closes it for the pool.
LEMMA PoolClose ==
  ASSUME TypeInv, NEW x \in 1..counter, NEW t, StartClose(x, t), UNCHANGED <<idle, counter, str>>
  PROVE  PoolStep
  <1>1. x \in Sessions /\ x <= counter
    BY ThreadFacts DEF TypeInv, ClientType, Sessions
  <1>2. \A y \in Sessions : Live(y)' = Live(y)
    BY LiveSame
  <1>3. CASE x \in die
    <2>1. UNCHANGED die
      BY <1>3 DEF StartClose, closeVars
    <2> QED BY <1>2, <2>1, PoolStateSame, PoolStays DEF PoolStep
  <1>4. CASE x \notin die
    <2>1. die' = die \cup {x}
      BY StartCloseLists
    <2>2. PoolState(x)' = "closed" /\ \A y \in Sessions : y # x => PoolState(y)' = PoolState(y)
      BY <2>1 DEF PoolState
    <2>3. PoolState(x) \in {"leased", "idle"}
      BY <1>1, <1>4 DEF PoolState
    <2>4. Pool!Becomes(x, "closed")
      BY <1>1, <1>2, <2>2, PoolBecomes
    <2>5. Pool!Close(x)
      BY <1>1, <2>3, <2>4 DEF Pool!Close, PoolState
    <2> QED BY <1>1, <2>5 DEF PoolStep, Pool!Next
  <1> QED BY <1>3, <1>4

\* Sessions leave the pool; those that are closed already have left it.
LEMMA PoolTake ==
  ASSUME TypeInv, NEW X \in SUBSET idle, idle' = idle \ X, UNCHANGED <<die, counter, str>>
  PROVE  PoolStep
  <1>0. PICK open \in SUBSET X : open = X \ die
    OBVIOUS
  <1>1. \A y \in Sessions : Live(y)' = Live(y)
    BY LiveSame
  <1>2. idle \subseteq Sessions /\ \A x \in idle : x <= counter
    BY ThreadFacts DEF TypeInv, ClientType, Sessions
  <1>3. \A y \in Sessions : PoolState(y)' = IF y \in open THEN "leased" ELSE PoolState(y)
    BY <1>0, <1>2 DEF PoolState
  <1>4. \A x \in open : PoolState(x) = "idle" /\ x \in Sessions
    BY <1>0, <1>2 DEF PoolState
  <1>5. CASE open = {}
    BY <1>1, <1>3, <1>5, PoolStays DEF PoolStep
  <1>6. CASE open # {}
    <2>1. Pool!Take(open)
      BY <1>1, <1>3, <1>4, <1>6 DEF Pool!Take, PoolState
    <2>2. open \in SUBSET Sessions
      BY <1>4
    <2>3. \E Y \in SUBSET Sessions : Pool!Take(Y)
      BY <2>1, <2>2
    <2>4. Pool!Next
      BY <2>3 DEF Pool!Next
    <2> QED BY <2>4 DEF PoolStep
  <1> QED BY <1>5, <1>6

\* A session is dialed.
LEMMA PoolCreateSession ==
  ASSUME IInv, NEW c \in Callers, CreateSession(c)
  PROVE  PoolStep
  <1>1. PICK z \in Sessions : z = counter' /\ z = counter + 1 /\ counter \in Nat
    BY CreateSessionMoves, ThreadFacts DEF IInv, TypeInv, ClientType
  <1>2. UNCHANGED <<die, idle, str>>
    BY DEF CreateSession, closeVars, streamVars
  <1>3. z \notin die /\ z \notin idle
    BY <1>1 DEF IInv, TypeInv, ClientType, CloseType
  <1>4. \A y \in Sessions : y # z => (y <= counter' <=> y <= counter)
    BY <1>1 DEF Sessions
  <1>5. PoolState(z) = "none" /\ PoolState(z)' = "leased"
    BY <1>1, <1>2, <1>3 DEF PoolState
  <1>6. \A y \in Sessions : y # z => PoolState(y)' = PoolState(y)
    BY <1>2, <1>4 DEF PoolState
  <1>7. Pool!Becomes(z, "leased")
    BY <1>2, <1>5, <1>6, LiveSame, PoolBecomes
  <1>8. Pool!Dial(z)
    BY <1>5, <1>7 DEF Pool!Dial, PoolState
  <1> QED BY <1>8 DEF PoolStep, Pool!Next

\* A stream is opened on a leased session without one.
LEMMA PoolSyn ==
  ASSUME IInv, NEW c \in Callers, Syn(c)
  PROVE  PoolStep
  <1>0. PICK x \in Sessions, n \in Sids : x = sess[c] /\ n = sid[c] /\ x \in 1..counter
    BY SynMoves DEF IInv
  <1>1. c \in Threads /\ pc[c] = "syn" /\ UNCHANGED <<idle, counter>>
    BY SynMoves, ThreadFacts DEF IInv, clientVars
  <1>2. CASE UNCHANGED str /\ ((x \in die /\ UNCHANGED closeVars) \/ StartClose(x, c))
    <2>1. CASE UNCHANGED closeVars
      BY <1>1, <1>2, <2>1, PoolStateSame, LiveSame, PoolStays DEF PoolStep, closeVars
    <2>2. CASE StartClose(x, c)
      BY <1>0, <1>1, <1>2, <2>2, PoolClose DEF IInv
    <2> QED BY <1>2, <2>1, <2>2
  <1>3. CASE /\ x \notin die /\ UNCHANGED closeVars
             /\ str' = [str EXCEPT ![x][n] = "made"]
    <2>1. /\ \A y \in Sessions : y # x => Live(y)' = Live(y)
          /\ Live(x)' = Live(x) \cup {n}
      BY <1>3, LiveChange DEF IInv
    <2>2. Holds(c, x)
      BY <1>0, <1>1 DEF Holds
    <2>3. Live(x) = {} /\ x \notin idle /\ x <= counter
      BY <1>0, <1>1, <2>2 DEF IInv, LeaseInv, OneLease
    <2>4. UNCHANGED <<die, idle, counter>>
      BY <1>1, <1>3 DEF closeVars
    <2>5. PoolState(x) = "leased"
      BY <1>3, <2>3 DEF PoolState
    <2>6. Live(x)' = {n}
      BY <2>1, <2>3
    <2>7. Pool!Open(x, n)
      BY <2>1, <2>3, <2>4, <2>5, <2>6, PoolLive DEF Pool!Open, PoolState
    <2> QED BY <2>7 DEF PoolStep, Pool!Next
  <1> QED BY <1>0, <1>2, <1>3, SynMoves DEF IInv

\* The stream ends for the pool when it is closed, whoever closes it.
LEMMA PoolStreamClose ==
  ASSUME IInv, NEW t \in Threads, StreamClose(t)
  PROVE  PoolStep
  <1>0. PICK x \in Sessions, n \in Sids : x = sess[t] /\ n = sid[t]
    BY StreamCloseMoves DEF IInv
  <1>1. str[x][n] # "none" /\ UNCHANGED <<die, idle, counter>>
    BY <1>0, StreamCloseMoves DEF StreamClose, clientVars, IInv
  <1>2. CASE UNCHANGED str
    BY <1>1, <1>2, PoolStateSame, LiveSame, PoolStays DEF PoolStep
  <1>3. CASE str[x][n] # "dead" /\ str' = [str EXCEPT ![x][n] = "dead"]
    <2>1. n \in Live(x)
      <3>1. str[x][n] \in {"none", "made", "live", "used", "dead"}
        BY DEF IInv, TypeInv, StreamType
      <3> QED BY <3>1, <1>1, <1>3 DEF Live
    <2>2. /\ \A y \in Sessions : y # x => Live(y)' = Live(y)
          /\ Live(x)' = Live(x) \ {n}
      BY <1>3, LiveChange DEF IInv
    <2>3. Live(x) # {} /\ Live(x)' = {}
      BY <2>1, <2>2 DEF IInv, LeaseInv, OneLease
    <2> QED BY <1>1, <2>2, <2>3, PoolEnd DEF PoolStep
  <1> QED BY <1>0, <1>2, <1>3, StreamCloseMoves DEF IInv

\* The session comes back, unless it has been closed meanwhile.
LEMMA PoolHookInsert ==
  ASSUME IInv, NEW t \in Threads, HookInsert(t)
  PROVE  PoolStep
  <1>0. PICK x \in Sessions : x = sess[t] /\ x \in 1..counter
    BY HookInsertMoves DEF IInv
  <1>1. /\ pc[t] \in {"insert", "drop insert"}
        /\ idle' = idle \cup {x} /\ UNCHANGED <<die, counter, str>>
    BY <1>0, HookInsertMoves DEF IInv, HookInsert, clientVars, streamVars, closeVars
  <1>2. \A y \in Sessions : Live(y)' = Live(y)
    BY <1>1, LiveSame
  <1>3. \A y \in Sessions : y # x => PoolState(y)' = PoolState(y)
    BY <1>1 DEF PoolState
  <1>4. CASE x \in die
    <2>1. PoolState(x)' = PoolState(x)
      BY <1>1, <1>4 DEF PoolState
    <2> QED BY <1>2, <1>3, <2>1, PoolStays DEF PoolStep
  <1>5. CASE x \notin die
    <2>1. Holds(t, x)
      BY <1>0, <1>1 DEF Holds
    <2>2. Live(x) = {} /\ x \notin idle /\ x <= counter
      BY <1>0, <2>1 DEF IInv, LeaseInv, OneLease
    <2>3. PoolState(x) = "leased" /\ PoolState(x)' = "idle"
      BY <1>1, <1>5, <2>2 DEF PoolState
    <2>4. Pool!Becomes(x, "idle")
      BY <1>2, <1>3, <2>3, PoolBecomes
    <2>5. Pool!Return(x)
      BY <2>2, <2>3, <2>4 DEF Pool!Return, PoolState
    <2> QED BY <2>5 DEF PoolStep, Pool!Next
  <1> QED BY <1>4, <1>5

\* A session that is being closed leaves the pool's lists, and its streams end.
LEMMA PoolSessionClose ==
  ASSUME IInv, NEW x \in Sessions, SessionClose(x)
  PROVE  PoolStep
  <1>1. x \in die /\ UNCHANGED <<die, counter>>
    BY DEF SessionClose, CloseHook, CloseSweep, clientVars, IInv, TypeInv, CloseType
  <1>2. CASE CloseHook(x)
    <2>1. idle' = idle \ {x} /\ UNCHANGED str
      BY <1>2 DEF CloseHook, streamVars
    <2>2. \A y \in Sessions : PoolState(y)' = PoolState(y)
      BY <1>1, <2>1 DEF PoolState
    <2> QED BY <2>1, <2>2, LiveSame, PoolStays DEF PoolStep
  <1>3. CASE CloseSweep(x)
    <2>1. /\ str' = [str EXCEPT ![x] = [n \in Sids |-> IF n \in streams[x] THEN "dead" ELSE str[x][n]]]
          /\ UNCHANGED idle
      BY <1>3 DEF CloseSweep, clientVars, IInv, TypeInv, StreamType
    <2>2. \A y \in Sessions, m \in Sids :
            str'[y][m] = IF y = x /\ m \in streams[x] THEN "dead" ELSE str[y][m]
      BY <2>1 DEF IInv, TypeInv, StreamType
    <2>3. (\A y \in Sessions : y # x => Live(y)' = Live(y)) /\ Live(x)' \subseteq Live(x)
      BY <2>2 DEF Live
    <2>4. Live(x)' = Live(x) \/ Live(x)' = {}
      BY <2>3 DEF IInv, LeaseInv, OneLease
    <2>5. CASE Live(x)' = Live(x)
      BY <1>1, <2>1, <2>3, <2>5, PoolStateSame, PoolStays DEF PoolStep
    <2>6. CASE Live(x)' = {} /\ Live(x) # {}
      BY <1>1, <2>1, <2>3, <2>6, PoolEnd DEF PoolStep
    <2> QED BY <2>4, <2>5, <2>6
  <1> QED BY <1>2, <1>3 DEF SessionClose

\* Every step of the client is a step of the pool, or none.
LEMMA PoolNext ==
  ASSUME IInv, [Next]_vars
  PROVE  [Pool!Next]_Pool!vars
  <1>0. TypeInv
    BY DEF IInv
  <1>a. ASSUME UNCHANGED <<die, idle, counter, str>>
        PROVE  PoolStep
    BY <1>a, PoolStateSame, LiveSame, PoolStays DEF PoolStep
  <1>1. ASSUME NEW c \in Callers, CreateStream(c) \/ Send(c)
        PROVE  PoolStep
    <2>1. CASE Create(c) \/ DialFail(c) \/ Open(c)
      BY <2>1, <1>a DEF Create, DialFail, Open, clientVars, closeVars, streamVars
    <2>2. CASE GetIdle(c)
      <3>1. UNCHANGED <<die, counter, str>> /\ \E X \in SUBSET idle : idle' = idle \ X
        <4>1. idle' = idle \ {} \/ \E y \in idle : idle' = idle \ {y}
          BY <2>2, <1>0, GetIdleMoves
        <4> QED BY <2>2, <4>1 DEF GetIdle, closeVars, streamVars
      <3> QED BY <1>0, <3>1, PoolTake
    <2>3. CASE CreateFail(c)
      BY <2>3, <1>0, CreateFailMoves, PoolClose DEF clientVars, streamVars
    <2>4. CASE SetHook(c) \/ Send(c)
      <3>0. PICK x \in Sessions, n \in Sids : x = sess[c] /\ n = sid[c]
        BY <2>4, <1>0, UseMoves
      <3>1. UNCHANGED <<die, idle, counter>>
        BY <2>4 DEF SetHook, Send, clientVars, closeVars
      <3>2. \/ str[x][n] \in {"made", "live"} /\ \E s \in {"live", "used"} : str' = [str EXCEPT ![x][n] = s]
            \/ str' = [str EXCEPT ![x][n] = str[x][n]]
        BY <2>4, <3>0 DEF SetHook, Send
      <3>3. \A y \in Sessions, m \in Sids :
              \/ str'[y][m] = str[y][m]
              \/ str[y][m] \in {"made", "live"} /\ str'[y][m] \in {"live", "used"}
        BY <3>2, <1>0 DEF TypeInv, StreamType
      <3>4. \A y \in Sessions : Live(y)' = Live(y)
        BY <3>3 DEF Live
      <3> QED BY <3>1, <3>4, PoolStateSame, PoolStays DEF PoolStep
    <2> QED BY <1>1, <2>1, <2>2, <2>3, <2>4, PoolCreateSession, PoolSyn DEF CreateStream
  <1>2. ASSUME NEW t \in Threads, StreamEnd(t)
        PROVE  PoolStep
    <2>1. CASE StreamFin(t)
      <3>1. /\ sess[t] \in 1..counter /\ UNCHANGED <<idle, counter, str>>
            /\ StartClose(sess[t], t) \/ UNCHANGED die
        BY <2>1, <1>0, StreamFinMoves DEF clientVars, closeVars
      <3> QED BY <1>0, <3>1, <1>a, PoolClose
    <2> QED BY <1>2, <2>1, PoolStreamClose, PoolHookInsert DEF StreamEnd
  <1>3. ASSUME NEW x \in Sessions, RecvLoop(x)
        PROVE  PoolStep
    <2>1. /\ x \in 1..counter /\ UNCHANGED <<idle, counter, str>>
          /\ StartClose(x, Recv(x)) \/ UNCHANGED die
      BY <1>3, <1>0, RecvMoves DEF RecvLoop, RecvSettings, RecvSynAck, RecvSynErr, RecvFin, RecvEnd,
                                   Acked, clientVars, closeVars, streamVars
    <2> QED BY <1>0, <2>1, <1>a, PoolClose
  <1>4. ASSUME NEW x \in Sessions, SessionClose(x)
        PROVE  PoolStep
    BY <1>4, PoolSessionClose
  <1>5. ASSUME NEW x \in Sessions,
               Reap(x) \/ \E n \in Sids : WatchdogFire(x, n) \/ WatchdogClose(x, n)
        PROVE  PoolStep
    <2>1. /\ UNCHANGED <<idle, counter, str>>
          /\ (StartClose(x, Other) /\ x \in 1..counter) \/ UNCHANGED die
      BY <1>5, <1>0 DEF Reap, WatchdogFire, WatchdogClose, clientVars, streamVars, TypeInv,
                        ClientType, CloseType, WatchType, Sessions
    <2> QED BY <1>0, <2>1, <1>a, PoolClose
  <1>6. ASSUME Tasks
        PROVE  PoolStep
    <2>1. CASE ContextDone \/ ClientSnapshot
      BY <2>1, <1>a DEF ContextDone, ClientSnapshot, closeVars, streamVars
    <2>2. CASE ClientCloseNext
      <3>1. \E x \in 1..counter : StartClose(x, Closer)
        BY <2>2, <1>0 DEF ClientCloseNext, TypeInv, CloseType
      <3> QED BY <2>2, <1>0, <3>1, PoolClose DEF ClientCloseNext, clientVars, streamVars
    <2>3. CASE CleanupClose
      <3>1. Newest(expired) \in 1..counter
        BY <2>3, <1>0, NewestIn, TypeInvTypeOK DEF CleanupClose, TypeInv, CloseType, TypeOK
      <3> QED BY <2>3, <1>0, <3>1, PoolClose DEF CleanupClose, clientVars, streamVars
    <2>4. ASSUME NEW S \in SUBSET idle, Cleanup(S)
          PROVE  PoolStep
      <3>1. \E X \in SUBSET idle : idle' = idle \ X
        BY <2>4 DEF Cleanup
      <3>2. UNCHANGED <<die, counter, str>>
        BY <2>4 DEF Cleanup, streamVars
      <3> QED BY <1>0, <3>1, <3>2, PoolTake
    <2> QED BY <1>6, <2>1, <2>2, <2>3, <2>4 DEF Tasks
  <1> SUFFICES PoolStep
    BY DEF PoolStep
  <1>7. CASE UNCHANGED vars
    <2>1. UNCHANGED <<die, idle, counter, str>>
      BY <1>7 DEF vars, clientVars, closeVars, streamVars
    <2> QED BY <2>1, <1>a
  <1>8. CASE Next
    <2>1. CASE \E c \in Callers : CreateStream(c) \/ Send(c)
      BY <2>1, <1>1
    <2>2. CASE \E t \in Threads : StreamEnd(t)
      BY <2>2, <1>2
    <2>3. ASSUME NEW x \in Sessions,
                 \/ RecvLoop(x) \/ SessionClose(x) \/ Reap(x)
                 \/ \E n \in Sids : WatchdogFire(x, n) \/ WatchdogClose(x, n)
          PROVE  PoolStep
      BY <2>3, <1>3, <1>4, <1>5
    <2> QED BY <1>8, <2>1, <2>2, <2>3, <1>6 DEF Next
  <1> QED BY <1>7, <1>8

\* The client's sessions keep what the pool promises: a session has one stream
\* at a time, comes back only when that stream is over, and is not used again
\* once it is closed (client.go:70-132).
THEOREM PoolImplemented == Spec => ImplementsPool
  <1>1. Init => Pool!Init
    BY PoolInit
  <1>2. IInv /\ [Next]_vars => [Pool!Next]_Pool!vars
    BY PoolNext
  <1> QED BY <1>1, <1>2, Invariance, PTL DEF Spec, ImplementsPool, Pool!Spec
=============================================================================
