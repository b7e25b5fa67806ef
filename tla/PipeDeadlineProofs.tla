------------------------- MODULE PipeDeadlineProofs -------------------------
(***************************************************************************)
(* What is proved of PipeDeadline, for any number of callers, of channels  *)
(* and of timers: no channel is closed twice, the channel says what the    *)
(* last Set asked for, and no blocked call waits on a forgotten channel.   *)
(***************************************************************************)
EXTENDS PipeDeadline, TLAPS

Holding == {"stop", "drain", "check", "apply"}
Pending == {"armed", "fired", "loaded"}

\* A Set beyond its first line holds d.mu, and its cancel is d.cancel.
LockInv ==
  \A s \in Setters : /\ pc[s] \in Holding <=> mu = s
                     /\ mu = s => cancel[s] = cur

\* Only d.timer is pending, and while it is, the channel is open; a callback
\* that runs is about to close that very channel.
TimerInv ==
  /\ \A t \in Timers : /\ tst[t] \in Pending => t = timer /\ cur \notin closed
                       /\ tst[t] = "loaded" => tch[t] = cur
  /\ timer # nil => /\ tst[timer] # "unused"
                    /\ tst[timer] = "done" => cur \in closed

\* What a Set knows of the timer at each of its steps.
StageInv ==
  /\ mu = nil /\ timer # nil => tst[timer] # "stopped"
  /\ \A s \in Setters :
       /\ pc[s] \in {"stop", "drain"} /\ timer # nil => tst[timer] # "stopped"
       /\ pc[s] = "drain" => timer # nil /\ tst[timer] # "armed"
       /\ pc[s] = "check" /\ timer # nil => tst[timer] \in {"stopped", "done"}
       /\ pc[s] = "apply" => timer = nil /\ (seen[s] <=> cur \in closed)

\* Every channel but the current one is closed.
ChanInv ==
  /\ used \ closed \subseteq {cur}
  /\ cur \in used
  /\ \A w \in Waiters : wch[w] # nil => wch[w] \in used

LastInv ==
  /\ mu = nil /\ last # "future" => timer = nil
  /\ DeadlineIsLastSet

IInv == TypeOK /\ LockInv /\ TimerInv /\ StageInv /\ ChanInv /\ LastInv /\ NoDoubleClose

\* MakePipeDeadline: an open channel and no timer (deadline.go:9-20).
LEMMA InitIInv == Init => IInv
  <1> SUFFICES ASSUME Init PROVE IInv
    OBVIOUS
  <1>1. TypeOK
    BY DEF Init, TypeOK
  <1>2. LockInv /\ TimerInv /\ StageInv /\ ChanInv
    BY DeadlineAssumption
    DEF Init, DeadlineAssumption, LockInv, TimerInv, StageInv, ChanInv, Holding, Pending
  <1>3. LastInv /\ NoDoubleClose
    BY DEF Init, LastInv, DeadlineIsLastSet, NoDoubleClose
  <1> QED BY <1>1, <1>2, <1>3 DEF IInv

\* A setter or a timer is not nil, so holding d.mu excludes its being free.
LEMMA NotNil == (\A s \in Setters : s # nil) /\ (\A t \in Timers : t # nil)
  BY DeadlineAssumption DEF DeadlineAssumption

-----------------------------------------------------------------------------
(* Set.                                                                    *)

\* A call of Set waits for d.mu (deadline.go:22-24).
LEMMA SetCallIInv ==
  ASSUME IInv, NEW s \in Setters, NEW a \in {"zero", "at"}, SetCall(s, a)
  PROVE  IInv'
  <1> USE DEF IInv, chanVars, timerVars
  <1>1. TypeOK'
    BY DEF SetCall, TypeOK
  <1>2. LockInv' /\ TimerInv' /\ StageInv' /\ ChanInv'
    BY DEF SetCall, TypeOK, LockInv, TimerInv, StageInv, ChanInv, Holding
  <1>3. LastInv' /\ NoDoubleClose'
    BY DEF SetCall, LastInv, DeadlineIsLastSet, NoDoubleClose
  <1> QED BY <1>1, <1>2, <1>3

\* With d.mu held, cancel is the current channel (deadline.go:23-26).
LEMMA SetLockIInv == ASSUME IInv, NEW s \in Setters, SetLock(s) PROVE IInv'
  <1> USE DEF IInv, chanVars, timerVars
  <1>1. TypeOK'
    BY DEF SetLock, TypeOK
  <1>2. LockInv' /\ TimerInv' /\ StageInv' /\ ChanInv'
    BY NotNil DEF SetLock, TypeOK, LockInv, TimerInv, StageInv, ChanInv, Holding
  <1>3. LastInv' /\ NoDoubleClose'
    BY NotNil DEF SetLock, LastInv, DeadlineIsLastSet, NoDoubleClose
  <1> QED BY <1>1, <1>2, <1>3

\* A timer is stopped before it fires, or Set waits for its callback
\* (deadline.go:27).
LEMMA SetStopIInv == ASSUME IInv, NEW s \in Setters, SetStop(s) PROVE IInv'
  <1> USE DEF IInv, chanVars
  <1>1. mu = s /\ pc[s] = "stop" /\ s # nil
    BY NotNil DEF SetStop, LockInv, Holding
  <1>2. TypeOK'
    BY DEF SetStop, TypeOK
  <1>3. LockInv' /\ ChanInv'
    BY <1>1 DEF SetStop, TypeOK, LockInv, ChanInv, Holding
  <1>4. TimerInv'
    BY DEF SetStop, TypeOK, TimerInv, Pending
  <1>5. StageInv'
    BY <1>1 DEF SetStop, TypeOK, LockInv, TimerInv, StageInv, Holding
  <1>6. LastInv' /\ NoDoubleClose'
    BY <1>1 DEF SetStop, LastInv, DeadlineIsLastSet, NoDoubleClose
  <1> QED BY <1>2, <1>3, <1>4, <1>5, <1>6

\* The callback has closed the channel (deadline.go:28).
LEMMA SetDrainIInv == ASSUME IInv, NEW s \in Setters, SetDrain(s) PROVE IInv'
  <1> USE DEF IInv, chanVars, timerVars
  <1>1. mu = s /\ pc[s] = "drain" /\ s # nil /\ cur \in closed
    BY NotNil DEF SetDrain, LockInv, Holding
  <1>2. TypeOK'
    BY DEF SetDrain, TypeOK
  <1>3. LockInv' /\ ChanInv' /\ TimerInv'
    BY <1>1 DEF SetDrain, TypeOK, LockInv, ChanInv, TimerInv, Holding
  <1>4. timer \in Timers /\ tst[timer] = "done"
    <2>1. timer # nil /\ tst[timer] # "armed" /\ tst[timer] # "stopped"
      BY <1>1 DEF StageInv
    <2>2. timer \in Timers /\ tst[timer] # "unused"
      BY <2>1 DEF TypeOK, TimerInv
    <2>3. tst[timer] # "fired" /\ tst[timer] # "loaded"
      BY <1>1, <2>2 DEF TimerInv, Pending
    <2> QED BY <2>1, <2>2, <2>3 DEF TypeOK
  <1>5. StageInv'
    BY <1>1, <1>4 DEF SetDrain, TypeOK, LockInv, StageInv, Holding
  <1>6. LastInv' /\ NoDoubleClose'
    BY <1>1 DEF SetDrain, LastInv, DeadlineIsLastSet, NoDoubleClose
  <1> QED BY <1>2, <1>3, <1>5, <1>6

\* The old timer is gone, and closed tells of the channel (deadline.go:30-32).
LEMMA SetCheckIInv == ASSUME IInv, NEW s \in Setters, SetCheck(s) PROVE IInv'
  <1> USE DEF IInv, chanVars
  <1>1. mu = s /\ pc[s] = "check" /\ s # nil /\ cancel[s] = cur
    BY NotNil DEF SetCheck, LockInv, Holding
  <1>2. TypeOK'
    BY DEF SetCheck, TypeOK
  <1>3. LockInv' /\ ChanInv'
    BY <1>1 DEF SetCheck, TypeOK, LockInv, ChanInv, Holding
  <1>4. \A t \in Timers : tst[t] \notin Pending
    <2>1. timer # nil => tst[timer] \notin Pending
      BY <1>1 DEF StageInv, Pending
    <2> QED BY <2>1, NotNil DEF TimerInv
  <1>5. TimerInv'
    BY <1>4 DEF SetCheck, TimerInv, Pending
  <1>6. StageInv'
    BY <1>1 DEF SetCheck, TypeOK, LockInv, StageInv, Holding
  <1>7. LastInv' /\ NoDoubleClose'
    BY <1>1 DEF SetCheck, LastInv, DeadlineIsLastSet, NoDoubleClose
  <1> QED BY <1>2, <1>3, <1>5, <1>6, <1>7

\* What holds when Set decides: no timer pends, and seen is right.
LEMMA ApplyFacts ==
  ASSUME IInv, NEW s \in Setters, pc[s] = "apply"
  PROVE  /\ mu = s /\ s # nil /\ cancel[s] = cur /\ timer = nil
         /\ seen[s] <=> cur \in closed
         /\ \A r \in Setters \ {s} : pc[r] \notin Holding
         /\ \A t \in Timers : tst[t] \notin Pending
  BY NotNil DEF IInv, TypeOK, LockInv, TimerInv, StageInv, Holding, Pending

\* A Set that returns lets go of d.mu, and nobody else held it.
LEMMA ReturnFacts ==
  ASSUME IInv, NEW s \in Setters, pc[s] = "apply",
         mu' = nil, pc' = [pc EXCEPT ![s] = "idle"]
  PROVE  LockInv' /\ \A r \in Setters : pc'[r] \notin Holding
  <1>1. pc'[s] \notin Holding
    BY DEF IInv, TypeOK, Holding
  <1>2. \A r \in Setters \ {s} : pc'[r] \notin Holding
    BY ApplyFacts DEF IInv, TypeOK
  <1>3. \A r \in Setters : pc'[r] \notin Holding
    BY <1>1, <1>2
  <1>4. LockInv'
    BY <1>3, NotNil DEF LockInv
  <1> QED BY <1>3, <1>4

\* What StageInv asks once nobody holds d.mu.
LEMMA ReturnStage ==
  ASSUME \A r \in Setters : pc'[r] \notin Holding,
         timer' # nil => tst'[timer'] # "stopped"
  PROVE  StageInv'
  BY DEF StageInv, Holding

\* A deadline that has expired gets a new channel, which is open
\* (deadline.go:33-39, 42-45).
LEMMA RenewFacts ==
  ASSUME IInv, NEW s \in Setters, pc[s] = "apply",
         IF seen[s] THEN Renew ELSE UNCHANGED <<cur, used>>,
         UNCHANGED <<closed, wch>>
  PROVE  /\ cur' \in Channels /\ used' \subseteq Channels /\ closed' \subseteq used'
         /\ cur' \notin closed' /\ ChanInv'
  <1> USE DEF IInv
  <1>1. CASE seen[s]
    BY <1>1, ApplyFacts DEF Renew, TypeOK, ChanInv
  <1>2. CASE ~seen[s]
    BY <1>2, ApplyFacts DEF TypeOK, ChanInv
  <1> QED BY <1>1, <1>2

\* Clearing the deadline leaves an open channel and no timer (deadline.go:33-39).
LEMMA SetZeroIInv == ASSUME IInv, NEW s \in Setters, SetZero(s) PROVE IInv'
  <1> USE DEF IInv, timerVars
  <1>1. /\ pc[s] = "apply" /\ mu' = nil /\ pc' = [pc EXCEPT ![s] = "idle"] /\ last' = "zero"
        /\ UNCHANGED <<arg, cancel, seen, wch, closed, panicked, timer, tst, tch>>
        /\ IF seen[s] THEN Renew ELSE UNCHANGED <<cur, used>>
    BY DEF SetZero, Return
  <1>2. ChanInv' /\ cur' \notin closed' /\ cur' \in Channels /\ used' \subseteq Channels
        /\ closed' \subseteq used'
    BY <1>1, RenewFacts
  <1>3. TypeOK'
    BY <1>1, <1>2 DEF TypeOK
  <1>4. LockInv' /\ StageInv'
    BY <1>1, ApplyFacts, ReturnFacts, ReturnStage
  <1>5. TimerInv'
    BY <1>1, ApplyFacts DEF TimerInv, Pending
  <1>6. LastInv' /\ NoDoubleClose'
    BY <1>1, <1>2, ApplyFacts DEF LastInv, DeadlineIsLastSet, NoDoubleClose
  <1> QED BY <1>2, <1>3, <1>4, <1>5, <1>6

\* A deadline to come leaves an open channel and one armed timer
\* (deadline.go:41-50).
LEMMA SetFutureIInv == ASSUME IInv, NEW s \in Setters, SetFuture(s) PROVE IInv'
  <1> USE DEF IInv
  <1>1. /\ pc[s] = "apply" /\ mu' = nil /\ pc' = [pc EXCEPT ![s] = "idle"] /\ last' = "future"
        /\ UNCHANGED <<arg, cancel, seen, wch, closed, panicked, tch>>
        /\ IF seen[s] THEN Renew ELSE UNCHANGED <<cur, used>>
    BY DEF SetFuture, Return
  <1> PICK t \in Timers : tst[t] = "unused" /\ tst' = [tst EXCEPT ![t] = "armed"] /\ timer' = t
    BY DEF SetFuture
  <1>2. ChanInv' /\ cur' \notin closed' /\ cur' \in Channels /\ used' \subseteq Channels
        /\ closed' \subseteq used'
    BY <1>1, RenewFacts
  <1>3. TypeOK'
    BY <1>1, <1>2 DEF TypeOK
  <1>4. tst'[t] = "armed" /\ \A r \in Timers \ {t} : tst'[r] = tst[r]
    BY DEF TypeOK
  <1>5. LockInv' /\ StageInv'
    BY <1>1, <1>4, ReturnFacts, ReturnStage
  <1>6. TimerInv'
    BY <1>1, <1>2, <1>4, ApplyFacts DEF TimerInv, Pending
  <1>7. LastInv' /\ NoDoubleClose'
    BY <1>1, <1>2, <1>4, NotNil DEF LastInv, DeadlineIsLastSet, NoDoubleClose
  <1> QED BY <1>2, <1>3, <1>5, <1>6, <1>7

\* A deadline that is over closes the channel, unless it is closed
\* (deadline.go:52-55).
LEMMA SetPastIInv == ASSUME IInv, NEW s \in Setters, SetPast(s) PROVE IInv'
  <1> USE DEF IInv, timerVars
  <1>1. /\ pc[s] = "apply" /\ mu' = nil /\ pc' = [pc EXCEPT ![s] = "idle"] /\ last' = "past"
        /\ UNCHANGED <<arg, cancel, seen, wch, cur, used, timer, tst, tch>>
    BY DEF SetPast, Return
  <1>2. closed' = closed \cup {cur} /\ panicked' = panicked
    <2>1. CASE seen[s]
      BY <1>1, <2>1, ApplyFacts DEF SetPast
    <2>2. CASE ~seen[s]
      <3>1. cur \notin closed /\ CloseChan(cur)
        BY <1>1, <2>2, ApplyFacts DEF SetPast
      <3>2. closed' = closed \cup {cur}
        BY <3>1 DEF CloseChan
      <3>3. panicked' = panicked
        BY <3>1 DEF CloseChan, TypeOK
      <3> QED BY <3>2, <3>3
    <2> QED BY <2>1, <2>2
  <1>3. TypeOK'
    BY <1>1, <1>2 DEF TypeOK, ChanInv
  <1>4. LockInv' /\ StageInv'
    BY <1>1, ApplyFacts, ReturnFacts, ReturnStage
  <1>5. TimerInv' /\ ChanInv'
    BY <1>1, <1>2, ApplyFacts DEF TimerInv, ChanInv, Pending
  <1>6. LastInv' /\ NoDoubleClose'
    BY <1>1, <1>2, ApplyFacts DEF LastInv, DeadlineIsLastSet, NoDoubleClose
  <1> QED BY <1>3, <1>4, <1>5, <1>6

-----------------------------------------------------------------------------
(* The timer and the calls that wait.                                      *)

\* The timer that fires, and whose callback loads the channel, is d.timer, and
\* the channel is the current one (deadline.go:46-47).
LEMMA FireIInv == ASSUME IInv, NEW t \in Timers, Fire(t) \/ CallbackLoad(t) PROVE IInv'
  <1> USE DEF IInv, chanVars, setVars
  <1>1. tst[t] \in {"armed", "fired"} /\ t = timer /\ cur \notin closed
    BY DEF Fire, CallbackLoad, TimerInv, Pending
  <1>2. TypeOK'
    BY DEF Fire, CallbackLoad, TypeOK
  <1>3. /\ tst' = [tst EXCEPT ![t] = tst'[t]] /\ tst'[t] \in {"fired", "loaded"}
        /\ \A r \in Timers \ {t} : tst'[r] = tst[r] /\ tch'[r] = tch[r]
        /\ tst'[t] = "loaded" => tch'[t] = cur
        /\ UNCHANGED <<cur, used, closed, timer, mu, pc, arg, cancel, seen, last, wch>>
    BY DEF Fire, CallbackLoad, TypeOK
  <1>4. panicked' = panicked
    BY DEF Fire, CallbackLoad
  <1>5. LockInv' /\ ChanInv'
    BY <1>3 DEF LockInv, ChanInv
  <1>6. TimerInv'
    BY <1>1, <1>3 DEF TimerInv, Pending
  <1>7. StageInv'
    BY <1>1, <1>3 DEF StageInv
  <1>8. LastInv' /\ NoDoubleClose'
    BY <1>1, <1>3, <1>4 DEF LastInv, DeadlineIsLastSet, NoDoubleClose
  <1> QED BY <1>2, <1>5, <1>6, <1>7, <1>8

\* The callback closes an open channel, the current one (deadline.go:46-48).
LEMMA CallbackCloseIInv == ASSUME IInv, NEW t \in Timers, CallbackClose(t) PROVE IInv'
  <1> USE DEF IInv, setVars
  <1>1. tst[t] = "loaded" /\ t = timer /\ cur \notin closed /\ tch[t] = cur
    BY DEF CallbackClose, TimerInv, Pending
  <1>2. closed' = closed \cup {cur}
    BY <1>1 DEF CallbackClose, CloseChan
  <1>3. panicked' = panicked
    BY <1>1 DEF CallbackClose, CloseChan, TypeOK
  <1>4. /\ tst'[t] = "done" /\ \A r \in Timers \ {t} : tst'[r] = tst[r]
        /\ UNCHANGED <<cur, used, timer, tch, mu, pc, arg, cancel, seen, last, wch>>
    BY DEF CallbackClose, TypeOK
  <1>5. TypeOK'
    BY <1>2, <1>3 DEF CallbackClose, TypeOK, ChanInv
  <1>6. LockInv' /\ ChanInv'
    BY <1>2, <1>4 DEF LockInv, ChanInv
  <1>7. TimerInv'
    BY <1>1, <1>2, <1>4 DEF TimerInv, Pending
  <1>8. StageInv'
    BY <1>1, <1>2, <1>4, NotNil DEF StageInv
  <1>9. LastInv' /\ NoDoubleClose'
    BY <1>1, <1>2, <1>3, <1>4, NotNil DEF LastInv, DeadlineIsLastSet, NoDoubleClose
  <1> QED BY <1>5, <1>6, <1>7, <1>8, <1>9

\* A call blocks on the current channel, and forgets it (deadline.go:57-60).
LEMMA WaitIInv ==
  ASSUME IInv, NEW w \in Waiters, WaitBegin(w) \/ WaitTimeout(w) \/ WaitOver(w)
  PROVE  IInv'
  <1> USE DEF IInv, chanVars, timerVars, setVars
  <1>1. TypeOK'
    BY DEF WaitBegin, WaitTimeout, WaitOver, TypeOK
  <1>2. ChanInv'
    BY DEF WaitBegin, WaitTimeout, WaitOver, TypeOK, ChanInv
  <1>3. LockInv' /\ TimerInv' /\ StageInv'
    BY DEF WaitBegin, WaitTimeout, WaitOver, LockInv, TimerInv, StageInv
  <1>4. LastInv' /\ NoDoubleClose'
    BY DEF WaitBegin, WaitTimeout, WaitOver, LastInv, DeadlineIsLastSet, NoDoubleClose
  <1> QED BY <1>1, <1>2, <1>3, <1>4

-----------------------------------------------------------------------------
\* Every step of Set, of a timer and of a waiting call keeps the invariant.
LEMMA NextIInv == IInv /\ [Next]_vars => IInv'
  <1> SUFFICES ASSUME IInv, [Next]_vars PROVE IInv'
    OBVIOUS
  <1>1. ASSUME NEW s \in Setters,
               (\E a \in {"zero", "at"} : SetCall(s, a)) \/ SetLock(s) \/ SetHolding(s)
        PROVE  IInv'
    BY <1>1, SetCallIInv, SetLockIInv, SetStopIInv, SetDrainIInv, SetCheckIInv, SetZeroIInv,
       SetFutureIInv, SetPastIInv DEF SetHolding
  <1>2. ASSUME NEW t \in Timers, Fire(t) \/ Callback(t) PROVE IInv'
    BY <1>2, FireIInv, CallbackCloseIInv DEF Callback
  <1>3. ASSUME NEW w \in Waiters, WaitBegin(w) \/ WaitTimeout(w) \/ WaitOver(w) PROVE IInv'
    BY <1>3, WaitIInv
  <1>4. CASE UNCHANGED vars
    <2> USE <1>4 DEF vars, chanVars, timerVars, setVars, IInv
    <2>1. TypeOK' /\ LockInv' /\ TimerInv' /\ StageInv' /\ ChanInv'
      BY DEF TypeOK, LockInv, TimerInv, StageInv, ChanInv
    <2>2. LastInv' /\ NoDoubleClose'
      BY DEF LastInv, DeadlineIsLastSet, NoDoubleClose
    <2> QED BY <2>1, <2>2
  <1> QED BY <1>1, <1>2, <1>3, <1>4 DEF Next

\* The inductive invariant of a deadline.
THEOREM Invariance == Spec => []IInv
  BY InitIInv, NextIInv, PTL DEF Spec

\* Types of the deadline, its timers and the calls of Set.
THEOREM TypeCorrect == Spec => []TypeOK
  <1>1. IInv => TypeOK
    BY DEF IInv
  <1> QED BY <1>1, Invariance, PTL

\* close never meets a closed channel, so nothing panics (deadline.go:46-55).
THEOREM ClosedOnce == Spec => []NoDoubleClose
  <1>1. IInv => NoDoubleClose
    BY DEF IInv
  <1> QED BY <1>1, Invariance, PTL

\* A call that blocked before Set waits on the channel Set works on
\* (deadline.go:33-50, io_pipe.go:134-148).
THEOREM WaitersFollow == Spec => []WaiterOnCurrentChannel
  <1>1. IInv => WaiterOnCurrentChannel
    BY DEF IInv, ChanInv, WaiterOnCurrentChannel
  <1> QED BY <1>1, Invariance, PTL

\* Between two calls the channel tells what the last Set asked for
\* (deadline.go:22-56).
THEOREM ChannelIsDeadline == Spec => []DeadlineIsLastSet
  <1>1. IInv => DeadlineIsLastSet
    BY DEF IInv, LastInv
  <1> QED BY <1>1, Invariance, PTL
=============================================================================
