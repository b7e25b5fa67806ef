---------------------------- MODULE PipeDeadline ----------------------------
(***************************************************************************)
(* The deadline of a pipe or stream: internal/pkg/proxy/pipe/deadline.go.  *)
(*                                                                         *)
(* Set runs under d.mu; the timer's callback and the readers of d.cancel   *)
(* run without it.  A deadline that expires closes the channel d.cancel    *)
(* points to, and a blocked call waits on the channel it loaded when it    *)
(* blocked.  Time is left out: an armed timer may fire at any moment.      *)
(***************************************************************************)
EXTENDS Naturals, FiniteSets

CONSTANTS
  Setters,   \* goroutines that call Set
  Waiters,   \* goroutines blocked in a call the deadline applies to
  Channels,  \* the channels made over the deadline's life
  Timers,    \* the timers made over the deadline's life
  nil

ASSUME DeadlineAssumption == nil \notin Setters \cup Channels \cup Timers

VARIABLES
  mu,        \* who holds d.mu, or nil
  cur,       \* *d.cancel
  timer,     \* d.timer
  used,      \* channels made so far
  closed,    \* channels closed so far
  tst,       \* what has become of each timer
  tch,       \* the channel a running callback has loaded
  panicked,  \* a closed channel was closed again
  pc,        \* where each setter is in Set
  arg,       \* its argument: no deadline ("zero") or a point in time ("at")
  cancel,    \* its local variable cancel
  seen,      \* its local variable closed
  last,      \* what the last Set that returned asked for
  wch        \* the channel each blocked call waits on, or nil

chanVars  == <<cur, used, closed, panicked>>
timerVars == <<timer, tst, tch>>
setVars   == <<mu, pc, arg, cancel, seen, last>>
vars == <<chanVars, timerVars, setVars, wch>>

Init ==
  /\ mu = nil /\ timer = nil /\ closed = {} /\ panicked = FALSE /\ last = "zero"
  /\ cur \in Channels /\ used = {cur}
  /\ tst = [t \in Timers |-> "unused"]
  /\ tch = [t \in Timers |-> nil]
  /\ pc = [s \in Setters |-> "idle"]
  /\ arg = [s \in Setters |-> "zero"]
  /\ cancel = [s \in Setters |-> nil]
  /\ seen = [s \in Setters |-> FALSE]
  /\ wch = [w \in Waiters |-> nil]

\* close(c) panics on a channel that is closed already.
CloseChan(c) ==
  /\ closed' = closed \cup {c}
  /\ panicked' = (panicked \/ c \in closed)

\* A fresh channel is stored in d.cancel.
Renew ==
  \E c \in Channels \ used :
    /\ cur' = c
    /\ used' = used \cup {c}

-----------------------------------------------------------------------------
(* Faulty variants, used to see that the properties notice them.           *)

\* Set does not wait for a callback that has already started.
BadSetStop(s) ==
  /\ pc[s] = "stop"
  /\ IF timer # nil /\ tst[timer] = "armed"
     THEN tst' = [tst EXCEPT ![timer] = "stopped"]
     ELSE tst' = tst
  /\ pc' = [pc EXCEPT ![s] = "check"]
  /\ UNCHANGED <<chanVars, timer, tch, mu, arg, cancel, seen, last, wch>>

\* A stopped timer stays in d.timer.
BadSetCheck(s) ==
  /\ pc[s] = "check"
  /\ seen' = [seen EXCEPT ![s] = cancel[s] \in closed]
  /\ pc' = [pc EXCEPT ![s] = "apply"]
  /\ UNCHANGED <<chanVars, timerVars, mu, arg, cancel, last, wch>>

\* Clearing the deadline keeps the closed channel.
BadSetZero(s) ==
  /\ pc[s] = "apply" /\ arg[s] = "zero"
  /\ mu' = nil /\ pc' = [pc EXCEPT ![s] = "idle"] /\ last' = "zero"
  /\ UNCHANGED <<chanVars, timerVars, arg, cancel, seen, wch>>

\* Every new deadline gets a new channel, whoever waits on the old one.
BadSetFuture(s) ==
  /\ pc[s] = "apply" /\ arg[s] = "at"
  /\ Renew
  /\ \E t \in Timers :
        /\ tst[t] = "unused"
        /\ tst' = [tst EXCEPT ![t] = "armed"]
        /\ timer' = t
  /\ mu' = nil /\ pc' = [pc EXCEPT ![s] = "idle"] /\ last' = "future"
  /\ UNCHANGED <<closed, panicked, tch, arg, cancel, seen, wch>>

\* The callback closes a variable nothing was loaded into.
BadCallbackLoad(t) ==
  /\ tst[t] = "fired"
  /\ tst' = [tst EXCEPT ![t] = "loaded"]
  /\ UNCHANGED <<chanVars, timer, tch, setVars, wch>>

-----------------------------------------------------------------------------
(* PipeDeadline.Set.                                                       *)

\* Bound: a call begins only while the finite pools have a channel and a
\* timer for it and for every call in progress.
PoolsLast ==
  LET busy == Cardinality({s \in Setters : pc[s] # "idle"}) IN
  /\ busy < Cardinality(Channels \ used)
  /\ busy < Cardinality({t \in Timers : tst[t] = "unused"})

\* SetReadDeadline refuses once the pipe is closed; SetWriteDeadline of a stream
\* (stream.go:110) does not, and neither does the model.
SetCall(s, a) ==
  /\ pc[s] = "idle"
  /\ PoolsLast
  /\ pc' = [pc EXCEPT ![s] = "lock"]
  /\ arg' = [arg EXCEPT ![s] = a]
  /\ UNCHANGED <<chanVars, timerVars, mu, cancel, seen, last, wch>>

SetLock(s) ==
  /\ pc[s] = "lock" /\ mu = nil
  /\ mu' = s
  /\ cancel' = [cancel EXCEPT ![s] = cur]
  /\ pc' = [pc EXCEPT ![s] = "stop"]
  /\ UNCHANGED <<chanVars, timerVars, arg, seen, last, wch>>

\* timer.Stop reports whether it kept the timer from firing.  If it did not,
\* Set waits, holding d.mu, for the callback to close the channel.
SetStop(s) ==
  /\ pc[s] = "stop"
  /\ IF timer # nil /\ tst[timer] = "armed"
     THEN tst' = [tst EXCEPT ![timer] = "stopped"]
     ELSE tst' = tst
  /\ pc' = [pc EXCEPT ![s] =
              IF timer # nil /\ tst[timer] # "armed" THEN "drain" ELSE "check"]
  /\ UNCHANGED <<chanVars, timer, tch, mu, arg, cancel, seen, last, wch>>

SetDrain(s) ==
  /\ pc[s] = "drain"
  /\ cancel[s] \in closed
  /\ pc' = [pc EXCEPT ![s] = "check"]
  /\ UNCHANGED <<chanVars, timerVars, mu, arg, cancel, seen, last, wch>>

SetCheck(s) ==
  /\ pc[s] = "check"
  /\ timer' = nil
  /\ seen' = [seen EXCEPT ![s] = cancel[s] \in closed]
  /\ pc' = [pc EXCEPT ![s] = "apply"]
  /\ UNCHANGED <<chanVars, tst, tch, mu, arg, cancel, last, wch>>

\* The three ways Set ends; each releases d.mu.
Return(s, outcome) ==
  /\ pc[s] = "apply"
  /\ mu' = nil
  /\ pc' = [pc EXCEPT ![s] = "idle"]
  /\ last' = outcome
  /\ UNCHANGED <<arg, cancel, seen, wch>>

SetZero(s) ==
  /\ arg[s] = "zero"
  /\ Return(s, "zero")
  /\ IF seen[s] THEN Renew ELSE UNCHANGED <<cur, used>>
  /\ UNCHANGED <<closed, panicked, timerVars>>

SetFuture(s) ==
  /\ arg[s] = "at"
  /\ Return(s, "future")
  /\ IF seen[s] THEN Renew ELSE UNCHANGED <<cur, used>>
  /\ \E t \in Timers :
        /\ tst[t] = "unused"
        /\ tst' = [tst EXCEPT ![t] = "armed"]
        /\ timer' = t
  /\ UNCHANGED <<closed, panicked, tch>>

SetPast(s) ==
  /\ arg[s] = "at"
  /\ Return(s, "past")
  /\ IF seen[s] THEN UNCHANGED <<closed, panicked>> ELSE CloseChan(cancel[s])
  /\ UNCHANGED <<cur, used, timerVars>>

-----------------------------------------------------------------------------
(* The timer's goroutine: load d.cancel, then close what it points to.     *)

Fire(t) ==
  /\ tst[t] = "armed"
  /\ tst' = [tst EXCEPT ![t] = "fired"]
  /\ UNCHANGED <<chanVars, timer, tch, setVars, wch>>

CallbackLoad(t) ==
  /\ tst[t] = "fired"
  /\ tst' = [tst EXCEPT ![t] = "loaded"]
  /\ tch' = [tch EXCEPT ![t] = cur]
  /\ UNCHANGED <<chanVars, timer, setVars, wch>>

CallbackClose(t) ==
  /\ tst[t] = "loaded"
  /\ tst' = [tst EXCEPT ![t] = "done"]
  /\ CloseChan(tch[t])
  /\ UNCHANGED <<cur, used, timer, tch, setVars, wch>>

-----------------------------------------------------------------------------
(* A call under the deadline: it blocks on Wait(), and ends with a timeout *)
(* or for a reason of its own.                                             *)

WaitBegin(w) ==
  /\ wch[w] = nil
  /\ wch' = [wch EXCEPT ![w] = cur]
  /\ UNCHANGED <<chanVars, timerVars, setVars>>

WaitTimeout(w) ==
  /\ wch[w] \in closed
  /\ wch' = [wch EXCEPT ![w] = nil]
  /\ UNCHANGED <<chanVars, timerVars, setVars>>

WaitOver(w) ==
  /\ wch[w] # nil
  /\ wch' = [wch EXCEPT ![w] = nil]
  /\ UNCHANGED <<chanVars, timerVars, setVars>>

-----------------------------------------------------------------------------
SetHolding(s) ==
  SetStop(s) \/ SetDrain(s) \/ SetCheck(s) \/ SetZero(s) \/ SetFuture(s) \/ SetPast(s)
Callback(t) == CallbackLoad(t) \/ CallbackClose(t)

Next ==
  \/ \E s \in Setters :
        \/ \E a \in {"zero", "at"} : SetCall(s, a)
        \/ SetLock(s)
        \/ SetHolding(s)
  \/ \E t \in Timers : Fire(t) \/ Callback(t)
  \/ \E w \in Waiters : WaitBegin(w) \/ WaitTimeout(w) \/ WaitOver(w)

Spec == Init /\ [][Next]_vars

\* Goroutines that can run do run, sync.Mutex serves a waiting goroutine
\* in the end (its starvation mode), and the time of a timer comes.
Fairness ==
  /\ \A s \in Setters : SF_vars(SetLock(s)) /\ WF_vars(SetHolding(s))
  /\ \A t \in Timers : WF_vars(Fire(t)) /\ WF_vars(Callback(t))
  /\ \A w \in Waiters : WF_vars(WaitTimeout(w))

FairSpec == Spec /\ Fairness

-----------------------------------------------------------------------------
(* What must hold.                                                         *)

TypeOK ==
  /\ mu \in Setters \cup {nil} /\ cur \in Channels /\ timer \in Timers \cup {nil}
  /\ used \subseteq Channels /\ closed \subseteq used /\ panicked \in BOOLEAN
  /\ tst \in [Timers -> {"unused", "armed", "fired", "loaded", "done", "stopped"}]
  /\ tch \in [Timers -> Channels \cup {nil}]
  /\ pc \in [Setters -> {"idle", "lock", "stop", "drain", "check", "apply"}]
  /\ arg \in [Setters -> {"zero", "at"}]
  /\ cancel \in [Setters -> Channels \cup {nil}]
  /\ seen \in [Setters -> BOOLEAN]
  /\ last \in {"zero", "future", "past"}
  /\ wch \in [Waiters -> Channels \cup {nil}]

\* No channel is closed twice: the second close would panic in the timer's
\* goroutine, where nothing recovers, or in the caller of Set.
NoDoubleClose == ~panicked

\* A call blocked on a channel that is still open hears the next expiry:
\* Set replaces only channels that are closed.
WaiterOnCurrentChannel ==
  \A w \in Waiters : wch[w] # nil /\ wch[w] \notin closed => wch[w] = cur

\* Between two calls of Set the channel says what the last one asked for: a
\* cleared deadline has not expired, a past one has, and a future one has
\* expired only through its own timer, never through an earlier one's.
DeadlineIsLastSet ==
  mu = nil =>
    /\ last = "zero" => cur \notin closed
    /\ last = "past" => cur \in closed
    /\ last = "future" =>
         /\ timer # nil
         /\ cur \in closed <=> tst[timer] = "done"

\* Set returns, although it waits for a callback while it holds d.mu.
SetReturns == \A s \in Setters : pc[s] # "idle" ~> pc[s] = "idle"

\* A blocked call is released when the deadline's time comes, unless the
\* deadline is changed before.
DeadlineReleasesWaiter ==
  \A w \in Waiters :
    wch[w] # nil /\ mu = nil /\ last = "future" ~> wch[w] = nil \/ mu # nil
=============================================================================
