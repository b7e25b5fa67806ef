--------------------------- MODULE NodeLifecycle ---------------------------
(***************************************************************************)
(* The life of a node: Server.Start and Server.Close                       *)
(* (internal/app/server/server.go), the state file (state.go) and the      *)
(* signal handler and deferred shutdown of cmd/server/main.go.             *)
(*                                                                         *)
(* Start runs on the main goroutine and Close on the signal's or, when     *)
(* Start returns, on main's; closeOnce lets one of them through.  The      *)
(* panel and the state file outlive the process, which may crash anywhere. *)
(***************************************************************************)
EXTENDS FiniteSets

CONSTANTS
  RegIds,   \* the register ids the panel hands out
  NoReg,    \* no register id
  Nodes     \* node ids the configuration may name

ASSUME NodeAssumption == NoReg \notin RegIds

VARIABLES
  file,      \* the state file: a register id and a node id, or NoState
  regs,      \* registrations the panel holds
  issued,    \* register ids it has handed out
  expired,   \* registrations the panel dropped by itself (history)
  pc,        \* where Start is, "off" when there is no process
  node,      \* the node id of this process
  saved,     \* the state Start has loaded
  rid,       \* Start's registerID
  srid,      \* s.registerID
  ctx,       \* s.ctx is cancelled
  listeners, \* the addresses s.listeners listens on
  users,     \* s.userService: "none", "made", "running", "stopped"
  sig,       \* the signal handler has been used
  cl,        \* how far Close is: "no", "unregister", ..., "done"
  unreg,     \* how Unregister ended: "no", "ok", "err"
  lost,      \* registrations a crash has made the node forget (history)
  fault      \* an answer, a file or a configuration was lost (history)

panelVars   == <<regs, issued, expired>>
startVars   == <<node, saved, rid, users, listeners>>
closeVars   == <<sig, cl, unreg, ctx>>
histVars    == <<lost, fault>>
vars == <<file, panelVars, pc, startVars, srid, closeVars, histVars>>

NoState == [id |-> NoReg, node |-> NoReg]
\* Faulty variant: the node id is left out.
BadState(i) == [id |-> i, node |-> NoReg]

State(i) == [id |-> i, node |-> node]

Memory ==
  /\ saved = NoState /\ rid = NoReg /\ srid = NoReg /\ ctx = FALSE
  /\ listeners = {} /\ users = "none" /\ sig = FALSE /\ cl = "no" /\ unreg = "no"

Init ==
  /\ file = NoState /\ regs = {} /\ issued = {} /\ expired = {}
  /\ pc = "off" /\ node \in Nodes /\ Memory
  /\ lost = {} /\ fault = FALSE

-----------------------------------------------------------------------------
(* Server.Start.                                                           *)

Boot ==
  /\ pc = "off" /\ pc' = "load"
  /\ node' \in Nodes
  /\ UNCHANGED <<file, panelVars, saved, rid, users, listeners, srid, closeVars, histVars>>

\* A file that cannot be read is as good as none.
StartLoad ==
  /\ pc = "load" /\ pc' = "config"
  /\ \/ saved' = file /\ fault' = fault
     \/ file # NoState /\ saved' = NoState /\ fault' = TRUE
  /\ UNCHANGED <<file, panelVars, node, rid, users, listeners, srid, closeVars, lost>>

Usable == saved # NoState /\ saved.node = node

\* Config: without an answer Start returns.
StartConfig ==
  /\ pc = "config"
  /\ \/ ~ctx /\ pc' = IF Usable THEN "verify" ELSE "register"
     \/ pc' = "return"
  /\ UNCHANGED <<file, panelVars, startVars, srid, closeVars, histVars>>

\* ClearState, which may fail.
Clear == file' = NoState \/ file' = file

\* Faulty variant: a saved register id is trusted.
BadStartVerify ==
  /\ pc = "verify"
  /\ rid' = saved.id /\ pc' = "publish"
  /\ UNCHANGED <<file, panelVars, node, saved, users, listeners, srid, closeVars, histVars>>

StartVerify ==
  /\ pc = "verify"
  /\ \/ /\ ~ctx /\ saved.id \in regs
        /\ rid' = saved.id /\ pc' = "publish"
        /\ UNCHANGED <<file, fault>>
     \/ /\ ~ctx /\ saved.id \notin regs
        /\ Clear /\ pc' = "register"
        /\ UNCHANGED <<rid, fault>>
     \/ /\ Clear /\ pc' = "register" /\ fault' = TRUE
        /\ UNCHANGED rid
  /\ UNCHANGED <<panelVars, node, saved, users, listeners, srid, closeVars, lost>>

\* Register; the answer may be lost after the panel has registered the node.
StartRegister ==
  /\ pc = "register"
  /\ \/ /\ ~ctx
        /\ \E i \in RegIds \ issued :
             rid' = i /\ regs' = regs \cup {i} /\ issued' = issued \cup {i}
        /\ pc' = "save" /\ fault' = fault
     \/ /\ pc' = "return"
        /\ UNCHANGED <<rid, regs, issued, fault>>
     \/ /\ \E i \in RegIds \ issued : regs' = regs \cup {i} /\ issued' = issued \cup {i}
        /\ pc' = "return" /\ fault' = TRUE
        /\ UNCHANGED rid
  /\ UNCHANGED <<file, expired, node, saved, users, listeners, srid, closeVars, lost>>

\* SaveState: a temporary file, then a rename; a failure is only logged.  The
\* state of another node is overwritten.
StartSave ==
  /\ pc = "save" /\ pc' = "publish"
  /\ \/ file' = State(rid) /\ fault' = (fault \/ (file # NoState /\ file.node # node))
     \/ file' = file /\ fault' = TRUE
  /\ UNCHANGED <<panelVars, startVars, srid, closeVars, lost>>

StartPublish ==
  /\ pc = "publish" /\ pc' = "prepare"
  /\ srid' = rid
  /\ UNCHANGED <<file, panelVars, startVars, closeVars, histVars>>

\* Certificate, ACL, user service, validation, outbound: each may fail.
StartPrepare ==
  /\ pc = "prepare"
  /\ \/ users' = "made" /\ pc' \in {"listen", "return"}
     \/ users' = users /\ pc' = "return"
  /\ UNCHANGED <<file, panelVars, node, saved, rid, listeners, srid, closeVars, histVars>>

Listeners == {"tcp4", "tcp6"}

\* listenDualStack goes on with the listeners it gets, if there is any.
StartListen ==
  /\ pc = "listen"
  /\ \/ listeners' \in SUBSET Listeners \ {{}} /\ pc' = "users"
     \/ listeners' = listeners /\ pc' = "return"
  /\ UNCHANGED <<file, panelVars, node, saved, rid, users, srid, closeVars, histVars>>

\* userService.Start fetches the users under the service's own context.
StartUsers ==
  /\ pc = "users"
  /\ \/ users = "made" /\ users' = "running" /\ pc' = "accept"
     \/ users' = users /\ pc' = "return"
  /\ UNCHANGED <<file, panelVars, node, saved, rid, listeners, srid, closeVars, histVars>>

\* The accept loop of a listener ends when the listener is closed, and Start
\* waits for all of them.
StartAcceptEnd ==
  /\ pc = "accept" /\ listeners = {}
  /\ pc' = "return"
  /\ UNCHANGED <<file, panelVars, startVars, srid, closeVars, histVars>>

-----------------------------------------------------------------------------
(* Server.Close: by the signal handler, or deferred in main.               *)

Signal ==
  /\ pc # "off" /\ ~sig
  /\ sig' = TRUE
  /\ cl' = IF cl = "no" THEN "unregister" ELSE cl
  /\ UNCHANGED <<file, panelVars, pc, startVars, srid, unreg, ctx, histVars>>

DeferredClose ==
  /\ pc = "return" /\ cl = "no"
  /\ cl' = "unregister"
  /\ UNCHANGED <<file, panelVars, pc, startVars, srid, sig, unreg, ctx, histVars>>

\* Faulty variant: the file is cleared whether or not Unregister succeeds.
BadCloseUnregister ==
  /\ cl = "unregister" /\ cl' = "clear"
  /\ regs' = regs \ {srid} \/ regs' = regs
  /\ unreg' = "ok"
  /\ UNCHANGED <<file, issued, expired, pc, startVars, srid, sig, ctx, histVars>>

\* Unregister, if there is something to unregister; an error may hide a success.
CloseUnregister ==
  /\ cl = "unregister"
  /\ \/ /\ srid = NoReg
        /\ cl' = "cancel" /\ UNCHANGED <<regs, unreg>>
     \/ /\ srid # NoReg
        /\ regs' = regs \ {srid}
        /\ cl' = "clear" /\ unreg' = "ok"
     \/ /\ srid # NoReg
        /\ regs' = regs \/ regs' = regs \ {srid}
        /\ cl' = "cancel" /\ unreg' = "err"
  /\ UNCHANGED <<file, issued, expired, pc, startVars, srid, sig, ctx, histVars>>

CloseClear ==
  /\ cl = "clear" /\ cl' = "cancel"
  /\ Clear
  /\ UNCHANGED <<panelVars, pc, startVars, srid, sig, unreg, ctx, histVars>>

CloseCancel ==
  /\ cl = "cancel" /\ cl' = "listeners"
  /\ ctx' = TRUE
  /\ UNCHANGED <<file, panelVars, pc, startVars, srid, sig, unreg, histVars>>

\* Faulty variant: the first listener is closed, and the others stay open.
BadCloseListeners ==
  /\ cl = "listeners" /\ cl' = "users"
  /\ IF listeners = {}
     THEN listeners' = listeners
     ELSE \E l \in listeners : listeners' = listeners \ {l}
  /\ UNCHANGED <<file, panelVars, pc, node, saved, rid, users, srid, sig, unreg, ctx, histVars>>

\* Every listener there is at this moment.
CloseListeners ==
  /\ cl = "listeners" /\ cl' = "users"
  /\ listeners' = {}
  /\ UNCHANGED <<file, panelVars, pc, node, saved, rid, users, srid, sig, unreg, ctx, histVars>>

CloseUsers ==
  /\ cl = "users" /\ cl' = "done"
  /\ users' = IF users = "none" THEN users ELSE "stopped"
  /\ UNCHANGED <<file, panelVars, pc, node, saved, rid, listeners, srid, sig, unreg, ctx, histVars>>

-----------------------------------------------------------------------------
(* The end of a process, and the panel.                                    *)

Forget ==
  /\ saved' = NoState /\ rid' = NoReg /\ srid' = NoReg /\ ctx' = FALSE
  /\ listeners' = {} /\ users' = "none" /\ sig' = FALSE /\ cl' = "no" /\ unreg' = "no"
  /\ pc' = "off" /\ node' = node

\* main returns when Start has and its own call of Close is over.
Exit ==
  /\ pc = "return" /\ cl = "done"
  /\ Forget
  /\ UNCHANGED <<file, panelVars, histVars>>

\* A crash between Register and SaveState loses the registration.
Crash ==
  /\ pc # "off"
  /\ Forget
  /\ lost' = IF pc = "save" THEN lost \cup {rid} ELSE lost
  /\ UNCHANGED <<file, panelVars, fault>>

Expire ==
  \E i \in regs :
    /\ regs' = regs \ {i} /\ expired' = expired \cup {i}
    /\ UNCHANGED <<file, issued, pc, startVars, srid, closeVars, histVars>>

-----------------------------------------------------------------------------
Start ==
  \/ StartLoad \/ StartConfig \/ StartVerify \/ StartRegister \/ StartSave \/ StartPublish
  \/ StartPrepare \/ StartListen \/ StartUsers \/ StartAcceptEnd \/ DeferredClose \/ Exit

Close == CloseUnregister \/ CloseClear \/ CloseCancel \/ CloseListeners \/ CloseUsers

Next == Boot \/ Start \/ Signal \/ Close \/ Crash \/ Expire

Spec == Init /\ [][Next]_vars

\* Calls to the panel return, so the two goroutines go on.
FairSpec == Spec /\ WF_vars(Start) /\ WF_vars(Close)

-----------------------------------------------------------------------------
(* Properties.                                                             *)

States == [id : RegIds, node : Nodes] \cup {NoState}

FlagsOK == ctx \in BOOLEAN /\ sig \in BOOLEAN /\ fault \in BOOLEAN

\* Types of all the variables.
TypeOK ==
  /\ file \in States /\ saved \in States
  /\ regs \subseteq issued /\ issued \subseteq RegIds
  /\ expired \subseteq issued /\ lost \subseteq issued
  /\ pc \in {"off", "load", "config", "verify", "register", "save", "publish", "prepare",
             "listen", "users", "accept", "return"}
  /\ node \in Nodes /\ rid \in RegIds \cup {NoReg} /\ srid \in RegIds \cup {NoReg}
  /\ FlagsOK
  /\ listeners \subseteq Listeners /\ users \in {"none", "made", "running", "stopped"}
  /\ cl \in {"no", "unregister", "clear", "cancel", "listeners", "users", "done"}
  /\ unreg \in {"no", "ok", "err"}

\* A node that accepts connections is registered, unless the panel has dropped
\* it or Close has begun: whatever crashes left a state file behind, an id is
\* used only after the panel has confirmed it (server.go:118-162).
AcceptsRegistered ==
  pc = "accept" /\ cl = "no" => srid \in regs \cup expired /\ srid # NoReg

\* Without lost answers and files, every registration the panel holds is in the
\* state file or in the process, even after a crash, a restart or an Unregister
\* that failed, but for a crash just before SaveState (server.go:144-165, 295-310).
RemembersRegistration == ~fault => regs \subseteq {file.id, rid, srid} \cup lost

\* A node that is closed while it accepts connections stops: every one of its
\* listeners is closed, so all accept loops and Start return, and main ends
\* (server.go:250-269, 311-318).
CloseStopsNode == pc = "accept" /\ cl = "unregister" ~> pc = "off"

\* "so that Close() can unregister even if a later step fails" (server.go:164):
\* a process that ends has unregistered, unless Unregister failed.
UnregisteredAtExit ==
  pc = "return" /\ cl = "done" /\ srid # NoReg => srid \notin regs \/ unreg = "err"

\* "close all the listeners" (server.go:313): after Close nothing listens.
NoListenerAfterClose == cl = "done" => listeners = {}
=============================================================================
