------------------------ MODULE NodeLifecycleProofs ------------------------
(***************************************************************************)
(* What is proved of NodeLifecycle, for any number of registrations and    *)
(* node ids: a node that accepts connections is registered, and without    *)
(* lost answers no registration is forgotten but in one place.             *)
(***************************************************************************)
EXTENDS NodeLifecycle, TLAPS

Before == {"off", "load", "config", "verify", "register"}
Serving == {"prepare", "listen", "users", "accept"}

\* Ids in files and variables are ids the panel has handed out.
IdsInv ==
  /\ {file.id, saved.id, rid} \subseteq issued \cup {NoReg}
  /\ pc \in Before => rid = NoReg /\ srid = NoReg
  /\ pc \in {"save", "publish"} => rid # NoReg /\ srid = NoReg
  /\ pc \in Serving => rid # NoReg
  /\ pc \in Serving \cup {"return"} => srid = rid

\* Until Close begins, the id Start goes on with is one the panel has confirmed.
ConfirmedInv == cl = "no" /\ rid # NoReg => rid \in regs \cup expired

\* Close clears the file only after Unregister has succeeded.
ClearInv == cl = "clear" => srid # NoReg /\ srid \notin regs

\* What the file says of the registrations, step by step of Start.
FileInv ==
  /\ pc \in {"config", "verify"} => saved = file
  /\ pc \in {"register", "save"} /\ file # NoState /\ file.node = node => file.id \notin regs
  /\ pc \in Serving \cup {"publish", "return"} =>
       /\ rid \in regs => file.id = rid
       /\ rid # NoReg => file.id \in {rid, NoReg}
  /\ regs \subseteq {file.id, rid, srid} \cup lost

IInv == TypeOK /\ IdsInv /\ ConfirmedInv /\ ClearInv /\ (~fault => FileInv)

\* A file holds an id of the panel, or nothing.
LEMMA StateFacts ==
  /\ NoReg \notin RegIds
  /\ NoState \in States /\ NoState.id = NoReg
  /\ \A s \in States : s # NoState => s.id \in RegIds
  /\ \A i : State(i).id = i /\ State(i).node = node
  BY NodeAssumption DEF NodeAssumption, States, NoState, State

\* The panel knows no node that has never run.
LEMMA InitIInv == Init => IInv
  <1> SUFFICES ASSUME Init PROVE IInv
    OBVIOUS
  <1>1. TypeOK
    <2>1. FlagsOK
      BY DEF Init, Memory, FlagsOK
    <2> QED BY <2>1, StateFacts DEF Init, Memory, TypeOK
  <1>2. IdsInv /\ ConfirmedInv /\ ClearInv /\ FileInv
    BY StateFacts DEF Init, Memory, IdsInv, ConfirmedInv, ClearInv, FileInv, Before, Serving
  <1> QED BY <1>1, <1>2 DEF IInv

-----------------------------------------------------------------------------
(* Start.                                                                  *)

\* Nothing is known of the panel before Start has loaded the file
\* (server.go:95-100).
LEMMA LoadIInv == ASSUME IInv, Boot \/ StartLoad PROVE IInv'
  <1> USE DEF IInv, panelVars, closeVars, histVars
  <1>1. TypeOK'
    <2>1. FlagsOK'
      BY DEF Boot, StartLoad, TypeOK, FlagsOK
    <2> QED BY <2>1, StateFacts DEF Boot, StartLoad, TypeOK
  <1>2. IdsInv'
    BY StateFacts DEF Boot, StartLoad, IdsInv, Before, Serving
  <1>3. ConfirmedInv' /\ ClearInv'
    BY DEF Boot, StartLoad, IdsInv, ConfirmedInv, ClearInv, Before
  <1>4. ~fault' => FileInv'
    BY DEF Boot, StartLoad, IdsInv, FileInv, Before, Serving
  <1> QED BY <1>1, <1>2, <1>3, <1>4

\* Without the configuration Start returns (server.go:102-116).
LEMMA ConfigIInv == ASSUME IInv, StartConfig PROVE IInv'
  <1> USE DEF IInv, panelVars, startVars, closeVars, histVars
  <1>1. TypeOK'
    <2>1. FlagsOK'
      BY DEF StartConfig, TypeOK, FlagsOK
    <2> QED BY <2>1 DEF StartConfig, TypeOK
  <1>2. IdsInv'
    BY DEF StartConfig, IdsInv, Before, Serving
  <1>3. ConfirmedInv' /\ ClearInv'
    BY DEF StartConfig, ConfirmedInv, ClearInv
  <1>4. ~fault' => FileInv'
    <2>1. rid = NoReg /\ NoReg \notin regs
      BY StateFacts DEF StartConfig, TypeOK, IdsInv, Before
    <2> QED BY <2>1 DEF StartConfig, Usable, FileInv, Before, Serving
  <1> QED BY <1>1, <1>2, <1>3, <1>4

\* A saved id goes on only if the panel confirms it (server.go:118-141).
LEMMA VerifyIInv == ASSUME IInv, StartVerify PROVE IInv'
  <1> USE DEF IInv, panelVars, closeVars
  <1>1. rid = NoReg /\ srid = NoReg /\ cl # "clear"
    BY DEF StartVerify, IdsInv, ClearInv, Before
  <1>2. TypeOK'
    <2>1. FlagsOK'
      BY DEF StartVerify, Clear, TypeOK, FlagsOK
    <2> QED BY <2>1, StateFacts DEF StartVerify, Clear, TypeOK
  <1>3. IdsInv'
    BY <1>1, StateFacts DEF StartVerify, Clear, TypeOK, IdsInv, Before, Serving
  <1>4. ConfirmedInv' /\ ClearInv'
    BY <1>1 DEF StartVerify, ConfirmedInv, ClearInv
  <1>5. ~fault' => FileInv'
    BY <1>1, StateFacts DEF StartVerify, Clear, TypeOK, FileInv, Serving
  <1> QED BY <1>2, <1>3, <1>4, <1>5

\* A new registration has an id no file holds (server.go:143-150).
LEMMA RegisterIInv == ASSUME IInv, StartRegister PROVE IInv'
  <1> USE DEF IInv, closeVars
  <1>1. rid = NoReg /\ srid = NoReg /\ NoReg \notin regs
    BY StateFacts DEF StartRegister, TypeOK, IdsInv, Before
  <1>2. TypeOK'
    <2>1. FlagsOK'
      BY DEF StartRegister, TypeOK, FlagsOK
    <2> QED BY <2>1 DEF StartRegister, TypeOK
  <1>3. IdsInv'
    BY <1>1, StateFacts DEF StartRegister, IdsInv, Before, Serving
  <1>4. ConfirmedInv' /\ ClearInv'
    BY <1>1 DEF StartRegister, ConfirmedInv, ClearInv
  <1>5. ~fault' => FileInv'
    BY <1>1, StateFacts DEF StartRegister, TypeOK, IdsInv, FileInv, Serving
  <1> QED BY <1>2, <1>3, <1>4, <1>5

\* What SaveState overwrites is nobody's registration (server.go:152-161).
LEMMA SaveIInv == ASSUME IInv, StartSave PROVE IInv'
  <1> USE DEF IInv, panelVars, startVars, closeVars
  <1>1. rid \in RegIds /\ rid \in issued /\ srid = NoReg
    BY DEF StartSave, TypeOK, IdsInv
  <1>2. State(rid) \in States
    BY <1>1 DEF StartSave, TypeOK, States, State
  <1>3. TypeOK'
    <2>1. FlagsOK'
      BY DEF StartSave, TypeOK, FlagsOK
    <2> QED BY <2>1, <1>2 DEF StartSave, TypeOK
  <1>4. IdsInv'
    BY <1>1, StateFacts DEF StartSave, IdsInv, Before, Serving
  <1>5. ConfirmedInv' /\ ClearInv'
    BY DEF StartSave, ConfirmedInv, ClearInv
  <1>6. ~fault' => FileInv'
    BY <1>1, StateFacts DEF StartSave, TypeOK, FileInv, Serving
  <1> QED BY <1>3, <1>4, <1>5, <1>6

\* Start hands its id to Close (server.go:164-165).
LEMMA PublishIInv == ASSUME IInv, StartPublish PROVE IInv'
  <1> USE DEF IInv, panelVars, startVars, closeVars, histVars
  <1>1. TypeOK'
    <2>1. FlagsOK'
      BY DEF StartPublish, TypeOK, FlagsOK
    <2> QED BY <2>1 DEF StartPublish, TypeOK
  <1>2. IdsInv' /\ ConfirmedInv' /\ ClearInv'
    BY DEF StartPublish, IdsInv, ConfirmedInv, ClearInv, Before, Serving
  <1>3. ~fault' => FileInv'
    <2>1. srid = NoReg /\ NoReg \notin regs
      BY StateFacts DEF StartPublish, TypeOK, IdsInv
    <2> QED BY <2>1 DEF StartPublish, FileInv, Serving
  <1> QED BY <1>1, <1>2, <1>3

\* The rest of Start leaves file and panel alone (server.go:171-270).
LEMMA ServeIInv ==
  ASSUME IInv, StartPrepare \/ StartListen \/ StartUsers \/ StartAcceptEnd
  PROVE  IInv'
  <1> USE DEF IInv, panelVars, startVars, closeVars, histVars
  <1>1. TypeOK'
    <2>1. FlagsOK'
      BY DEF StartPrepare, StartListen, StartUsers, StartAcceptEnd, TypeOK, FlagsOK
    <2> QED BY <2>1 DEF StartPrepare, StartListen, StartUsers, StartAcceptEnd, TypeOK
  <1>2. /\ pc \in Serving /\ pc' \in Serving \cup {"return"}
        /\ UNCHANGED <<file, saved, node, rid, srid, regs, issued, expired, cl, lost, fault>>
    BY DEF StartPrepare, StartListen, StartUsers, StartAcceptEnd, Serving
  <1>3. IdsInv' /\ ConfirmedInv' /\ ClearInv'
    BY <1>2 DEF IdsInv, ConfirmedInv, ClearInv, Before, Serving
  <1>4. ~fault' => FileInv'
    BY <1>2 DEF FileInv, Serving
  <1> QED BY <1>1, <1>3, <1>4

-----------------------------------------------------------------------------
(* Close, the end of the process, and the panel.                           *)

\* Close begins: nothing is unregistered yet (server.go:295-296).
LEMMA BeginCloseIInv == ASSUME IInv, Signal \/ DeferredClose PROVE IInv'
  <1> USE DEF IInv, panelVars, startVars, histVars
  <1>1. TypeOK'
    <2>1. FlagsOK'
      BY DEF Signal, DeferredClose, TypeOK, FlagsOK
    <2> QED BY <2>1 DEF Signal, DeferredClose, TypeOK
  <1>2. /\ UNCHANGED <<file, saved, node, rid, srid, pc, regs, issued, expired, lost, fault>>
        /\ cl' = cl \/ (cl = "no" /\ cl' = "unregister")
    <2>1. UNCHANGED <<fault, lost>>
      BY DEF Signal, DeferredClose
    <2> QED BY <2>1 DEF Signal, DeferredClose
  <1>3. IdsInv' /\ ConfirmedInv' /\ ClearInv' /\ (~fault' => FileInv')
    BY <1>2 DEF IdsInv, ConfirmedInv, ClearInv, FileInv
  <1> QED BY <1>1, <1>3

\* Close keeps the file until Unregister has succeeded (server.go:295-310).
LEMMA CloseIInv == ASSUME IInv, Close PROVE IInv'
  <1> USE DEF IInv, panelVars, startVars, histVars
  <1>1. TypeOK'
    <2>1. FlagsOK'
      BY DEF Close, CloseUnregister, CloseClear, Clear, CloseCancel, CloseListeners, CloseUsers, TypeOK, FlagsOK
    <2> QED BY <2>1, StateFacts DEF Close, CloseUnregister, CloseClear, Clear, CloseCancel, CloseListeners, CloseUsers, TypeOK
  <1>2. CASE CloseUnregister
    <2>1. IdsInv' /\ ConfirmedInv' /\ ClearInv' /\ (~fault' => FileInv')
      BY <1>2 DEF CloseUnregister, IdsInv, ConfirmedInv, ClearInv, FileInv
    <2> QED BY <1>1, <2>1
  <1>3. CASE CloseClear
    <2>1. /\ file' = NoState \/ file' = file
          /\ cl = "clear" /\ cl' = "cancel"
          /\ UNCHANGED <<saved, node, rid, srid, pc, regs, issued, expired, lost, fault>>
      BY <1>3 DEF CloseClear, Clear
    <2>2. srid # NoReg /\ srid \notin regs /\ srid = rid /\ pc \in Serving \cup {"return"}
      BY <2>1 DEF TypeOK, IdsInv, ClearInv, Before, Serving
    <2>3. IdsInv' /\ ConfirmedInv' /\ ClearInv'
      BY <2>1, StateFacts DEF IdsInv, ConfirmedInv, ClearInv
    <2>4. ~fault' => FileInv'
      <3>1. ~fault => regs \subseteq lost \cup {NoReg}
        BY <2>2 DEF FileInv, Serving
      <3> QED BY <2>1, <2>2, <3>1, StateFacts DEF FileInv, Serving
    <2> QED BY <1>1, <2>3, <2>4
  <1>4. CASE CloseCancel \/ CloseListeners \/ CloseUsers
    <2>1. /\ cl # "no" /\ cl' \notin {"no", "clear"}
          /\ UNCHANGED <<file, saved, node, rid, srid, pc, regs, issued, expired, lost, fault>>
      BY <1>4 DEF CloseCancel, CloseListeners, CloseUsers
    <2>2. IdsInv' /\ ConfirmedInv' /\ ClearInv' /\ (~fault' => FileInv')
      BY <2>1 DEF IdsInv, ConfirmedInv, ClearInv, FileInv
    <2> QED BY <1>1, <2>2
  <1> QED BY <1>2, <1>3, <1>4 DEF Close

\* A process that ends leaves its registration in the file, or is lost with it
\* before SaveState (server.go:144-161).
LEMMA EndIInv == ASSUME IInv, Exit \/ Crash PROVE IInv'
  <1> USE DEF IInv, panelVars, histVars
  <1>1. /\ saved' = NoState /\ rid' = NoReg /\ srid' = NoReg /\ pc' = "off" /\ cl' = "no"
        /\ UNCHANGED <<file, regs, issued, expired, fault>>
        /\ lost' = IF pc = "save" THEN lost \cup {rid} ELSE lost
    BY DEF Exit, Crash, Forget
  <1>2. TypeOK'
    <2>1. FlagsOK'
      BY DEF Exit, Crash, Forget, IdsInv, TypeOK, FlagsOK
    <2> QED BY <2>1, StateFacts DEF Exit, Crash, Forget, IdsInv, TypeOK
  <1>3. IdsInv' /\ ConfirmedInv' /\ ClearInv'
    BY <1>1, StateFacts DEF IdsInv, ConfirmedInv, ClearInv, Before, Serving
  <1>4. ~fault' => FileInv'
    <2>1. srid \in {NoReg, rid} /\ NoReg \notin regs /\ (pc \in Before => rid = NoReg)
      BY StateFacts DEF TypeOK, IdsInv, Before, Serving
    <2>2. ~fault => rid \notin regs \/ file.id = rid \/ pc = "save"
      BY <2>1 DEF TypeOK, FileInv, Before, Serving
    <2> QED BY <1>1, <2>1, <2>2 DEF FileInv, Serving
  <1> QED BY <1>2, <1>3, <1>4

\* The panel may drop a registration at any time.
LEMMA ExpireIInv == ASSUME IInv, Expire PROVE IInv'
  <1> USE DEF IInv, startVars, closeVars, histVars
  <1>1. /\ UNCHANGED <<file, saved, node, rid, srid, pc, cl, issued, lost, fault>>
        /\ regs' \subseteq regs /\ regs \cup expired \subseteq regs' \cup expired'
    BY DEF Expire
  <1>2. TypeOK'
    <2>1. FlagsOK'
      BY DEF Expire, TypeOK, FlagsOK
    <2> QED BY <2>1 DEF Expire, TypeOK
  <1>3. IdsInv' /\ ConfirmedInv' /\ ClearInv' /\ (~fault' => FileInv')
    BY <1>1 DEF IdsInv, ConfirmedInv, ClearInv, FileInv
  <1> QED BY <1>2, <1>3

\* Every step of the node, of its end and of the panel keeps the invariant.
LEMMA NextIInv == IInv /\ [Next]_vars => IInv'
  <1> SUFFICES ASSUME IInv, [Next]_vars PROVE IInv'
    OBVIOUS
  <1>1. CASE Boot \/ Start
    BY <1>1, LoadIInv, ConfigIInv, VerifyIInv, RegisterIInv, SaveIInv, PublishIInv, ServeIInv,
       BeginCloseIInv, EndIInv DEF Start
  <1>2. CASE Signal \/ Close \/ Crash \/ Expire
    BY <1>2, BeginCloseIInv, CloseIInv, EndIInv, ExpireIInv
  <1>3. CASE UNCHANGED vars
    <2>1. UNCHANGED <<file, saved, node, rid, srid, pc, cl, regs, issued, expired, lost, fault>>
      BY <1>3 DEF vars, panelVars, startVars, closeVars, histVars
    <2>2. TypeOK'
      <3>1. FlagsOK'
        BY <1>3 DEF IInv, TypeOK, FlagsOK, vars, closeVars, histVars
      <3> QED BY <1>3, <3>1 DEF IInv, TypeOK, vars, panelVars, startVars, closeVars, histVars
    <2>3. IdsInv' /\ ConfirmedInv' /\ ClearInv' /\ (~fault' => FileInv')
      BY <2>1 DEF IInv, IdsInv, ConfirmedInv, ClearInv, FileInv
    <2> QED BY <2>2, <2>3 DEF IInv
  <1> QED BY <1>1, <1>2, <1>3 DEF Next

\* The inductive invariant of Start, Close and the state file.
THEOREM Invariance == Spec => []IInv
  BY InitIInv, NextIInv, PTL DEF Spec

\* Types of the files, the registrations and the two goroutines.
THEOREM TypeCorrect == Spec => []TypeOK
  <1>1. IInv => TypeOK
    BY DEF IInv
  <1> QED BY <1>1, Invariance, PTL

\* A node that accepts connections has an id the panel has confirmed
\* (server.go:118-162).
THEOREM AcceptingIsRegistered == Spec => []AcceptsRegistered
  <1>1. IInv => AcceptsRegistered
    BY DEF IInv, IdsInv, ConfirmedInv, AcceptsRegistered, Serving
  <1> QED BY <1>1, Invariance, PTL

\* Without lost answers and files, no registration is forgotten but by a crash
\* between Register and SaveState (server.go:144-165, 295-310).
THEOREM NothingForgotten == Spec => []RemembersRegistration
  <1>1. IInv => RemembersRegistration
    BY DEF IInv, FileInv, RemembersRegistration
  <1> QED BY <1>1, Invariance, PTL
=============================================================================
