-------------------------- MODULE UserAccessProofs --------------------------
(***************************************************************************)
(* What is proved of UserAccess, for every set of connections, credentials *)
(* and lists: the registry keeps no closed session, CloseAll closes only   *)
(* sessions whose credential is revoked, and the store becomes the list.   *)
(***************************************************************************)
EXTENDS UserAccess, TLAPS

Deleted == Without(userList, new)
Added   == Without(new, userList)

\* A connection that has authenticated has the id some list gives its credential.
Identified ==
  \A c \in Sessions : st[c] \in {"authed", "registered", "run"} =>
    uid[c] \in Ids /\ \E l \in Lists : l[cred[c]] = uid[c]

\* The registry files a session under its own id, and a session that is being
\* closed is still in it only if the hook is about to take it out.
RegistryInv ==
  /\ \A i \in Ids, c \in Sessions : <<i, c>> \in conns => i = uid[c] /\ Registered(c)
  /\ \A c \in Sessions :
       /\ st[c] = "run" => hook[c]
       /\ cl[c] # "open" => Registered(c)
       /\ cl[c] # "open" /\ <<uid[c], c>> \in conns => cl[c] = "hook" /\ hook[c]

\* What CloseAll is to close has the id of the credential just deleted, and is
\* not in the registry any more.
CloseAllInv ==
  /\ fetch # "closing" => todo = {} /\ closing = {}
  /\ \A c \in todo \cup closing : Registered(c) /\ uid[c] = user /\ <<uid[c], c>> \notin conns
  /\ fetch \in {"snapshot", "closing"} =>
       user \in Ids /\ \A u \in Uuids : userList[u] = user => store[u] = NoId

\* How far the store is from the list fetched last to the new one.
StoreInv ==
  /\ fetch = "idle" => work = {} /\ store = userList
  /\ fetch # "idle" => new \in Lists
  /\ fetch \in {"delete", "snapshot", "closing"} =>
       /\ work \subseteq Deleted
       /\ \A u \in Uuids : store[u] = IF u \in Deleted \ work THEN NoId ELSE userList[u]
  /\ fetch = "add" =>
       /\ work \subseteq Added
       /\ \A u \in Uuids : store[u] = IF u \in Deleted THEN NoId
                                      ELSE IF u \in Added \ work THEN new[u] ELSE userList[u]

IInv == TypeOK /\ Identified /\ RegistryInv /\ CloseAllInv /\ StoreInv

\* The lists map credentials to ids, and some id is nobody's.
LEMMA ListType == /\ \A l \in Lists : l \in [Uuids -> Ids \cup {NoId}]
                  /\ NoId \notin Ids
  BY UserAccessAssumption DEF UserAccessAssumption

\* Whatever the store accepts, some list lists (users.go:109-137).
LEMMA StoreFromLists ==
  ASSUME TypeOK, StoreInv
  PROVE  \A u \in Uuids : Has(store, u) => \E l \in Lists : l[u] = store[u]
  <1>1. userList \in Lists
    BY DEF TypeOK
  <1>2. CASE fetch = "idle"
    BY <1>1, <1>2 DEF StoreInv
  <1>3. CASE fetch \in {"delete", "snapshot", "closing"}
    BY <1>1, <1>3 DEF StoreInv, Has
  <1>4. CASE fetch = "add"
    BY <1>1, <1>4 DEF StoreInv, Has
  <1> QED BY <1>2, <1>3, <1>4 DEF TypeOK

\* Before the first fetch the store is the list UsersService.init has loaded.
LEMMA InitIInv == Init => IInv
  <1> SUFFICES ASSUME Init PROVE IInv
    OBVIOUS
  <1>1. TypeOK
    BY ListType DEF Init, TypeOK
  <1>2. Identified /\ RegistryInv /\ CloseAllInv /\ StoreInv
    BY DEF Init, Identified, RegistryInv, CloseAllInv, StoreInv, Registered
  <1> QED BY <1>1, <1>2 DEF IInv

-----------------------------------------------------------------------------
(* The connection.                                                         *)

\* A connection gets the id of the credential it presents (inbound_tcp.go:54-69).
LEMMA AuthIInv == ASSUME IInv, NEW c \in Sessions, Auth(c) PROVE IInv'
  <1> USE DEF IInv
  <1>1. TypeOK'
    BY DEF TypeOK, Auth, userVars, fetchVars
  <1>2. Identified'
    BY StoreFromLists, ListType DEF TypeOK, Identified, Auth, Has, userVars, fetchVars
  <1>3. RegistryInv'
    <2>1. cl[c] = "open" /\ \A i \in Ids : <<i, c>> \notin conns
      BY DEF TypeOK, RegistryInv, Auth, Registered
    <2>2. \A d \in Sessions \ {c} : st'[d] = st[d] /\ uid'[d] = uid[d]
      BY DEF TypeOK, Auth
    <2>3. st'[c] # "run" /\ UNCHANGED <<hook, cl, conns>>
      BY DEF TypeOK, Auth
    <2> QED BY <2>1, <2>2, <2>3 DEF RegistryInv, Registered
  <1>4. CloseAllInv'
    BY DEF TypeOK, CloseAllInv, Auth, Registered, userVars, fetchVars
  <1>5. StoreInv'
    BY DEF StoreInv, Auth, Deleted, Added, Without, Has, userVars, fetchVars
  <1> QED BY <1>1, <1>2, <1>3, <1>4, <1>5

\* A malformed first packet ends the connection (inbound_tcp.go:72-86).
LEMMA MalformedIInv == ASSUME IInv, NEW c \in Sessions, Malformed(c) PROVE IInv'
  <1> USE DEF IInv
  <1>1. TypeOK' /\ Identified' /\ RegistryInv' /\ CloseAllInv'
    BY DEF TypeOK, Identified, RegistryInv, CloseAllInv, Malformed, Registered, userVars, fetchVars
  <1>2. StoreInv'
    BY DEF StoreInv, Malformed, Deleted, Added, Without, Has, userVars, fetchVars
  <1> QED BY <1>1, <1>2

\* Add files the session under its own id (users.go:330-337).
LEMMA RegisterIInv == ASSUME IInv, NEW c \in Sessions, Register(c) PROVE IInv'
  <1> USE DEF IInv
  <1>1. uid[c] \in Ids /\ cl[c] = "open" /\ c \notin todo \cup closing
    BY DEF TypeOK, Identified, RegistryInv, CloseAllInv, Register, Registered
  <1>2. TypeOK'
    BY <1>1 DEF TypeOK, Register, userVars, fetchVars
  <1>3. Identified'
    BY DEF TypeOK, Identified, Register, userVars, fetchVars
  <1>4. RegistryInv'
    BY <1>1 DEF TypeOK, RegistryInv, Register, Registered, userVars, fetchVars
  <1>5. CloseAllInv'
    BY <1>1 DEF TypeOK, CloseAllInv, Register, Registered, userVars, fetchVars
  <1>6. StoreInv'
    BY DEF StoreInv, Register, Deleted, Added, Without, Has, userVars, fetchVars
  <1> QED BY <1>2, <1>3, <1>4, <1>5, <1>6

\* The hook is set before the session runs (inbound_tcp.go:129-137).
LEMMA SetDieHookIInv == ASSUME IInv, NEW c \in Sessions, SetDieHook(c) PROVE IInv'
  <1> USE DEF IInv
  <1>1. TypeOK' /\ Identified' /\ CloseAllInv'
    BY DEF TypeOK, Identified, CloseAllInv, SetDieHook, Registered, userVars, fetchVars
  <1>2. RegistryInv'
    BY DEF TypeOK, RegistryInv, SetDieHook, Registered, userVars, fetchVars
  <1>3. StoreInv'
    BY DEF StoreInv, SetDieHook, Deleted, Added, Without, Has, userVars, fetchVars
  <1> QED BY <1>1, <1>2, <1>3

\* A session that runs has its hook, so closing it may begin (session.go:181).
LEMMA EndOfSessionIInv == ASSUME IInv, NEW c \in Sessions, EndOfSession(c) PROVE IInv'
  <1> USE DEF IInv
  <1>1. TypeOK' /\ Identified' /\ CloseAllInv'
    BY DEF TypeOK, Identified, CloseAllInv, EndOfSession, Registered, userVars, fetchVars, connVars
  <1>2. RegistryInv'
    BY DEF TypeOK, RegistryInv, EndOfSession, Registered, userVars, fetchVars, connVars
  <1>3. StoreInv'
    BY DEF StoreInv, EndOfSession, Deleted, Added, Without, Has, userVars, fetchVars
  <1> QED BY <1>1, <1>2, <1>3

\* Past the hook, the session is not in the registry (users.go:339-348).
LEMMA CloseHookIInv == ASSUME IInv, NEW c \in Sessions, CloseHook(c) PROVE IInv'
  <1> USE DEF IInv
  <1>1. TypeOK' /\ Identified' /\ CloseAllInv'
    BY DEF TypeOK, Identified, CloseAllInv, CloseHook, Registered, userVars, fetchVars, connVars
  <1>2. RegistryInv'
    BY DEF TypeOK, RegistryInv, CloseHook, Registered, userVars, fetchVars, connVars
  <1>3. StoreInv'
    BY DEF StoreInv, CloseHook, Deleted, Added, Without, Has, userVars, fetchVars
  <1> QED BY <1>1, <1>2, <1>3

\* Closing the connection touches neither registry nor store (session.go:133-137).
LEMMA CloseConnIInv == ASSUME IInv, NEW c \in Sessions, CloseConn(c) PROVE IInv'
  <1> USE DEF IInv
  <1>1. TypeOK' /\ Identified' /\ CloseAllInv'
    BY DEF TypeOK, Identified, CloseAllInv, CloseConn, Registered, userVars, fetchVars, connVars
  <1>2. RegistryInv'
    BY DEF TypeOK, RegistryInv, CloseConn, Registered, userVars, fetchVars, connVars
  <1>3. StoreInv'
    BY DEF StoreInv, CloseConn, Deleted, Added, Without, Has, userVars, fetchVars
  <1> QED BY <1>1, <1>2, <1>3

-----------------------------------------------------------------------------
(* The fetch task.                                                         *)

\* A list is fetched: nothing is applied yet (users.go:109-123).
LEMMA FetchListIInv == ASSUME IInv, FetchList PROVE IInv'
  <1> USE DEF IInv
  <1>1. TypeOK' /\ Identified' /\ RegistryInv' /\ CloseAllInv'
    BY DEF TypeOK, Identified, RegistryInv, CloseAllInv, FetchList, Registered, Without,
           userVars, connVars
  <1>2. StoreInv'
    BY DEF StoreInv, FetchList, Deleted, Added, Without, Has, userVars
  <1> QED BY <1>1, <1>2

\* A credential leaves the store; no other credential of the list has its id
\* (users.go:216-221).
LEMMA FetchDeleteIInv == ASSUME IInv, FetchDelete PROVE IInv'
  <1> USE DEF IInv
  <1> PICK u \in work :
        /\ work' = work \ {u} /\ user' = userList[u] /\ store' = [store EXCEPT ![u] = NoId]
        /\ due' = due \cup {c \in Sessions : Registered(c) /\ cred[c] = u /\ cl[c] = "open"}
    BY DEF FetchDelete
  <1>1. /\ fetch = "delete" /\ fetch' = "snapshot"
        /\ UNCHANGED <<userList, new, todo, closing, connVars, cl, conns>>
    BY DEF FetchDelete
  <1>2. u \in Uuids /\ u \in Deleted /\ Has(userList, u) /\ userList \in Lists
    BY <1>1 DEF TypeOK, StoreInv, Deleted, Without
  <1>3. userList[u] \in Ids
    BY <1>2, ListType DEF Has
  <1>4. TypeOK' /\ Identified' /\ RegistryInv'
    BY <1>1, <1>3 DEF TypeOK, Identified, RegistryInv, Registered, connVars
  <1>5. \A v \in Uuids : store'[v] = IF v \in Deleted \ work' THEN NoId ELSE userList[v]
    BY <1>1, <1>2 DEF TypeOK, StoreInv
  <1>6. CloseAllInv'
    <2>1. \A v \in Uuids : userList[v] = userList[u] => v = u
      BY <1>2, PanelAssumption DEF PanelAssumption
    <2>2. store'[u] = NoId
      BY <1>2 DEF TypeOK
    <2> QED BY <1>1, <1>3, <2>1, <2>2 DEF CloseAllInv
  <1>7. StoreInv'
    BY <1>1, <1>5 DEF StoreInv, Deleted, Added, Without, Has
  <1> QED BY <1>4, <1>6, <1>7

\* CloseAll takes the id's sessions out of the registry (users.go:350-354).
LEMMA FetchSnapshotIInv == ASSUME IInv, FetchSnapshot PROVE IInv'
  <1> USE DEF IInv
  <1>1. /\ user \in Ids /\ conns' \subseteq conns
        /\ \A c \in todo' : c \in Sessions /\ <<user, c>> \in conns /\ <<user, c>> \notin conns'
    BY DEF TypeOK, CloseAllInv, FetchSnapshot
  <1>2. TypeOK' /\ Identified'
    BY <1>1 DEF TypeOK, Identified, FetchSnapshot, userVars, connVars
  <1>3. RegistryInv'
    BY <1>1 DEF TypeOK, RegistryInv, FetchSnapshot, Registered, connVars
  <1>4. CloseAllInv'
    BY <1>1 DEF TypeOK, RegistryInv, CloseAllInv, FetchSnapshot, Registered, userVars, connVars
  <1>5. StoreInv'
    BY DEF StoreInv, FetchSnapshot, Deleted, Added, Without, Has, userVars
  <1> QED BY <1>2, <1>3, <1>4, <1>5

\* Closing one of them, without the lock (users.go:356-358).
LEMMA FetchCloseIInv == ASSUME IInv, FetchClose PROVE IInv'
  <1> USE DEF IInv
  <1>1. TypeOK' /\ Identified' /\ CloseAllInv'
    BY DEF TypeOK, Identified, CloseAllInv, FetchClose, Registered, userVars, connVars
  <1>2. RegistryInv'
    BY DEF TypeOK, RegistryInv, CloseAllInv, FetchClose, Registered, connVars
  <1>3. StoreInv'
    BY DEF StoreInv, FetchClose, Deleted, Added, Without, Has, userVars
  <1> QED BY <1>1, <1>2, <1>3

\* The task goes from one session, one credential, one half to the next.
LEMMA FetchGoesOnIInv ==
  ASSUME IInv, FetchClosed \/ FetchNext \/ FetchDeleted
  PROVE  IInv'
  <1> USE DEF IInv
  <1>1. TypeOK' /\ Identified' /\ RegistryInv' /\ CloseAllInv'
    BY DEF TypeOK, Identified, RegistryInv, CloseAllInv, FetchClosed, FetchNext, FetchDeleted,
           Registered, Without, userVars, connVars
  <1>2. StoreInv'
    <2>1. CASE FetchClosed
      BY <2>1 DEF StoreInv, FetchClosed, Deleted, Added, Without, Has, userVars
    <2>2. CASE FetchNext
      BY <2>2 DEF StoreInv, FetchNext, Deleted, Added, Without, Has, userVars
    <2>3. CASE FetchDeleted
      BY <2>3 DEF StoreInv, FetchDeleted, Deleted, Added, Without, Has, userVars
    <2> QED BY <2>1, <2>2, <2>3
  <1> QED BY <1>1, <1>2

\* A credential enters the store (users.go:208-214).
LEMMA FetchAddIInv == ASSUME IInv, FetchAdd PROVE IInv'
  <1> USE DEF IInv
  <1> PICK u \in work : work' = work \ {u} /\ store' = [store EXCEPT ![u] = new[u]]
    BY DEF FetchAdd
  <1>1. /\ fetch = "add"
        /\ UNCHANGED <<userList, fetch, new, user, todo, closing, connVars, cl, conns, due>>
    BY DEF FetchAdd
  <1>2. u \in Uuids /\ u \in Added /\ new \in Lists /\ new[u] \in Ids \cup {NoId}
    BY <1>1, ListType DEF TypeOK, StoreInv
  <1>3. u \notin Deleted
    BY <1>2 DEF Deleted, Added, Without
  <1>4. TypeOK' /\ Identified' /\ RegistryInv' /\ CloseAllInv'
    BY <1>1, <1>2 DEF TypeOK, Identified, RegistryInv, CloseAllInv, Registered, connVars
  <1>5. StoreInv'
    BY <1>1, <1>2, <1>3 DEF TypeOK, StoreInv, Deleted, Added, Without, Has
  <1> QED BY <1>4, <1>5

\* The list is applied: a credential in both lists has kept its id
\* (users.go:133-137).
LEMMA FetchDoneIInv == ASSUME IInv, FetchDone PROVE IInv'
  <1> USE DEF IInv
  <1>1. new \in Lists /\ userList \in Lists /\ fetch = "add" /\ work = {}
    BY DEF TypeOK, StoreInv, FetchDone
  <1>2. store = new
    <2>1. ASSUME NEW u \in Uuids PROVE store[u] = new[u]
      <3>1. store[u] = IF u \in Deleted THEN NoId ELSE IF u \in Added THEN new[u] ELSE userList[u]
        BY <1>1 DEF StoreInv
      <3>2. Has(userList, u) /\ Has(new, u) => userList[u] = new[u]
        BY <1>1, PanelAssumption DEF PanelAssumption
      <3> QED BY <3>1, <3>2 DEF Deleted, Added, Without, Has
    <2>2. store \in [Uuids -> Ids \cup {NoId}] /\ new \in [Uuids -> Ids \cup {NoId}]
      BY <1>1, ListType DEF TypeOK
    <2> QED BY <2>1, <2>2
  <1>3. TypeOK' /\ Identified' /\ RegistryInv' /\ CloseAllInv'
    BY <1>1 DEF TypeOK, Identified, RegistryInv, CloseAllInv, FetchDone, Registered, connVars
  <1>4. StoreInv'
    BY <1>1, <1>2 DEF StoreInv, FetchDone
  <1> QED BY <1>3, <1>4

-----------------------------------------------------------------------------
\* Every step of the connections and of the fetch task keeps the invariant.
LEMMA NextIInv == IInv /\ [Next]_vars => IInv'
  <1> SUFFICES ASSUME IInv, [Next]_vars PROVE IInv'
    OBVIOUS
  <1>1. CASE FetchList
    BY <1>1, FetchListIInv
  <1>2. CASE FetchTask
    BY <1>2, FetchDeleteIInv, FetchSnapshotIInv, FetchCloseIInv, FetchGoesOnIInv, FetchAddIInv,
       FetchDoneIInv DEF FetchTask
  <1>3. ASSUME NEW c \in Sessions,
               Auth(c) \/ Malformed(c) \/ Register(c) \/ SetDieHook(c) \/ EndOfSession(c)
                 \/ SessionClose(c)
        PROVE  IInv'
    BY <1>3, AuthIInv, MalformedIInv, RegisterIInv, SetDieHookIInv, EndOfSessionIInv,
       CloseHookIInv, CloseConnIInv DEF SessionClose
  <1>4. CASE UNCHANGED vars
    BY <1>4 DEF IInv, TypeOK, Identified, RegistryInv, CloseAllInv, StoreInv, Deleted, Added,
                Without, Has, Registered, vars, userVars, fetchVars, connVars
  <1> QED BY <1>1, <1>2, <1>3, <1>4 DEF Next

\* The inductive invariant of the store, the registry and the fetch task.
THEOREM Invariance == Spec => []IInv
  BY InitIInv, NextIInv, PTL DEF Spec

\* Types of the store, the fetch task, the connections and the registry.
THEOREM TypeCorrect == Spec => []TypeOK
  <1>1. IInv => TypeOK
    BY DEF IInv
  <1> QED BY <1>1, Invariance, PTL

\* No closed session stays in the registry: whether the hook was set before
\* or after CloseAll took the session (inbound_tcp.go:129-135, users.go:339-362).
THEOREM RegistryClean == Spec => []RegistryHoldsNoClosed
  <1>1. IInv => RegistryHoldsNoClosed
    BY DEF IInv, RegistryInv, RegistryHoldsNoClosed
  <1> QED BY <1>1, Invariance, PTL

\* CloseAll closes no session whose credential is still accepted
\* (users.go:216-224, 350-362).
THEOREM OthersKeepSessions == Spec => []OnlyRevokedClosed
  <1>1. ASSUME IInv PROVE OnlyRevokedClosed
    <2> SUFFICES ASSUME NEW c \in todo \cup closing, Has(store, cred[c]) PROVE FALSE
      BY DEF OnlyRevokedClosed
    <2>1. /\ fetch = "closing" /\ c \in Sessions /\ Registered(c) /\ uid[c] = user
          /\ \A u \in Uuids : userList[u] = user => store[u] = NoId
      BY <1>1 DEF IInv, TypeOK, CloseAllInv
    <2>2. cred[c] \in Uuids /\ user \in Ids /\ \E l \in Lists : l[cred[c]] = user
      BY <1>1, <2>1 DEF IInv, TypeOK, Identified, Registered
    <2>3. userList \in Lists /\ Has(userList, cred[c])
      BY <1>1, <2>1, <2>2 DEF IInv, TypeOK, StoreInv, Has
    <2>4. userList[cred[c]] = user
      BY <2>2, <2>3, ListType, PanelAssumption DEF PanelAssumption, Has
    <2> QED BY <2>1, <2>2, <2>4 DEF Has
  <1> QED BY <1>1, Invariance, PTL

\* A list is applied completely: then the store is the list (users.go:109-137).
THEOREM StoreBecomesList == Spec => []StoreIsList
  <1>1. IInv => StoreIsList
    BY DEF IInv, StoreInv, StoreIsList
  <1> QED BY <1>1, Invariance, PTL
=============================================================================
