----------------------------- MODULE UserAccess -----------------------------
(***************************************************************************)
(* Who may use the server: the users the panel lists, the credentials      *)
(* UserManager accepts, the sessions ConnectionManager knows, and what     *)
(* ends a session (internal/pkg/service/users.go, handleTcpConnection of   *)
(* internal/app/server/inbound_tcp.go, Close of proxy/session/session.go). *)
(*                                                                         *)
(* A session is accepted by a goroutine of its own while the fetch task    *)
(* deletes and adds users.  A credential is its UUID; what the peer sends  *)
(* is its hash, which is as good.                                          *)
(***************************************************************************)
EXTENDS FiniteSets

CONSTANTS
  Sessions,  \* accepted connections, each with its session
  Uuids,     \* the credentials users have
  Ids,       \* the panel's user ids
  NoId,      \* no user
  Lists      \* the user lists the panel may return

ASSUME UserAccessAssumption ==
  NoId \notin Ids /\ Lists \subseteq [Uuids -> Ids \cup {NoId}]

VARIABLES
  store,     \* UserManager.store: the id of each credential accepted
  userList,  \* UsersService.userList: the list fetched last
  fetch,     \* where FetchUsersTask is: "idle", "delete", "snapshot", "closing", "add"
  new,       \* the list the task is applying
  work,      \* credentials it has still to delete, or to add
  user,      \* the id whose connections CloseAll is called for
  todo,      \* connections CloseAll has still to close
  closing,   \* the one it is closing, if any
  st,        \* a connection's progress: "new", "rejected", "authed", "registered", "run"
  cred, uid, \* the credential it presented, and the id it was given
  hook,      \* its session's dieHook is set
  cl,        \* its session's Close: "open", "hook", "conn", "closed"
  conns,     \* ConnectionManager.conns, as pairs of an id and a connection
  due        \* open and registered when their credential was deleted (history)

userVars  == <<store, userList>>
fetchVars == <<fetch, new, work, user, todo, closing>>
connVars  == <<st, cred, uid, hook>>
vars == <<userVars, fetchVars, connVars, cl, conns, due>>

NoUser == [u \in Uuids |-> NoId]
Has(list, u) == list[u] # NoId

\* The panel gives a credential the same id in every list, and no id two
\* credentials in one list: the code compares lists by credential only.
ASSUME PanelAssumption ==
  /\ \A l, m \in Lists, u \in Uuids : Has(l, u) /\ Has(m, u) => l[u] = m[u]
  /\ \A l \in Lists, u, v \in Uuids : Has(l, u) /\ l[u] = l[v] => u = v

\* UsersService.init runs before the first connection is accepted.
Init ==
  /\ userList \in Lists /\ store = userList
  /\ fetch = "idle" /\ new = NoUser /\ work = {} /\ user = NoId
  /\ todo = {} /\ closing = {}
  /\ st = [c \in Sessions |-> "new"]
  /\ cred \in [Sessions -> Uuids]
  /\ uid = [c \in Sessions |-> NoId]
  /\ hook = [c \in Sessions |-> FALSE]
  /\ cl = [c \in Sessions |-> "open"]
  /\ conns = {} /\ due = {}

Registered(c) == st[c] \in {"registered", "run"}

-----------------------------------------------------------------------------
(* A connection: handleTcpConnection.                                      *)

\* Faulty variant: whoever connects is let in.
BadAuth(c) ==
  /\ st[c] = "new"
  /\ st' = [st EXCEPT ![c] = "authed"]
  /\ uid' = [uid EXCEPT ![c] = store[cred[c]]]
  /\ UNCHANGED <<userVars, fetchVars, cred, hook, cl, conns, due>>

Auth(c) ==
  /\ st[c] = "new"
  /\ IF Has(store, cred[c])
     THEN st' = [st EXCEPT ![c] = "authed"] /\ uid' = [uid EXCEPT ![c] = store[cred[c]]]
     ELSE st' = [st EXCEPT ![c] = "rejected"] /\ uid' = uid
  /\ UNCHANGED <<userVars, fetchVars, cred, hook, cl, conns, due>>

\* The rest of the first packet is malformed.
Malformed(c) ==
  /\ st[c] = "authed"
  /\ st' = [st EXCEPT ![c] = "rejected"]
  /\ UNCHANGED <<userVars, fetchVars, cred, uid, hook, cl, conns, due>>

Register(c) ==
  /\ st[c] = "authed"
  /\ st' = [st EXCEPT ![c] = "registered"]
  /\ conns' = conns \cup {<<uid[c], c>>}
  /\ UNCHANGED <<userVars, fetchVars, cred, uid, hook, cl, due>>

\* Faulty variant: the session runs without a hook.
BadSetDieHook(c) ==
  /\ st[c] = "registered"
  /\ st' = [st EXCEPT ![c] = "run"]
  /\ UNCHANGED <<userVars, fetchVars, cred, uid, hook, cl, conns, due>>

SetDieHook(c) ==
  /\ st[c] = "registered"
  /\ st' = [st EXCEPT ![c] = "run"]
  /\ hook' = [hook EXCEPT ![c] = TRUE]
  /\ UNCHANGED <<userVars, fetchVars, cred, uid, cl, conns, due>>

-----------------------------------------------------------------------------
(* Session.Close: dieOnce, the hook if there is one, then the connection.  *)

\* The receive loop ends, for a reason of the peer or of the network.
EndOfSession(c) ==
  /\ st[c] = "run" /\ cl[c] = "open"
  /\ cl' = [cl EXCEPT ![c] = "hook"]
  /\ UNCHANGED <<userVars, fetchVars, connVars, conns, due>>

CloseHook(c) ==
  /\ cl[c] = "hook"
  /\ cl' = [cl EXCEPT ![c] = "conn"]
  /\ conns' = IF hook[c] THEN conns \ {<<uid[c], c>>} ELSE conns
  /\ UNCHANGED <<userVars, fetchVars, connVars, due>>

CloseConn(c) ==
  /\ cl[c] = "conn"
  /\ cl' = [cl EXCEPT ![c] = "closed"]
  /\ UNCHANGED <<userVars, fetchVars, connVars, conns, due>>

-----------------------------------------------------------------------------
(* The fetch task: FetchUsersTask, under updateMutex.                      *)

\* compareUserList: by credential, whatever the ids.
Without(a, b) == {u \in Uuids : Has(a, u) /\ ~Has(b, u)}

\* A list that is not the one fetched last; an error leaves all as it is.
FetchList ==
  /\ fetch = "idle"
  /\ new' \in Lists
  /\ work' = Without(userList, new')
  /\ fetch' = "delete"
  /\ UNCHANGED <<userVars, user, todo, closing, connVars, cl, conns, due>>

\* deleteUsers: a credential goes, then the connections of its id.
FetchDelete ==
  /\ fetch = "delete"
  /\ \E u \in work :
       /\ work' = work \ {u}
       /\ user' = userList[u]
       /\ store' = [store EXCEPT ![u] = NoId]
       /\ due' = due \cup {c \in Sessions : Registered(c) /\ cred[c] = u /\ cl[c] = "open"}
  /\ fetch' = "snapshot"
  /\ UNCHANGED <<userList, new, todo, closing, connVars, cl, conns>>

\* Faulty variants of CloseAll: it takes the connections and closes none; it
\* takes those of every user.
BadFetchSnapshot ==
  /\ fetch = "snapshot"
  /\ conns' = {p \in conns : p[1] # user}
  /\ fetch' = "closing"
  /\ UNCHANGED <<userVars, new, work, user, todo, closing, connVars, cl, due>>

BadFetchSnapshotAll ==
  /\ fetch = "snapshot"
  /\ todo' = {c \in Sessions : \E i \in Ids : <<i, c>> \in conns}
  /\ conns' = {}
  /\ fetch' = "closing"
  /\ UNCHANGED <<userVars, new, work, user, closing, connVars, cl, due>>

\* CloseAll: under the lock, the id's connections leave the registry.
FetchSnapshot ==
  /\ fetch = "snapshot"
  /\ todo' = {c \in Sessions : <<user, c>> \in conns}
  /\ conns' = {p \in conns : p[1] # user}
  /\ fetch' = "closing"
  /\ UNCHANGED <<userVars, new, work, user, closing, connVars, cl, due>>

\* Without the lock, each is closed in turn; Close returns at once if the
\* session is closed or being closed.
FetchClose ==
  /\ fetch = "closing" /\ closing = {}
  /\ \E c \in todo :
       /\ todo' = todo \ {c}
       /\ cl' = [cl EXCEPT ![c] = IF @ = "open" THEN "hook" ELSE @]
       /\ closing' = IF cl[c] = "open" THEN {c} ELSE {}
  /\ UNCHANGED <<userVars, fetch, new, work, user, connVars, conns, due>>

FetchClosed ==
  /\ \E c \in closing : cl[c] = "closed"
  /\ closing' = {}
  /\ UNCHANGED <<userVars, fetch, new, work, user, todo, connVars, cl, conns, due>>

FetchNext ==
  /\ fetch = "closing" /\ todo = {} /\ closing = {}
  /\ fetch' = "delete" /\ user' = NoId
  /\ UNCHANGED <<userVars, new, work, todo, closing, connVars, cl, conns, due>>

FetchDeleted ==
  /\ fetch = "delete" /\ work = {}
  /\ fetch' = "add"
  /\ work' = Without(new, userList)
  /\ UNCHANGED <<userVars, new, user, todo, closing, connVars, cl, conns, due>>

FetchAdd ==
  /\ fetch = "add"
  /\ \E u \in work :
       /\ work' = work \ {u}
       /\ store' = [store EXCEPT ![u] = new[u]]
  /\ UNCHANGED <<userList, fetch, new, user, todo, closing, connVars, cl, conns, due>>

\* Faulty variant: the list is remembered before all of it is applied.
BadFetchDone ==
  /\ fetch = "add"
  /\ userList' = new
  /\ fetch' = "idle" /\ new' = NoUser /\ work' = {}
  /\ UNCHANGED <<store, user, todo, closing, connVars, cl, conns, due>>

FetchDone ==
  /\ fetch = "add" /\ work = {}
  /\ userList' = new
  /\ fetch' = "idle" /\ new' = NoUser
  /\ UNCHANGED <<store, work, user, todo, closing, connVars, cl, conns, due>>

-----------------------------------------------------------------------------
FetchTask ==
  \/ FetchDelete \/ FetchSnapshot \/ FetchClose \/ FetchClosed \/ FetchNext
  \/ FetchDeleted \/ FetchAdd \/ FetchDone

SessionClose(c) == CloseHook(c) \/ CloseConn(c)

Next ==
  \/ FetchList \/ FetchTask
  \/ \E c \in Sessions :
       Auth(c) \/ Malformed(c) \/ Register(c) \/ SetDieHook(c) \/ EndOfSession(c) \/ SessionClose(c)

Spec == Init /\ [][Next]_vars

\* The fetch task and a Close that has begun go on to their end.
FairSpec ==
  /\ Spec
  /\ WF_vars(FetchTask)
  /\ \A c \in Sessions : WF_vars(SessionClose(c))

-----------------------------------------------------------------------------
(* Properties.                                                             *)

\* Types of all the variables.
TypeOK ==
  /\ store \in [Uuids -> Ids \cup {NoId}] /\ userList \in Lists
  /\ fetch \in {"idle", "delete", "snapshot", "closing", "add"}
  /\ new \in Lists \cup {NoUser} /\ work \subseteq Uuids /\ user \in Ids \cup {NoId}
  /\ todo \subseteq Sessions /\ closing \subseteq Sessions
  /\ st \in [Sessions -> {"new", "rejected", "authed", "registered", "run"}]
  /\ cred \in [Sessions -> Uuids] /\ uid \in [Sessions -> Ids \cup {NoId}]
  /\ hook \in [Sessions -> BOOLEAN]
  /\ cl \in [Sessions -> {"open", "hook", "conn", "closed"}]
  /\ conns \subseteq Ids \X Sessions /\ due \subseteq Sessions

\* The registry never keeps a session that is closed: its hook has taken it
\* out, or the CloseAll that closed it before the hook was set
\* (inbound_tcp.go:129-135, users.go:350-355).
RegistryHoldsNoClosed ==
  \A c \in Sessions : cl[c] \in {"conn", "closed"} => \A i \in Ids : <<i, c>> \notin conns

\* Between two fetches the server accepts the credentials of the list it
\* fetched last, each for the id the list gives it (users.go:109-137, 208-224).
StoreIsList == fetch = "idle" => store = userList

\* The connections CloseAll is about to close were opened with credentials that
\* are no longer accepted: a user who stays keeps his sessions
\* (users.go:216-224, 350-362).
OnlyRevokedClosed ==
  \A c \in todo \cup closing : ~Has(store, cred[c])

\* "Close all connections for this user" (users.go:221): when the fetch task is
\* done, no session runs on a credential that is not accepted any more.
DeletedUsersDisconnected ==
  fetch = "idle" =>
    \A c \in Sessions : st[c] = "run" /\ cl[c] = "open" => Has(store, cred[c])

\* A session that was registered when its credential was deleted gets closed.
RevokedGetClosed == \A c \in Sessions : c \in due ~> cl[c] = "closed"
=============================================================================
