# A TLA+ development of server-anytls

server-anytls is a proxy server in Go.  A peer opens one TLS connection,
proves that it knows a user's UUID, and then runs any number of streams over
that connection as a *session*; each stream is copied to and from a remote
host.  The users come from a panel over HTTP, the traffic is reported to it.

This directory holds TLA+ modules of the parts of that program whose
correctness depends on the order of things, the TLC instances that check them,
and theorems that TLAPS checks.  Everything is translated from the Go source;
file names below are relative to `src/internal/` unless they begin with `src/`.

## Inventory

| Component | Source | State | Operations |
|---|---|---|---|
| Stream pipe | `pkg/proxy/pipe/io_pipe.go` | `buf`, `off`, the one-token channels `dataReady` and `spaceReady`, `done`, the two stored errors | `read`, `write`, `closeRead`, `closeWrite` |
| Deadlines | `pkg/proxy/pipe/deadline.go` | mutex, `timer`, `cancel` channel | `Set`, the timer's callback, `Wait` |
| Session (server) | `pkg/proxy/session/session.go`, `stream.go`, `frame.go` | `streams`, `die`/`dieOnce`, `dieHook`, `connLock`, `peerVersion`; a stream's `dieOnce` and pipe | `Run`, `recvLoop`, `Close`, `streamClosed`, `writeDataFrame`, `writeControlFrame`; a stream's `Read`, `Write`, `Close`, `HandshakeSuccess`, `HandshakeFailure` |
| Inbound connection, handler | `app/server/inbound_tcp.go`, `outbound_tcp.go` | a goroutine per connection, one per stream, two while copying | authenticate, register, set the hook, read the address, dial, report, copy, close |
| Users, registry | `pkg/service/users.go` | `store` (UUID to id), `userList`, `conns` (id to sessions) | `init`, `FetchUsersTask`, `compareUserList`, `addUsers`, `deleteUsers`, `authAndGetUserId`, `Add`, `Remove`, `CloseAll` |
| Traffic accounting | `pkg/service/users.go`, `CountedConn` | a `TrafficItem` of three atomic counters per user | add, `drainUserTraffics`, `ReportTrafficsTask`, `restore` |
| Node life cycle | `app/server/server.go`, `state.go`, `src/cmd/server/main.go` | state file, `registerID`, `listeners`, `userService`, `closeOnce` | `Start`, `Close`, signal handler, deferred shutdown, `LoadState`, `SaveState`, `ClearState` |
| Client session and pool | `pkg/proxy/session/client.go`, `session.go`, `pkg/util/deadline.go` | idle sessions, `synDone` watchdog | `CreateStream`, `OpenStream`, idle clean-up, `Close` |
| Padding | `pkg/proxy/padding/padding.go`, `writeConnLocked` | the process's scheme, `buffering`, `buffer`, `sendPadding`, `pktCounter` | parse a scheme, replace it, buffer, split and pad what is written |
| Routing, configuration, glue | `app/server/outbound*.go`, `model.go`, `utils.go`, ... | none of their own | adapters and pure functions |
| Periodic tasks | `pkg/util/routine.go` | a ticker | one run after the other |

How they meet:

- `recvLoop` writes into a stream's pipe and the stream's handler reads from
  it.  A pipe that is full blocks the loop, and with it every other stream.
- All writers of a session share `connLock` and the connection's write
  deadline.
- `Session.Close` is called by the receive loop when it ends, by any goroutine
  whose control frame cannot be written, and by `CloseAll` of the registry when
  a user is deleted.  It runs the hook (`Remove` from the registry), empties the
  map of streams, and closes the connection.
- A stream is closed by its handler, by the copier, by the peer's FIN and by
  `Session.Close`.
- The fetch task, the report task and the connections share `store`, `conns`
  and the counters without a common lock.
- `Start` runs on the main goroutine, `Close` on the signal's.

What is hard about it: calls that race on the same stream, session or pipe; a
flag that is tested before a lock and used after it; wake-ups and timers that
come around an unlock; a Close that reaches only what exists at that moment; a
report that fails half way; a crash between two calls to the panel.
`PROJECT.json` lists these hazards at their lines, with the properties that
cover each, and a note where none does.

What makes each component correct:

- *pipe*: the bytes come out in the order they went in, none twice, none lost,
  before any close error; a blocked call is woken; the buffer is bounded.
- *deadlines*: no channel is closed twice, the channel tells what the last `Set`
  asked for, and waiting for a callback under the mutex never hangs.
- *session*: a stream is closed once, a live one can always be reached by what
  is to close it, a closed session ends its receive loop, and its handlers
  unless a remote keeps them waiting or their stream got in after the close,
  control frames' deadlines do not leak to data frames.
- *users and registry*: sessions of deleted users are closed and no others, the
  registry keeps no closed session, the store is the panel's list.
- *traffic*: every addition is booked in the end, and a second time only if the
  panel booked a report whose answer was lost.
- *node*: a node that serves is registered, and no registration is forgotten.
- *client pool*: a session carries one stream at a time, a closed one is never
  used again, none is lost open, and the only watchdog left running is the
  newest stream's.
- *padding*: whatever the scheme, the payload comes out unchanged and a waste
  frame never falls inside another frame.

## The modules

| Module | Models | Kind |
|---|---|---|
| `ByteStream` | what a pipe promises: a bounded FIFO byte stream with a close | abstract specification |
| `Pipe` | `io_pipe.go`, at the grain of critical sections and channel operations | implements `ByteStream` (`ImplementsByteStream`) |
| `PipeProofs` | theorems about `Pipe` | TLAPS |
| `PipeDeadline` | `deadline.go` and the calls that wait | component |
| `PipeDeadlineProofs` | theorems about `PipeDeadline` | TLAPS |
| `StreamLife` | what a session promises of a stream: it opens once and ends once, and who ends it decides whether the peer is told | abstract specification |
| `Session` | `recvLoop`, the write path, `Close`, streams, and the handlers of `inbound_tcp.go`, `outbound_tcp.go` | composition of the session and its handlers; implements `StreamLife` (`ImplementsStreamLife`) |
| `SessionProofs` | theorems about `Session` | TLAPS |
| `SessionPool` | what the client's pool promises: one stream at a time on a session, none on a closed one | abstract specification |
| `ClientPool` | `client.go`, the client's half of `session.go`, a stream's hooks, `util/deadline.go` | implements `SessionPool` (`ImplementsPool`) |
| `ClientPoolProofs` | theorems about `ClientPool` | TLAPS |
| `Padding` | `padding.go` and `writeConnLocked` | component |
| `PaddingProofs` | theorems about `Padding` | TLAPS |
| `UserAccess` | `handleTcpConnection`, the fetch task, `ConnectionManager`, `Session.Close` as the registry sees it | composition |
| `UserAccessProofs` | theorems about `UserAccess` | TLAPS |
| `Traffic` | the counters and the report task | component |
| `TrafficProofs` | theorems about `Traffic` | TLAPS |
| `NodeLifecycle` | `Server.Start`, `Server.Close`, `state.go`, `main.go` | component with crashes |
| `NodeLifecycleProofs` | theorems about `NodeLifecycle` | TLAPS |
| `MC*` | the instances TLC checks | |

`Bad...` definitions are one plausible mistake each.  No specification uses
them; they are there to see that each property notices its mistake
(`PROJECT.json`, "mutants").

### Pipe and ByteStream

A byte is its position in the writer's stream, so `buf` holds numbers and a
byte that is lost, repeated or out of place shows.  `rpc` and `wpc` say where
the reader and the writer are: `ReadLocked` and `WriteLoop` are the critical
sections of `p.mu`, `ReadWake` and `WriteWake` the signals the code sends
*after* it has unlocked, `ReadSelectData`, `ReadSelectDone` and their
counterparts the arms of the selects, `ReadDrain` the drain at the close.
`CloseStore`, `CloseDone` and `CloseWake` are the three statements of
`closeRead` and `closeWrite`.  Deadlines are a choice: wherever the code looks
at one, the call may find it over (`ReadTimeout`, `WriteTimeout`).

One goroutine writes (the receive loop, `session.go:202`) and any other may
close the reading end (`stream.go:77`, `stream.go:92`).  The session never
closes the writing end; in the model its writer may, between two writes.

The refinement maps `produced`, `consumed` to the bytes appended and copied
out, `closed` to `done`, and `writing` to a `Write` past its first select: a
write that has seen the pipe open may still append after the close, and
`ByteStream` allows just that.

### PipeDeadline

Channels and timers are drawn from finite pools (`PoolsLast` bounds the calls so
that a call that begins never runs short).  `SetLock` to `SetPast` are the
statements of `Set`; a callback loads the channel variable and closes it in two
steps (`CallbackLoad`, `CallbackClose`), as the Go closure does.

### StreamLife and Session

Threads are pairs: `Recv`, `Admin` (a `CloseAll` from outside), `Main(s)` (the
handler of stream `s`, which also copies up) and `Down(s)` (the other copier).
A write is a sub-machine every thread can be in (`wst`: waiting for `connLock`,
writing on the connection), and so is a call of `Session.Close` (`clo`: `once`,
`sweep`, `conn`).  `RecvFIN` takes the stream out of the map under the lock and
`RecvFINClose` closes it afterwards; `RecvSYN` does not look at `die`.

Data is counted in frames and the pipe in frames buffered; that the pipe keeps
bytes in order is `Pipe`'s matter.  A write deadline that passes breaks the TLS
connection for good (`broken`).  The hook `Close` runs is in `UserAccess`.

The upload is cut where it may wait: `UpRead` takes data out of the pipe, and
`UpSend` (the remote takes it) or `UpFail` (it refuses) ends the write, for
which `CopyConn` has no deadline.  No remote is ever obliged to do either.

A handler of a stream for UDP over TCP reads a request of its own first
(`HandlerUoT`); after that it dials, reports and copies like the others.

The peer is this repository's own client, or one that omits its settings: it
uses a stream number once and sends one FIN at most for a stream it closes.  It
may send heartbeats (`MaxHearts`), and it may stop reading.

`StreamLife` knows of a stream only whether it is open at the peer, where it is
at the server, and how often the peer was told of its end.  The refinement
(`ServerEnd`) calls a stream "none" until its handler is started, "open" until
its `dieOnce` has run, "ending" while the thread that ran it still owes the FIN
(`Owes`: before `streamClosed`, or writing the FIN, or closing the session
because the FIN could not be written), and "ended" then; `fins` counts the FINs.

### SessionPool and ClientPool

`SessionPool` knows of each session only whether it is leased, idle or closed,
and which streams are open on it.  `ClientPool` is the code: `Create` to
`CreateFail` are `CreateStream` and `OpenStream` cut at the points where another
goroutine can make a difference (the check of the context, the pool's lock, the
dial, the check of `die`, the SYN, the stream's hook), `StreamClose`,
`HookInsert` and `StreamFin` the end of a stream with the hook that puts its
session back, `RecvSynAck`, `RecvSynErr` and `RecvFin` the client's branches of
`recvLoop`, `WatchdogFire` and `WatchdogClose` the timer of `OpenStream`,
`Cleanup` and `CleanupClose` the idle cleanup, `ContextDone`, `ClientSnapshot`
and `ClientCloseNext` `Client.Close`.  `by` is the goroutine that runs
`Session.Close`, which cannot do anything else meanwhile.

The refinement maps a session to "closed" once `die` is closed, to "idle" while
it is in `idleSession`, to "leased" otherwise; a stream is open from the moment
it enters the session's map until its `dieOnce` has run.

A watchdog is armed, off (its `done` was called, or its session is forgotten) or
fired: past its timer, and bound to close the session, whatever SYNACK or stream
comes before it does.  `ArmedIsNewest` is about the first kind only: none is
left running that nobody would stop.  The third is what the code allows
(`deadline.go:13-16`), and the other properties hold with it.

Nothing in the repository calls `NewClient`; a caller is a goroutine that opens
a stream, sends on it, closes it and begins again.  The server it meets is this
repository's: it answers a stream only after data on it.

### Padding

Lengths are numbers, a byte of payload is its offset, and a part of a scheme's
line is a check mark, a pair of numbers or junk.  `NewPaddingFactory` is the
parser with its limits, as a set: two lines for one packet leave the choice to
the order of a map.  `Split`, `Last`, `Pure`, `CheckMark` and `Skip` are the
branches of the loop in `writeConnLocked`, one size each; `UpdatePaddingScheme`
may replace the scheme at any moment, also between the sizes of one record,
which the loop has already drawn.

### UserAccess

`st` follows `handleTcpConnection` (`Auth`, `Register`, `SetDieHook`), `cl`
follows `Session.Close` (`hook`, `conn`, `closed`), `fetch` follows
`FetchUsersTask`: `FetchDelete` takes one credential out of the store,
`FetchSnapshot` is the locked half of `CloseAll`, `FetchClose` and
`FetchClosed` its closing of one session after the other, in the task's own
goroutine.  `due` records the sessions that were registered when their
credential was deleted.

### Traffic

`Add` is one atomic addition, `DrainSwap` one `Swap(0)`; the drain visits one
user's item at a time and may miss an item stored meanwhile (`sync.Map.Range`).
`SubmitFail` may or may not have been booked by the panel: HTTP does not tell.
`twice` counts the latter, and `Conservation` allows for them: that a report
whose answer is lost is booked a second time is what the code does.  `MaxAdds` and `MaxTwice` are bounds.

### NodeLifecycle

`pc` follows `Start` from `LoadState` to the accept loop, `cl` follows `Close`.
`file`, `regs`, `issued` and `expired` survive a crash, everything else is
`Forget`-ten.  Calls to the panel may fail before or after they took effect.
`listeners` are the addresses that are listened on: `StartListen` may get one of
the two or both, `StartAcceptEnd` waits for the accept loops of all.
`fault` records that an answer or a file was lost (or that the operator gave the
node another id, which overwrites the state of the old one); `lost` what a crash
between `Register` and `SaveState` loses.

## What is checked

Each row is a run of `PROJECT.json`; sizes are distinct states.

| Run | Instance | Properties | Shows |
|---|---|---|---|
| `pipe` | buffer 3, writes up to 4, reads up to 2, 7 bytes; 357 thousand | `TypeOK`, `BackingBounded`, `NoLostWakeups`, `EofMeansComplete`, `ImplementsByteStream`, `ReadReturns`, `WriteGoesOn` | the pipe is the stream it promises to be, and nobody sleeps through a wake-up |
| `deadline` | 2 setters, 2 waiters, 3 channels, 2 timers; 325 thousand | `TypeOK`, `NoDoubleClose`, `WaiterOnCurrentChannel`, `DeadlineIsLastSet`, `SetReturns`, `DeadlineReleasesWaiter` | timers that fire late do no harm |
| `session_two` | 2 streams, pipes and connection of one frame, a peer of version 1 that may vanish; 2.8 million | `TypeOK`, `LiveStreamReachable`, `NoDeadlineOnDataWrite` | streams under concurrent closing |
| `session_live` | 1 stream, a peer of version 2 with an old scheme and one heartbeat, `CloseAll`; 168 thousand | `OutboundReleased`, `ImplementsStreamLife`, `RecvLoopEnds`, `HandlersEnd`, `PeerLearnsClose` | a stream's life is as promised, what of a closed session ends, and that an open one leaves nothing behind |
| `access` | 2 connections, 2 users, 3 credentials; 523 thousand | `TypeOK`, `RegistryHoldsNoClosed`, `StoreIsList`, `OnlyRevokedClosed`, `RevokedGetClosed` | revoked users go, others stay |
| `access_late` | 1 connection | `DeletedUsersDisconnected` | violated, see below |
| `traffic` | 2 users, 3 additions; 87 thousand | `TypeOK`, `Conservation`, `EventuallyBooked` | the books balance |
| `client` | 1 caller, 2 sessions, 3 streams, 1 fault, 1 session kept; 744 thousand | `TypeOK`, `NoSessionLost`, `ArmedIsNewest`, `ImplementsPool` | the pool is what it promises to be |
| `padding` | headers of 2, lengths below 8, 4 frames of 2, 3 or 9, 3 schemes and a broken one; 71 thousand | `TypeOK`, `PayloadInOrder`, `WasteBetweenFrames` | padding adds and never changes |
| `node` | 3 registrations, 2 node ids, 2 addresses; 2.0 million | `TypeOK`, `AcceptsRegistered`, `RemembersRegistration`, `CloseStopsNode` | crashes, restarts and failures |
| `node_exit` | 1 registration | `UnregisteredAtExit` | violated, see below |
| `node_listen` | 1 registration | `NoListenerAfterClose` | violated, see below |

Why these bounds are enough.  The pipe's behaviours depend on full or not, empty
or not, and past the compaction threshold or not, all of which a buffer of 3
bytes meets with reads and writes that leave a rest; 7 bytes fill it twice over.
Two setters are the fewest that race; three channels are the fewest with a late
timer of the last but one.  Two streams let one be blocked while the other is
closed; a third would only repeat the second.  With one frame in flight and one
in the pipe every queue is full, empty and blocking within a few steps.  Three
credentials are the fewest with a user who stays, one who goes and one whose
credential is replaced.  Three registrations let a node forget one, hold one
and be given another.

The two runs of `Session` divide its features.  With two streams the
interleavings of closing matter, and the peer is of version 1, which gets no
reports; with one, all that a peer of version 2 adds (reports, settings, a new
scheme, a heartbeat's answer) is written under the deadline that may fail.  One
heartbeat is enough to have an answer wait for the lock; every further one
repeats it.  `ImplementsStreamLife` is checked with one stream, whose handler,
copier and peer already race with `Close`; that no stream disturbs another's
life is proved.

For `ClientPool` one caller suffices to have two sessions at once, since a
receive loop can end a stream while its caller still works on it, and the
session goes back to the pool meanwhile.  A second caller would only take turns
on the pool's lock.  Three streams give a session two watchdogs, one after the
other.  One fault (a write or a connection that fails) is met at each point; a
second finds the session closed.

`Padding` scales the constants down: `MaxPad` is one below `Width` as in the
code, the frames are shorter than, as long as and longer than the sizes, and the
schemes have a packet without a line, a line without a size, a size above the
limit and a Stop that wraps around.

The runs of sessions and of the client say `CHECK_DEADLOCK FALSE`: a session
ends, and a client that is closed and has no caller left does nothing more.

### Fairness

- `Pipe`, `PipeDeadline`, `Session`: weak fairness of every goroutine's own
  steps (the Go scheduler runs what can run); strong fairness of taking a
  `sync.Mutex`, whose starvation mode serves every waiter.  A timer's time comes.
- `Session`: nobody has to send or answer; remotes may be silent for ever and
  may take nothing, and the peer need not read.  A data frame, written with no
  deadline under `connLock`, then blocks all writers of the session (hazard at
  `session.go:387`), but not its end: `RecvLoopEnds` and `HandlersEnd` hold all
  the same, for Close does not take that lock.  Two properties have a premise of
  their own, stated in the formula: `PeerLearnsClose` that the peer reads, and
  `HandlersEnd` that the stream's remote takes what the upload writes or refuses
  it.  Without it a handler that waits in that write stays (hazard at
  `outbound_tcp.go:26`).
- `ClientPool`, `Padding`: safety only, no fairness.
- `UserAccess`: the fetch task and a `Close` that has begun go on.
- `Traffic`: the task runs at its interval, `Submit` returns and does not fail
  for ever (strong fairness of `SubmitOk`).
- `NodeLifecycle`: `Start` and `Close` go on, since calls to the panel return.

### What a closed session leaves behind

`recvLoop` does not look at `die` before it accepts a SYN.  If it still has one
to read when `Close` has emptied the map, the stream gets a handler, and nothing
will ever close it.  `HandlersEnd` and `RecvLoopEnds` say that this is the only
way anything stays, given the premise above: such a handler waits for data
(`Stranded`), or it waits for a remote that takes nothing while the receive loop,
with a frame for the same stream, waits at its full pipe (`Wedged`).  No comment
or test says otherwise of such a stream, so these are hazards and no
disagreement.  Neither is the outbound connection of a handler that cannot
report success (`outbound_tcp.go:21-24`): nothing closes it, and
`OutboundReleased` shows only that this happens in sessions that are closed.

### Three disagreements

- `access_late` (`inbound_tcp.go:130`).  The credential is looked up, then the
  session is registered.  If the fetch task deletes the user in between,
  `CloseAll` finds nothing, the session runs on, and no later fetch closes it,
  for the user is in no later difference of lists.
- `node_exit` (`server.go:298`).  A signal while `Start` is registering runs
  `Close` with an empty `registerID`.  `closeOnce` makes the deferred `Close` a
  no-op, so the process ends and its node stays registered.
- `node_listen` (`server.go:314`).  A signal before `Start` has its listeners:
  `Close` closes none, `Start` opens them afterwards and goes on if the rest
  does not need the cancelled context; nothing closes them any more.

## What is proved

`PipeProofs`, for every buffer size, slice length and number of bytes:

- `Invariance`: `Spec => []Inv`, with `Inv` = types, `BufferInv` (what is
  buffered is exactly positions `rcvd + 1 .. sent`, within the bounds of the
  compaction), `ReadInv`, `CloseInv` and the wake-ups of both directions.
- `TypeCorrect`, `BackingStaysBounded`, `OrderKept`, `WakeupsKept` and
  `EofOnlyAtTheEnd` follow from it.
- `Refinement`: `Spec => ImplementsByteStream`.

Why the invariant has these parts: `EofMeansComplete` is not inductive, for
nothing in it keeps a write from appending after an EOF was read; `CloseInv`
says that a writer that has closed its end is between writes, and that `done`
is set before another can begin, which its first select then refuses.
`NoLostWakeups` needs to know that a reader that drains has seen `done`
(`ReadInv`), since the drain does not signal.  The three ways
`consumeLocked` leaves the buffer are one lemma, `ConsumedBuffer`, about
sequences, and `AppendedBuffer` is its counterpart; each action then needs only
one of them.

`SessionProofs`, for any number of streams, any capacities, versions, schemes
and heartbeats:

- `Invariance`: `IInv` is types; `QuietInv` (a thread that is not where its code
  writes or closes does neither); `SynInv` (a SYN in flight is the only one of
  its stream, whose handler has not begun); `LockInv` (who writes on the
  connection holds `connLock`, and a deadline is set only under a control frame);
  `LifeInv` (the copier begins after the handler's report, a stream that a thread
  has closed is dead, a live one can be reached); `FinInv` (a FIN is due from one
  thread at most, and only before any was sent); `OutInv` (what each step of the
  handler knows of the outbound connection and of the report's result); `EndInv`
  (how a stream ends, see below).
- `StreamsReachable`, `NoDeadlineLeak`, `OutboundNotLeft`, `TypeCorrect`: all the
  invariants the runs check; and `OneFin`: one FIN at most for a stream.
- `LifeImplemented`: `Spec => ImplementsStreamLife`.

None of them is inductive alone.  That a stream is closed once rests on `dieOnce`
(`StreamClose` moves the first thread only to where the FIN is sent) *and* on a
stream number being used once: a second SYN would give the stream a second
handler.  That is why the invariant speaks of the frames in flight.  A report that
fails is a control frame, so the writer itself closes the session before it goes
on (`OutWriting`): a handler that leaves its outbound connection to nobody leaves
it in a session that is closed.  That does not make the leak right; the
connection stays open.

The refinement goes through step by step.  `RecvSYN` is `Accept`; `StreamClose`
of a stream that is not dead is `End`; `WritePut` of a FIN is `Tell`; `GiveUp` is
`StreamClosed` in a session that is closed, and, after a FIN that could not be
written, the last step of the writer's own `Session.Close` (`CloseOnce` if another
was first, `CloseConn` otherwise); the first `CloseOnce` is `Close`; `CloseSweep`
(all the live streams of the map at once) and `RecvFINClose` are `Leave`; a SYN or
FIN the peer sends, and a FIN it receives of a stream it has open, is
`PeerMoves`; all else stutters.  It needs what `EndInv` adds.  `StreamEnds`: the
handler and the copier are never both past `dieOnce`, and what such a thread
writes is the stream's own FIN, so a `Tell` settles the debt of this stream and
there is no second debtor; and a stream is neither dead nor in the map before its
handler starts, so a sweep ends streams that are open.  `WriteOrClose`: no
thread writes and closes the session at once, so a FIN that fails is given up
only after the session is closed.  `PeerEnds`: a FIN in flight to the server, or
just taken by the receive loop, is of a stream the peer has closed, which is what
`Leave` asks of a stream that ends in a live session; a FIN in flight to the peer
is of a stream it has opened.  With `SynInv` `Accept` finds the stream open or
closed at the peer, and not yet opened at the server.

`PaddingProofs`, for every set of schemes and frame sizes and all constants that
`PaddingAssumption` allows (`maxPaddingSize` fits the length field and the zeros):

- `Invariance`: types, the accounting of offsets between what was accepted,
  buffered, split and sent, and the ends of frames.
- `TypeCorrect` (the parser's limits: no size is zero, no interval empty),
  `PayloadKept`, `WasteWellFormed`.

`TrafficProofs`, for every set of users:

- `Invariance`: `IInv` adds to `Conservation` that what a drain has swapped out
  belongs to a counter it has marked (so a swap finds nothing in the batch to
  overwrite) and that the task holds nothing between two reports.
- `TypeCorrect`, `NothingLost`: `Spec => []Conservation`.

`PipeDeadlineProofs`, for any number of callers of `Set`, waiters, channels and
timers:

- `Invariance`: `IInv` adds to the three safety properties that a `Set` past its
  first line holds `d.mu` and works on the current channel (`LockInv`), that the
  only timer pending is `d.timer`, and that while it is pending the channel is
  open and is the one its callback has loaded (`TimerInv`), what each step of
  `Set` knows of the timer (`StageInv`), and that every channel but the current
  one is closed (`ChanInv`).
- `ClosedOnce`, `WaitersFollow`, `ChannelIsDeadline`, `TypeCorrect`.

`NoDoubleClose` alone is not inductive: what keeps a late callback from closing
the next deadline's channel is that `Set` waits for it in `SetDrain`, and that is
what `TimerInv` and `StageInv` say together.

`UserAccessProofs`, for every set of connections, credentials and lists:

- `Invariance`: `IInv` is types, `Identified` (a session's id is the one some
  list gives its credential), `RegistryInv` (a session is filed under its own id,
  and one that is being closed is still filed only while its hook is about to
  run), `CloseAllInv` (what is to be closed has the id just deleted) and
  `StoreInv` (how far the store is between the two lists).
- `RegistryClean`, `OthersKeepSessions`, `StoreBecomesList`, `TypeCorrect`.

`OthersKeepSessions` needs `PanelAssumption`: `CloseAll` closes by id, so with a
credential that changes its id, or two that share one, it would close the
sessions of somebody who stays.

`NodeLifecycleProofs`, for every set of register ids and node ids:

- `Invariance`: `IInv` is types, `IdsInv` (which variables hold an id at which
  line of `Start`), `ConfirmedInv` (the id `Start` goes on with is one the panel
  has confirmed), `ClearInv` (`Close` clears the file only after `Unregister` has
  succeeded) and, as long as no answer or file was lost, `FileInv` (what the
  state file says of the panel's registrations).
- `AcceptingIsRegistered`, `NothingForgotten`, `TypeCorrect`.

`ClientPoolProofs`, for any number of callers, sessions, streams and failures:

- `Invariance`: `IInv` is types; `AtStream` (a thread that works on a stream is
  at one that exists, with a number its session has given out); `LeaseInv` (of
  the threads that have a session, its live stream, the pool, the cleanup's list
  and the goroutines of the hooks, one at most has it); `WatchInv` (a watchdog
  that is armed is the one `synDone` stops, and the newest stream's); `ReachInv`
  (until `Client.Close` empties the map every open session is in it, and
  afterwards what comes back to the pool is on `Close`'s list).
- `NothingLost`, `NoStrayWatchdog`, `TypeCorrect`.
- `PoolImplemented`: `Spec => ImplementsPool`.

`NoSessionLost` is not inductive.  `HookInsert` may put a session into the pool
after `Client.Close` has emptied the map, because it looked at `c.die` before;
what saves it is that `Close` cancels `c.die` before it takes the map
(`taken => cdie`) and that such a session was still in the map then.  That needs
the other half, `1..counter \ die` within `sessions`, from `createSession`, and
the part about `todo`, which `StreamClose` keeps since it chooses the hook's
branch by `c.die`.  `ArmedIsNewest` needs that the watchdog's version is known
before one is armed (only a peer of version 2 gets one), and that a stream whose
SYNACK has come is one that was opened before, hence `AtStream`.

The refinement goes through step by step.  `CreateSession` is `Dial`; `GetIdle`
and `Cleanup` are `Take`; `Syn` is `Open`, as soon as the stream is
in the map; `StreamClose` and the sweep of `Session.Close` end the stream
(`End`); `HookInsert` is `Return`; every call of `Session.Close` that is the first
is `Close`; all else stutters.  A session the cleanup takes stays leased until
it is closed.  `Open` and `Return` require that the session has no
stream and is not in the pool, which is `LeaseInv`: without it a caller that is
about to send its SYN could meet a stream of another caller on the same session.
That `Newest` picks a session of the set (`NewestIn`) follows from the
well-foundedness of the numbers, and that the bound on the streams opened leaves
the session a number (`OpenedBound`) from the cardinality of finite sets.

Assumed, besides what TLAPS knows of sets and numbers: `PipeAssumption`,
`SessionAssumption`, `PaddingAssumption` and `TrafficAssumption` (sizes are
positive, bounds are numbers, the stream number 0 is not used),
`ClientPoolAssumption` (bounds are numbers, a caller is none of the client's own
tasks),
`DeadlineAssumption`, `UserAccessAssumption` and `NodeAssumption` (the value
that stands for "none" is not one of the others; lists map credentials to ids),
and `PanelAssumption`.

Only model-checked: the ten liveness properties (liveness under fairness is out
of the prover's reach).  Every invariant, action property and refinement that a
passing run checks is a theorem.

## What is not modelled

- Framing: a frame arrives whole or not at all, a TLS connection being a
  reliable stream.
- The text of a padding scheme (`string_map.go`, MD5): a scheme is its lines as
  the parser leaves them, and whether two schemes are equal is a choice.
- `mkcert.go`, `model.go`, `utils.go`, `outbound.go`, `outbound_adapter.go`,
  `system_dialer.go`: pure functions, configuration of libraries, and adapters
  between interfaces; no state that a step of another could disturb.
- The branches for a padding factory that is nil (`session.go:277`, `442`):
  `UpdatePaddingScheme` never stores one.  That `SetReadDeadline` of a pipe
  refuses once the pipe is closed (`io_pipe.go:268`): the model sets it all the
  same, which adds behaviours and takes none away.
- The ticker of a periodic task and the `recover()` that ends one: the tasks are
  modelled as processes that run one time after the other.
- `bufio.CopyConn`, `bufio.CopyPacketConn`, the ACL engine and the panel's HTTP
  client are libraries, modelled as their callers use them.
- Traffic counted between the last report and the end of the process is lost;
  the code makes no attempt to report it.

## Plan

Done: the modules above.  The safety invariants and the action properties of all
components are theorems, and so are the refinements of `ByteStream`, `SessionPool`
and `StreamLife`.  Left:

1. The order of data within a session: that what a handler reads of a stream's
   pipe is what the peer sent on it, across the queue of frames and the pipe
   (`Session` counts frames; `Pipe` keeps the bytes).
2. A fairness-free account of how a closed session ends: a rank that each step of
   the closing threads lowers, as a theorem beside the liveness properties TLC
   checks.
