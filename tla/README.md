# discord-rpc in TLA+

A verification project for the `discord-rpc` client library: TLA+ models of its
concurrent core, TLC configurations that check them on small instances, and
proofs, checked by TLAPS, of the properties that matter most for instances of
every size. Every definition is translated from the source; `PROJECT.json` maps
each one to its lines.

## 1. The system

The library lets a game tell the Discord clients on the same machine what is
being played, and hear from them about join and spectate requests. This version
talks to *several* clients: one connection per IPC path found by a path scan.

Two threads run in it. The application's thread calls the public functions and
`Discord_RunCallbacks`. The IO thread calls `Discord_UpdateConnection` at least
every 500 ms. With `DISCORD_DISABLE_IO_THREAD` there is no second thread and the
application calls `Discord_UpdateConnection` itself.

### Components

| Component | Source | State | Operations | Modelled by |
|---|---|---|---|---|
| Message queues | `msg_queue.h` | ring, three wrapping counters | GetNextAddMessage, CommitAdd, HavePendingSends, GetNextSendMessage, CommitSend | `MsgQueue` |
| RpcConnection | `rpc_connection.cpp/.h` | session state, last error, the pipe | Open, Read, Write, Close, Create, Destroy | `RpcConnection` |
| IO thread | `discord_rpc.cpp` 112-157, 194-413 | Connections, CachedPathSet, per-connection flags and presence | Discord_UpdateConnection, onConnect, onDisconnect, start and stop | `IoThread` |
| Callbacks | `discord_rpc.cpp` 561-674 | flags taken, snapshots | Discord_RunCallbacks | `RunCallbacks` |
| Public functions | `discord_rpc.cpp` 415-559, 676-701 | Handlers, QueuedHandlers, presences | Initialize, Shutdown, UpdatePresence(ForUser), Clear..., Respond, UpdateHandlers | `ApiCalls`, `Registration` |
| IPC transport | `connection_unix.cpp`, `connection_win.cpp` | socket or pipe | Open, Close, Read, Write | `Framing` |
| Path scan | the same | directory iterator, queue of directories | ScanAvailablePaths | `PathScan` |
| Backoff, scan interval | `backoff.h`, `discord_rpc.cpp` 254-315 | current delay, nextConnect, LastPathScan | nextDelay, reset, when a tick scans and opens | `Backoff`, `Schedule` |
| Serialization | `serialization.cpp/.h` | an allocator's buffer | JSON writers, StringCopy, NumberToString, LinearAllocator | `Serialization` |
| Launch registration | `discord_register_*` | none shared | registry, desktop files | no: one-shot I/O |
| Build scripts, DLL entry, examples | | | | no |

### How they interact

* Both threads share `Connections` (under `ConnectionsMutex`, copied into a
  snapshot and used after the unlock), the handlers (`HandlerMutex`), each
  connection's presence (`presenceMutex`), the atomic flags `wasJustConnected`,
  `wasJustDisconnected` and `updatePresence`, the global signal flags, and the
  two lock-free queues.
* `RpcConnection` calls back into `discord_rpc.cpp` in the middle of `Open`,
  `Read` and `Write` (`onConnect`, `onDisconnect`); `onDisconnect` runs *before*
  the connection's state changes.
* `Discord_RunCallbacks` calls the application with `HandlerMutex` held, and the
  application may call the library from there.

### What is hard

The order in which flags are raised and read by two threads; snapshots that
outlive the list they were taken from; a connection that fails at any call, in
the middle of a frame or of a pong; objects that are erased and made again for
the same path; state that survives a reconnection or a shutdown (presences,
handlers, queued messages); a lock-free queue with two producers; callbacks
under a mutex; two clocks, an interval and a backoff that add up before a client
is connected; directories that change while they are read; bytes that arrive and
leave in pieces; conditions and sizes of messages that are stated twice.
`PROJECT.json` lists each hazard at its line, with the property
that covers it or the reason why none does yet.

### What makes each component correct

* Queue: messages come out once, complete, in order; the two threads are never
  in the same slot.
* RpcConnection: one `onConnect` at most and exactly one `onDisconnect` per
  session that ends; pipe and state agree; the end of the pipe is noticed.
* IO thread: the assertion of its loop holds; a presence set while connected
  reaches the client; the queue is drained, and its two producers do not overrun
  it by more than the one slot the other is filling.
* Callbacks: what the application was told last about a path is what the
  connection is, other signals come between ready and disconnected.
* Transport: whole frames, on either platform, whatever the pieces they come in
  (headers on unix excepted); a frame that went out in part is the last.
* Path scan and schedule: who is there is found, and connected in bounded time.
* Serialization: each message is one JSON object that fits its buffer.
* Public functions: Shutdown returns and leaves nothing behind; a callback may call
  the library.

## 2. The modules

```
BoundedFifo      the queue's promise
  ^ refined by
MsgQueue         msg_queue.h             MsgQueueProofs        MCMsgQueue
RpcSession       an RpcConnection's promise
  ^ refined by
RpcConnection    rpc_connection.cpp      RpcConnectionProofs   MCRpcConnection
  ^ refined by
Framing          connection_unix.cpp, connection_win.cpp
                                         FramingProofs         MCWire
Serialization    serialization.cpp/.h    SerializationProofs   MCWire
PathScan         ScanAvailablePaths      PathScanProofs
  Backoff        backoff.h
  Schedule       the times of scans and attempts, with both
                                         ScheduleProofs        MCSchedule
DiscordState     shared state of discord_rpc.cpp, Init
  Registration   Discord_UpdateHandlers, called on either thread
  IoThread       Discord_UpdateConnection and its thread
  RunCallbacks   Discord_RunCallbacks
  ApiCalls       the other public functions
  DiscordRpc     their composition       DiscordRpcProofs      MCDiscordRpc
                                         CallbackProofs
    Sessions     it, connection by connection, refines RpcSession  MCSessions
```

**MsgQueue.** One step per atomic operation; filling a slot takes two steps, so
that a torn message can be seen. The names of the threads are constants
(`Producers`, `Consumer`), so that the same module describes the use the header
allows and the one `SendQueue` is put to. `Wrap` stands for 2^32; its assumption
is that the queue size divides it, which holds for the sizes 8 and 16 of
`discord_rpc.cpp`.

**RpcConnection.** `state`, `isOpen` and `lastErrorCode` are the fields; `inbox`
is what the client has sent and `Read` has not taken, frame by frame; `reading`
says which call of `Read` is under way, since `Read` loops and the client acts
between two rounds. `readies` and `notices` count the calls of `onConnect` and
`onDisconnect` in the session. The bytes of a frame are reduced to its kind.

**DiscordState, Registration, IoThread, RunCallbacks, ApiCalls.** The variables are the globals
of `discord_rpc.cpp` and the fields of `PerConnectionState`, one function over
connections each, and a program counter with local variables for each of the
three activities (`ioPc`, `rcPc`, `opPc`). A connection is a pair of a path and
a slot, the slot telling apart the objects that are made one after the other for
one path while a snapshot keeps the old one alive. A step is a block under a
mutex, one access to an atomic, or one I/O call. From `RpcConnection` they use
what `RpcSession` states: `Open`, `Read` and `Write` succeed, find nothing, or
end the session, and the end is reported before the state changes (`Lose`, then
`Closed`). `present` and `shown` belong to the clients; `told` records what the
callbacks said last.

`SendQueue` has two producers, the application (`Discord_Respond`,
`Discord_UpdateHandlers`) and the IO thread (`onConnect`). `sendQueue` is
`pendingSends_`, the number of messages committed. Each producer looks at it and
reserves a slot in one step (`Room`, in `RespondReserves` and `LookAtEvent`) and
commits in another (`RespondCommits`, `CommitEvent`), so that both can have found the
last slot free. What a slot then holds is the matter of `MsgQueue`, where it is shown
to go wrong; here messages are alike and only counted. That the room check and
the reservation are two accesses makes no difference to the count, which neither
changes. `asks`, for `JoinAskQueue`, has one producer and one consumer.

`HandlerMutex` is held over several steps: by `Discord_RunCallbacks` while a
callback runs, and by `Discord_UpdateHandlers`, on either thread, from `Lock`
through its three events (`Registration`) to `SetHandlers`. `updater` says who is
in there. `Discord_Respond`, the sending loop and `Discord_Shutdown`, which clears
`Handlers` without the mutex, go on meanwhile.

`Discord_UpdatePresenceForUser` compares the user (`FindUser`) before it takes
`presenceMutex` and stores the presence (`SetPresenceForUser`); the connection may get
another user in between.

Two pairs of accesses are one step because nothing that matters lies between
them: the exchange of a flag and the call of its handler under `HandlerMutex`
(the handler set may change in between, and the step then stands for the later
order), and the write of a presence and its flag, both under `presenceMutex`
(the IO thread copies the presence under the same mutex after taking the flag).

Not in the state: error codes and messages, secrets, nonces, and clocks. The
backoff time and the scan interval are reduced to "now or later" (`OpenLater`,
and `Tick` with the old path set); `Schedule` has them. The forced first scan is
taken as happening, which is the case ten seconds after `steady_clock`'s epoch.

**Sessions.** `DiscordRpc` with two history variables, `readies` and `notices`:
the calls of `onConnect` and `onDisconnect` in the last session of each connection.
`CountingSpec` adds them to `Spec` without restricting it: each is set to one value
that follows from the step. `Status(c)` reads a connection's state as `RpcSession`'s (a
connection in `Close` is down from the call of `onDisconnect` on), and `AreSessions`
is the refinement, one instance of `RpcSession` for each connection. What
`Discord_UpdateConnection` may expect of `RpcConnection` and what `RpcConnection`
implements are so the same module. An object that is erased and made again begins
anew (`Remade`).

**Framing.** `RpcConnection` once more, on the bytes of the pipe: `Read` takes a
header and then a body, each with one call of the system; a client writes its
frames in pieces, and may leave between any two bytes. Where `recv` finds too little
it has taken it all the same, while on Windows `PeekNamedPipe` takes nothing
(`Left`); `send` may take a part of a frame (`Sent`). The mapping `Inbox` reads
the bytes as frames, the last of which may lack its body, and `IsRpcConnection`
is the refinement. Two cases are beyond it, and beyond what the code handles.
`SplitsHeaders` are the platforms on which clients write a header in pieces: on unix
part of a header is dropped and what follows is misread. And on Windows a client
that leaves within a header is not noticed before a write fails
(`connection_win.cpp:132-149`: the pipe does not read empty); to the connection it
looks like one that is still there, which is what `PeerSeen` makes of it, and
`GoneIsNoticed` does not speak of it. Bytes carry the kind of their frame and their place in it; a
header that is not one may say anything (`Says`).

**PathScan.** The loop of `directory_find_next_recursive` over `readdir`, entry by
entry in any order, with the queue of directories; `Opens` may fail on the
directories in `Unsure`. Sockets come and go at any step, and `rest`, what the
open directory has left to return, may or may not follow. `throughout` and
`sometime` are history: who was there all the time, and at some time. `Certain`
and `Possible` are the specification: the least sets of directories closed under
descent. The tree itself does not change. Windows, with all pipes in one
directory, is the case `Dirs = {Root}`.

**Backoff, Schedule.** `Discord_UpdateConnection` with its times and without its
messages: a tick scans if `ScanInterval` has passed, lists connections, and gives
each a turn. Time is counted in units between ticks: `Elapse` is followed by a
tick, further ticks may come at any time (`Discord_UpdateConnection` called by the
application, or a notification), and a tick takes no time. (On Windows `Open` may
wait ten seconds for a busy pipe; that is left out.) `sinceScan` and
`untilConnect` are the differences the code computes; `SetAhead` and `SetBack`
move `system_clock`, by which `nextConnect` is kept, and not `steady_clock`. A
client that listens answers the handshake by the next attempt; it may end,
removing its socket, or crash, leaving it; the session is then `stale` until a
read finds the end of the pipe. If it had sent READY before, `Open` reads that first
(`OpenGetsLeftReady`): the backoff is reset, and the end is found by the read loop of
a later tick. `waited` is history: for how long a client that
listens has had no session.

**Serialization.** The writers are operators that return the tokens they hand to
RapidJSON, each with the characters it takes at most; `Put` is RapidJSON's part,
a stack of open objects and arrays, and `Puts` the text that becomes of one token
after the other. A C string is its length. What bounds a message is stated as
assumptions: the documented limits of the texts (`PresencesAssumption`), the
length of the keys (`NamesAssumption`), of `appId` and user ids (`IdsAssumption`) and
the room in the buffer (`RoomAssumption`). `NumberToString` and `StringCopy` are
operators too. The only state is which of them is called with
what, and `LinearAllocator`, which answers one request after the other: `heap` has
its two pointers and, as history, the blocks it handed out.

## 3. The runs

| Run | Instance | Shows |
|---|---|---|
| `msgqueue_spsc` | 3 slots, counters modulo 6, 2 messages | `NoSharedSlot`; `IsFifo`: the ring implements the FIFO, across wraps; `IsServed` |
| `msgqueue_two_producers` | 2 slots, two producers, one of which is the consumer's thread | **violated**: `NoSharedSlot` |
| `rpc_connection` | 3 frames in the pipe | `SessionMatchesPipe`, `IsSession`, `GoneIsNoticed`, `ReadyIsHeard` |
| `presence` | IO thread, 1 path, client comes and goes, 2 users, presences for all and for a user, handlers cleared and set, Shutdown | `OpenOrPresent`, `NoLostPresence`, `PresenceReachesClient` (liveness) |
| `callbacks_sequential` | no IO thread, 2 paths, all handlers, join signals and requests (2 places), Respond in a callback | `BeliefMatches`, `BookEnded`, `EventuallyTold`, `CallbacksEnd` |
| `lifecycle` | IO thread, 1 path, Initialize, Shutdown, UpdateHandlers, UpdatePresence, Respond (also in a callback) | `NothingRunsAfterShutdown`, `SendQueueBound`, `ShutdownReturns`, `FullQueueGetsRoom`; `AreSessions`: each connection is a session of `RpcSession` |
| `schedule` | 5 directories (3 searched, one of which may be unreadable, one below another), 2 clients, one of them where no scan looks, backoff 1 to 3, a scan every 2, system_clock set ahead at will and back by 1 | `ScanFindsAll`, `ScanFindsOnly`, `ConnectedInTime`, `TicksEnd` |
| `wire` | headers of 3 bytes, bodies of 0, 1 and 2, 3 frames, both platforms; 2,000 presences and the other messages, numbers of 8 bits, buffers of up to 3, 4 requests to an allocator | `IsRpcConnection`, `TornIsLast`, `GoneIsNoticed`, `MessagesAreWhole`, `PartsAreNotEmpty`, `NumbersReadBack`, `CopiesFit`, `BlocksFit` |
| `callbacks_threaded` | IO thread, 1 path | **violated**: `BeliefMatches` |
| `callbacks_vanish` | no IO thread, 1 path whose client goes away | **violated**: `BeliefMatches` |
| `presence_for_user` | 2 users, 1 path | **violated**: `ShownToAddressee` |
| `reentrant` | IO thread, Shutdown in a callback | **violated**: `CallbacksMayCallBack` |

The bounds. Three slots are the least for which a producer, a consumer and a
waiting message have one each, and the counters wrap twice. Three frames let a
whole frame, a ping whose pong fails and a partial frame wait together. One
path is enough where connections only meet in the queue and in the handlers;
`callbacks_sequential` has two because `Discord_RunCallbacks` walks over all of
them in each phase. Each path has one slot: `Tick` waits until
the application's snapshot is released before it makes the path's next object.
That a snapshot holds an object which has been replaced is left out of the runs
so; the proofs of `NoLostPresence`, `OpenOrPresent`, `TypeOK` and
`NothingRunsAfterShutdown` have it, for any number of slots. The queues have one place
each, so that they are full at once (`JoinAskQueue` two where it must be emptied), and
`lifecycle` reaches two messages in a `SendQueue` of one. Users are
left out (no READY names one) where the property does not look at them. The
three properties of these runs with the least margin, `NoLostPresence`,
`OpenOrPresent` and `NothingRunsAfterShutdown`, are also proved without bounds.

`presence` does not call `Discord_RunCallbacks`, which touches no presence, and
`callbacks_sequential` sets none. `presence` does not call `Discord_Respond` either,
and its handlers subscribe to nothing: an application that goes on filling `SendQueue`
keeps the IO thread in the loop that empties it (`discord_rpc.cpp:402-412`), and
`PresenceReachesClient` then fails.

In `schedule` the scan interval is shorter than twice the longest delay, so that
the two parts of the bound differ; the invariants are
proved for all values. Units of the model are not seconds: with the numbers of
the code (a scan every 10 s, delays up to 10 s, ticks 0.5 s apart) the bound says
30 s plus what `system_clock` was set back by. What the run adds to the proof is
`TicksEnd`.

In `wire` a header of three bytes can be cut at its first and at a later byte, a
body may be empty, whole, or cut. Each group of fields of a presence (texts,
timestamps, images, party, buttons and secrets) is varied on its own, with all
the others absent and with all of them present at their longest, since the groups
share no condition. `MaxMessageSize` is the 16 KiB of `QueuedMessage`, lengths are
the documented limits (`discord_rpc.h:26-75`), and a character takes up to five in
JSON, which is the most `RoomAssumption` allows a buffer of that size. If every
character were a control character, which takes six, the longest presence would not
fit and `DirectStringBuffer` would cut it off. The messages do
not depend on the connection: they are looked at once, before it is first used.

### The five violations

* `msg_queue.h:5-6` allows one producer; `SendQueue` has two (the application in
  `Discord_Respond` and `Discord_UpdateHandlers`, the IO thread in `onConnect`).
  The application reserves a slot and is still filling it when the IO thread reserves
  the next, fills and commits it; the commit is counted for the first slot, and
  the IO thread, sending, takes the slot that is still being filled.
* `discord_rpc.cpp:563-565` promises a sane sequence. With the IO thread,
  `wasJustDisconnected`, `IsOpen` and `wasJustConnected` are read at different
  moments, and the last callback can be `disconnected` for a connection that is
  open, or `ready` for one that is closed, for good.
* The same promise fails without threads when a client goes away: the connection
  is erased together with the disconnect it has not reported.
* `discord_rpc.h:125` promises that the `ForUser` functions target a user. The
  presence is kept with the connection and sent again after another user has
  logged in there.
* `discord_rpc.cpp:571-572` expects callbacks to call back into the library.
  `HandlerMutex` is held meanwhile, and `Discord_Shutdown` in a callback joins an
  IO thread that waits for it.

`callbacks_sequential` shows that the sequence *is* sane without the thread and
with clients that stay on their path: the ordering in `Discord_RunCallbacks` is
right, its reads are what races.

### Fairness

`IoFairness`: the thread runs on (weak fairness of its steps); a tick begins
again and again (the 500 ms wait); the read loop reaches the end of what the
client has sent, that is, a client does not send for ever without a pause; and
`onConnect` gets `HandlerMutex` if it is free again and again (strong fairness of
`ConnectLocks`: a mutex that is not starved). Whoever is in `Discord_UpdateHandlers`
goes on (`RegistrationStep`). `AppFairness`: a call that has begun runs on, callbacks return,
and the application calls `Discord_RunCallbacks` (and, without a thread,
`Discord_UpdateConnection`) again and again, as the README of the library asks.
Nothing is assumed about which calls succeed. `MsgQueue`
assumes that its consumer polls, `RpcConnection` and `Framing` that
their owner opens and reads in every tick. `ScheduleFairness`: the thread goes on
ticking and each tick goes on; `readdir` gets to every directory it has yet to
return, and to the end of a directory although sockets come and go in it.
No fairness is assumed of clients anywhere.

## 4. The proofs

All for arbitrary constants, under the named assumptions of the modules.

* `MsgQueueProofs!SingleProducerIsSafe`: with `Producers = {p}`, every
  `QueueSize >= 1` and every `Wrap` it divides, `TypeOK` and `NoSharedSlot` hold.
  `NoSharedSlot` is not inductive: the invariant `Ring` ties `nextAdd` to
  `nextSend` plus the messages pending, reserved and being read, modulo `Wrap`;
  `Folding` and `Apart` are the modular arithmetic that turns the distance of the
  counters into different slots. `ImplementsFifo` goes on from there to the contents:
  what is committed and not yet taken lies, complete and in order, in the slots from
  `nextSend` on, so that each step of the ring is one of `BoundedFifo` or a stutter.
* `RpcConnectionProofs!PipeMatchesSession` and `ImplementsSession`: the invariant
  adds `Books` (a running session was begun by a handshake and not yet reported
  as ended, one that waits was not reported as ready); with it every step is a
  step of `RpcSession` or a stutter.
* `DiscordRpcProofs!TypeCorrect`: one lemma for each part of `TypeOK`, by groups
  of actions; frame lemmas state what each group leaves alone.
* `DiscordRpcProofs!QueueOverrunsByOne`: for every size, `SendQueue` holds one
  message at most beyond it. The invariant counts the slots a thread has reserved and
  not committed with the messages (`SlotsCounted`), and needs `MutexHeld`: of the
  application and the IO thread only one is in `Discord_UpdateHandlers`, and the
  application is in one call at a time, so that there are two such slots at most.
* `DiscordRpcProofs!ShutdownStops`: from `RunsOnlyWhenAsked`, which says where the
  IO thread can be while the application initialises or joins.
* `DiscordRpcProofs!AssertionHolds`: `assert(false)` at line 307 is unreachable.
  The invariant `StillToVisit` carries what the mutex block established through
  the whole loop: the connection at hand is not one of those to come, and
  nobody else opens, closes or rescans (this uses `RunsOnlyWhenAsked`).
* `DiscordRpcProofs!PresenceIsNotLost`: `Delivered` adds, to `NoLostPresence`,
  that a presence about to be written is the one set last unless the connection
  is flagged again.
* `DiscordRpcProofs!ConnectionsAreSessions`: `Moves` are the six things a step can do
  to a connection as far as `RpcSession` tells them apart; that each step does one of
  them is shown without the counts, from `TypeOK`, `RunsOnlyWhenAsked` and `AtWork`
  (where the read loop or `onConnect` is, the connection is open; what `Close` works on
  was not closed before). `Books` then ties the counts to the state, and each of the six is a
  step of `RpcSession` or a stutter. `AtWork` does not hold where a presence is
  written: the read loop may have lost the connection, and the failing write must
  then report nothing (`Reports`).
* `DiscordRpcProofs!PresencesReachTheirUsers`: the property that the run
  `presence_for_user` finds violated holds as long as no connection gets another user
  (`UsersStay`). So the change of user under a presence that is kept is the one
  cause: setting, copying and writing it, failing and starting over do not mix up users.
  `Belongs` says of what is kept, under way and shown that it is for the user of the
  connection.
* `CallbackProofs!BeliefIsRight` and `SignalsAreBookEnded`: the promise of
  `discord_rpc.cpp:563-565`, under the hypotheses without which it is broken.
  `Listening` is: no IO thread and no client that vanishes (the runs
  `callbacks_threaded` and `callbacks_vanish` show what happens otherwise), and an
  application that has set `ready` and `disconnected` and does not take its handlers
  away, since a callback that is not there tells nothing. The number of paths,
  connections, users, presences and calls is arbitrary, calls from callbacks
  included. The invariant `Coherent` says for each
  connection what the application has still to be told, from its flags, its state and
  the phase of `Discord_RunCallbacks` (`Tales`), that the snapshot in use is the list
  (`SnapshotIsCurrent`), and that there are handlers where there is something to tell
  (`HandlersAreSet`). `SignalsAreBookEnded` also needs `Patient`: signals outlive
  `Discord_Shutdown`, and a call of `Discord_UpdateHandlers` before the next
  connection would have them told then; a `Discord_Shutdown` from a callback empties
  the list in the middle of a round.

* `FramingProofs`: `TypeCorrect` and `TornFrameIsLast` for every size of headers and
  bodies and every way to cut them. `ImplementsRpcConnection`: the invariant is
  `Typed /\ Aligned`; `Aligned` says that the header `Read` has, the bytes in the pipe
  and those the client has still to write are whole frames, one after the other, and
  that a header is in the pipe in part only where `SplitsHeaders` allows it and there
  is room for its frame. The frames of the mapping are counted by their ends: the lemmas on `Rank`,
  `Nth` and `Told` say how the frames change when a byte is added or a frame taken.
  The hypothesis is that on unix headers come in one piece (`"unix" \notin
  SplitsHeaders`): `recv` that finds less than a header has taken it all the same, the
  next `Read` starts in the middle of a frame, and the refinement fails. What the
  owner relies on does not: `ImplementsSession` proves `RpcSession` of the bytes
  directly, with no hypothesis. What follows a lost header is garbage, but the
  session still begins once and ends once.

* `SerializationProofs!MessagesAreAlwaysWhole` and `PartsAreNeverEmpty`: whatever is
  null, empty or present in a presence, and however long its texts are within their
  limits. A writer's tokens are described by what they do to a text that is being
  written (`IsValue`: one value where a value may come; `AreItems`: members of an open
  object or array), with how many members they add, how many of their parts are
  empty and how many characters they take. There is one lemma for each writer and one for each
  way of putting tokens together (`ItemsBoth`, `ItemsWhen`, `ItemsMember`,
  `Enclosed`), so that the sizes add up to `RoomAssumption` and a condition stated
  twice in the code has to agree with itself: `Assets`, say, is not empty because
  `HasAssets` is the disjunction of conditions under which its parts are written.
  `PutsConcat`, on which they rest, is an induction over the length of a sequence.
* `SerializationProofs!NumbersAlwaysReadBack`: for ints of every `Width`, by
  induction over the number (its last digit, and its tenth), after `Reverse`.
  The library's induction theorems take an operator; `Induction` and `LeastNumber` are
  stated about sets of numbers instead and follow from the well-foundedness of Nat.
* `SerializationProofs`: `CopiesAlwaysFit`, from what `StringCopy`'s loop leaves behind
  (`CopyFits`), and `BlocksAlwaysFit`, with the invariant `HeapInv`, by which `buffer_`
  is where the last block ends and never past `end_`. Both for buffers of every size,
  the second for every number of requests (`MaxBlocks` is any bound).

* `PathScanProofs!FindsAll` and `FindsOnly`: the invariant is that of graph search.
  `Done(V)` says that the directories of V have been searched and lead only to V,
  to the one being read, to those waiting and to what is left to read; when
  nothing is left V is closed under descent and holds `Certain`
  (`ClosedHoldsCertain`). `WithinBounds` is the other half: what waits is within
  `Possible`. From `TreeAssumption` and `AcyclicAssumption` only.
* `ScheduleProofs!IsConnectedInTime`, with `ScheduleTypes` and `ScansAreScans`:
  each step of `Schedule` is one of `PathScan` or leaves it alone, so `FindsAll`
  holds of the scans of a tick. The wait is then bounded in parts: `WaitForScan`
  (no path known: at most the time since the last scan, because that scan would
  have found who waited then), `WaitForAttempt` (a path known: what was waited
  plus what is left until the next attempt, `Ahead`, stays below the bound while
  time passes from one to the other), and `WaitIsReal`. `Ahead` counts at least
  one unit where a tick is over, since a tick that was due could not serve again.

Only model-checked: everything temporal (`PresenceReachesClient`,
`EventuallyTold`, `ShutdownReturns`, `FullQueueGetsRoom`, `GoneIsNoticed`,
`ReadyIsHeard`, `CallbacksEnd`, `TicksEnd`, `IsServed`), since TLAPS has no support
for ENABLED. For four of the five violations a theorem says under which conditions the
property holds: `SingleProducerIsSafe`, `BeliefIsRight` (for two of them) and
`PresencesReachTheirUsers`. Every invariant and refinement that a passing run
checks is also a theorem.

## 5. Plan

The order is by importance. Done: items 1 to 8.

1. `MsgQueue` against `BoundedFifo`, with one and two producers.
2. `RpcConnection` against `RpcSession`.
3. `DiscordState`, `IoThread`, `RunCallbacks`, `ApiCalls`, composed in
   `DiscordRpc`; its runs.
4. `PathScan`, `Backoff` and the two clocks, composed in `Schedule`.
5. `Framing` against `RpcConnection`; `Serialization`.
6. Proofs: types, shutdown, the assertion, presences; scans and the bounded wait.
7. Proofs: `BeliefMatches` and `BookEnded` for the build without a thread; `IsFifo`;
   `Framing` against `RpcConnection` and `RpcSession`; copies and blocks.
8. Proofs: messages and numbers of `Serialization`; each connection of `DiscordRpc`
   against `RpcSession`; what rules out the violations.

Left: what the messages of `SendQueue` say, and with it which client is subscribed to
what; the users and codes that callbacks are given.

## 6. Not modelled

* The text of JSON and its parsing by RapidJSON: `JsonDocument` and the
  `Get...Member` functions are reduced to the kind of message that was read.
* Requests that lack a field (`discord_rpc.cpp:367`), which leave a slot of
  `JoinAskQueue` reserved; payloads of callbacks (users, error codes, secrets).
* The registration of launch commands (`discord_register_*`): one-shot writes to
  the registry or to desktop files, no state shared with the rest.
  `Discord_Initialize` is modelled without this step.
* The DLL entry, the build, the examples, and failures of `new`.
* More than one application thread: the header does not say that more may call.
