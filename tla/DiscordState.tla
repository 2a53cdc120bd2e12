---------------------------- MODULE DiscordState ----------------------------
(***************************************************************************)
(* The state of discord_rpc.cpp and of the Discord clients it talks to,    *)
(* shared by the modules that model its two threads:                       *)
(*                                                                         *)
(*   IoThread      Discord_UpdateConnection and the thread that calls it,  *)
(*   RunCallbacks  Discord_RunCallbacks, on the application's thread,      *)
(*   ApiCalls      the other functions the application calls,              *)
(*   Registration  what both do in Discord_UpdateHandlers.                 *)
(*                                                                         *)
(* DiscordRpc composes them.  A step is what runs without touching state   *)
(* the other thread can see halfway: a mutex-protected block, one access   *)
(* to an atomic, one I/O call.                                             *)
(***************************************************************************)
EXTENDS Naturals, Sequences, FiniteSets

CONSTANTS
    Threaded,           \* FALSE: built with DISCORD_DISABLE_IO_THREAD
    Paths,              \* the IPC paths Discord clients may listen on
    Slots,              \* bounds the PerConnectionStates alive per path
    Users, NoUser,      \* NoUser: connectedUser before the first READY
    Presences,
    NoPresence,         \* queuedPresence.length = 0; a client that shows nothing
    Anyone,             \* the addressee of Discord_UpdatePresence
    MessageQueueSize,
    JoinQueueSize,
    HandlerSets,        \* the DiscordEventHandlers the application passes
    Vanishing,          \* the paths whose client may go away
    Incoming,           \* what clients send
    Calls,              \* the functions the application calls
    CallbackCalls       \* and those its callbacks call

\* The members of DiscordEventHandlers.
Subscribable == {"joinGame", "spectateGame", "joinRequest"}
HandlerNames == Subscribable \cup {"ready", "disconnected", "errored"}
\* Signals kept in a global flag between the threads.
Signals == {"errored", "joinGame", "spectateGame"}

ASSUME ConstantsAssumption ==
    /\ Threaded \in BOOLEAN
    /\ HandlerSets \subseteq SUBSET HandlerNames
    /\ Vanishing \subseteq Paths
    /\ Incoming \subseteq Signals \cup {"joinRequest"}
    /\ MessageQueueSize \in Nat /\ JoinQueueSize \in Nat
    /\ NoPresence \notin Presences /\ NoUser \notin Users /\ Anyone \notin Users

\* A PerConnectionState has the path it was made for.
Conns == Paths \X Slots
PathOf(c) == c[1]
NoConn == <<>>

\* A serialized presence, with the user it was addressed to.
Activities == [what : Presences, to : Users \cup {Anyone}]

\* The events Discord_UpdateHandlers looks at, in its order.
Events == <<"joinGame", "spectateGame", "joinRequest">>

VARIABLES
    \* globals
    initialized,        \* IoThread is not null, StoredAppId is set
    connections,        \* Connections
    cachedPaths,        \* CachedPathSet
    scanned,            \* LastPathScan is not its initial value
    handlers,           \* Handlers, as the set of members that are not null
    queuedHandlers,     \* QueuedHandlers
    updater,            \* who holds HandlerMutex in Discord_UpdateHandlers
    regPc, regNext,     \* and where it is: the event it has come to
    raised,             \* GotAnyErrorMessage, WasJoinGame, WasSpectateGame
    sendQueue,          \* SendQueue's pendingSends_: the messages committed
    asks,               \* how many requests are in JoinAskQueue
    keepRunning,        \* IoThreadHolder::keepRunning
    \* fields of each PerConnectionState
    rpc,                \* rpc->state
    justConn,           \* wasJustConnected
    justDisc,           \* wasJustDisconnected
    upd,                \* updatePresence
    queued,             \* queuedPresence
    user,               \* connectedUser
    \* the Discord clients
    present,            \* the paths a client listens on
    shown,              \* what the client of a connection shows for the game
    \* the IO thread: where it is, and its local variables
    ioPc, ioSnap, ioTodo, ioCur, ioAfter, ioLocal,
    \* Discord_RunCallbacks: the same
    rcPc, rcSnap, rcTodo, rcCur, rcWas, rcOpen, rcBack, rcWhat,
    \* any other call of the application, inside or outside a callback
    opPc, opTodo, opArg, opCur,
    \* what the callbacks told the application about each path
    told

globals == <<initialized, connections, cachedPaths, scanned, keepRunning>>
registration == <<updater, regPc, regNext>>
handling == <<handlers, queuedHandlers, registration>>
queues == <<raised, sendQueue, asks>>
flags == <<justConn, justDisc, upd>>
conns == <<rpc, flags, queued, user>>
clients == <<present, shown>>
ioVars == <<ioPc, ioSnap, ioTodo, ioCur, ioAfter, ioLocal>>
rcVars == <<rcPc, rcSnap, rcTodo, rcCur, rcWas, rcOpen, rcBack, rcWhat, told>>
opVars == <<opPc, opTodo, opArg, opCur>>
vars == <<globals, handling, queues, conns, clients, ioVars, rcVars, opVars>>

AppIdle == rcPc = "idle" /\ opPc = "idle"

\* HandlerMutex: RunCallbacks holds it while a callback runs, and a thread in
\* Discord_UpdateHandlers; every other critical section is a single step.
HandlerMutexFree == rcPc # "callback" /\ updater = "nobody"

\* The connections a snapshot of the application keeps alive.
Held == rcSnap \cup opTodo

\* Connections as they are made by AddConnection, or gone.
Refresh(fresh) ==
    /\ rpc' = [c \in Conns |-> IF c \in fresh THEN "Disconnected" ELSE rpc[c]]
    /\ justConn' = [c \in Conns |-> justConn[c] /\ c \notin fresh]
    /\ justDisc' = [c \in Conns |-> justDisc[c] /\ c \notin fresh]
    /\ upd' = [c \in Conns |-> upd[c] /\ c \notin fresh]
    /\ queued' = [c \in Conns |-> IF c \in fresh THEN NoPresence ELSE queued[c]]
    /\ user' = [c \in Conns |-> IF c \in fresh THEN NoUser ELSE user[c]]
    /\ shown' = [c \in Conns |-> IF c \in fresh THEN NoPresence ELSE shown[c]]

\* Mutant of Room: one message too many.
RoomOffByOne == sendQueue <= MessageQueueSize
\* SendQueue.GetNextAddMessage finds a slot.  What it compares counts the messages
\* committed; the slots reserved and still being filled are not among them.
Room == sendQueue < MessageQueueSize

Init ==
    /\ initialized = FALSE
    /\ connections = {}
    /\ cachedPaths = {}
    /\ scanned = FALSE
    /\ handlers = {}
    /\ queuedHandlers = {}
    /\ updater = "nobody" /\ regPc = "look" /\ regNext = 1
    /\ raised = {}
    /\ sendQueue = 0
    /\ asks = 0
    /\ keepRunning = TRUE
    /\ rpc = [c \in Conns |-> "Disconnected"]
    /\ justConn = [c \in Conns |-> FALSE]
    /\ justDisc = [c \in Conns |-> FALSE]
    /\ upd = [c \in Conns |-> FALSE]
    /\ queued = [c \in Conns |-> NoPresence]
    /\ user = [c \in Conns |-> NoUser]
    /\ present = Paths
    /\ shown = [c \in Conns |-> NoPresence]
    /\ ioPc = "off" /\ ioSnap = {} /\ ioTodo = {}
    /\ ioCur = NoConn /\ ioAfter = "each" /\ ioLocal = NoPresence
    /\ rcPc = "idle" /\ rcSnap = {} /\ rcTodo = {} /\ rcCur = NoConn
    /\ rcWas = {} /\ rcOpen = {} /\ rcBack = "idle" /\ rcWhat = "ready"
    /\ opPc = "idle" /\ opTodo = {} /\ opArg = NoPresence /\ opCur = NoConn
    /\ told = [p \in Paths |-> "nothing"]
=============================================================================
