----------------------------- MODULE DiscordRpc -----------------------------
(***************************************************************************)
(* The library: the application's thread and the IO thread over the state  *)
(* of discord_rpc.cpp, with clients that come and go.                      *)
(***************************************************************************)
EXTENDS IoThread, RunCallbacks, ApiCalls

\* A client stops listening, or starts to.  Its connections notice on their own
\* (a read or a write fails).
ClientLeaves(p) ==
    /\ p \in Vanishing \cap present
    /\ present' = present \ {p}
    /\ UNCHANGED <<globals, handling, queues, conns, shown, ioVars, rcVars, opVars>>

ClientComes(p) ==
    /\ p \in Paths \ present
    /\ present' = present \cup {p}
    /\ UNCHANGED <<globals, handling, queues, conns, shown, ioVars, rcVars, opVars>>

Client == \E p \in Paths : ClientLeaves(p) \/ ClientComes(p)

Next == IoStep \/ CallRunCallbacks \/ RcStep \/ CallbackReturns \/ ApiCall \/ ApiStep
            \/ RegistrationStep \/ Client

(***************************************************************************)
(* Fairness.  The IO thread runs on its own and wakes up after 500 ms at   *)
(* the latest; without it the application calls Discord_UpdateConnection   *)
(* and Discord_RunCallbacks again and again, as the documentation asks.  A *)
(* call that has begun runs on, its callbacks return, and a read loop gets *)
(* to the end of what a client has sent.                                   *)
(***************************************************************************)
IoFairness ==
    /\ WF_vars(IoStep)
    /\ SF_vars(AnyTick)
    /\ SF_vars(ReadNothing)
    /\ SF_vars(ConnectLocks)

AppFairness ==
    /\ WF_vars(RcStep)
    /\ WF_vars(ApiStep)
    /\ SF_vars(CallbackReturns)
    /\ SF_vars(CallRunCallbacks)

Fairness == IoFairness /\ AppFairness /\ WF_vars(RegistrationStep)

Spec == Init /\ [][Next]_vars /\ Fairness

-----------------------------------------------------------------------------
IoPcs == {"off", "tick", "each", "handlers", "greet", "user", "closing", "read", "presence",
          "copy", "write", "requeue", "send", "done"}
RcPcs == {"idle", "flags", "isOpen", "first", "ready", "joinRequest", "last", "callback"}
             \cup Signals
OpPcs == {"idle", "presence", "forUser", "store", "respond", "reserved", "lock", "lockInit", "join"}

QueuedPresences == Activities \cup {NoPresence}

\* At every step, the variables the threads share and those they keep.
SharedOK ==
    /\ initialized \in BOOLEAN /\ scanned \in BOOLEAN /\ keepRunning \in BOOLEAN
    /\ connections \subseteq Conns
    /\ cachedPaths \subseteq Paths /\ present \subseteq Paths
    /\ handlers \subseteq HandlerNames /\ queuedHandlers \subseteq HandlerNames
    /\ raised \subseteq Signals
    /\ updater \in {"nobody", "io", "app"} /\ regPc \in {"look", "commit"}
    /\ regNext \in 1 .. Len(Events) + 1 /\ (regPc = "commit" => regNext <= Len(Events))
    /\ sendQueue \in Nat
    /\ asks \in 0 .. JoinQueueSize

ConnsOK ==
    /\ rpc \in [Conns -> {"Disconnected", "SentHandshake", "Connected"}]
    /\ justConn \in [Conns -> BOOLEAN]
    /\ justDisc \in [Conns -> BOOLEAN]
    /\ upd \in [Conns -> BOOLEAN]
    /\ queued \in [Conns -> QueuedPresences]
    /\ user \in [Conns -> Users \cup {NoUser}]
    /\ shown \in [Conns -> QueuedPresences]

IoOK ==
    /\ ioPc \in IoPcs
    /\ ioSnap \subseteq Conns /\ ioTodo \subseteq Conns
    /\ ioCur \in Conns \cup {NoConn}
    /\ ioAfter \in {"each", "presence", "requeue", "send"}
    /\ ioPc \in {"handlers", "greet", "user", "closing", "read", "presence", "copy",
                 "write", "requeue"} => ioCur \in Conns
    /\ ioPc = "write" => ioLocal \in QueuedPresences

AppOK ==
    /\ rcPc \in RcPcs /\ rcBack \in RcPcs \ {"isOpen", "callback"} /\ rcWhat \in HandlerNames
    /\ rcSnap \subseteq Conns /\ rcTodo \subseteq Conns
    /\ rcWas \subseteq Conns /\ rcOpen \subseteq Conns
    /\ rcCur \in Conns \cup {NoConn}
    /\ rcPc = "isOpen" => rcCur \in Conns
    /\ rcPc = "callback" /\ rcWhat = "joinRequest" => asks > 0
    /\ opPc \in OpPcs /\ opTodo \subseteq Conns
    /\ opPc \in {"presence", "forUser", "store"} => opArg \in Activities
    /\ opPc = "store" => opCur \in opTodo
    /\ opPc \in {"lock", "lockInit"} => opArg \subseteq HandlerNames
    /\ told \in [Paths -> {"nothing", "ready", "disconnected"}]

\* JoinAskQueue stays within its size, the request a callback works on is still in
\* its queue, and every local variable is set where it is used.
TypeOK == SharedOK /\ ConnsOK /\ IoOK /\ AppOK

-----------------------------------------------------------------------------
\* "Connections matching both !IsOpen() and 'path gone' are erased above, so
\* reaching this branch indicates a broken invariant": assert(false) at
\* discord_rpc.cpp:307 is never reached, although connections close at every
\* step of a tick and clients come and go.
OpenOrPresent ==
    ioPc = "each" =>
        \A c \in ioTodo : rpc[c] = "Connected" \/ PathOf(c) \in cachedPaths

\* What the IO thread does with c's presence, or does to its session.
Busy(c) ==
    ioCur = c /\ ioPc \in {"handlers", "greet", "user", "closing", "copy", "write", "requeue"}

\* No presence is lost: a client that is connected shows the presence set last,
\* or its update is still flagged, or the IO thread is at it; whatever calls,
\* failed writes and reconnections came in between (discord_rpc.cpp:208-211,
\* 387-397, 499-502).
NoLostPresence ==
    \A c \in connections :
        rpc[c] = "Connected" /\ queued[c] # NoPresence /\ ~upd[c] /\ ~Busy(c)
            => shown[c] = queued[c]

\* And it gets there: if a connection stays up and the presence stays the same,
\* the client ends up showing it (discord_rpc.cpp:386-397).
PresenceReachesClient ==
    \A c \in Conns, p \in Activities :
        <>[](c \in connections /\ rpc[c] = "Connected" /\ queued[c] = p) => <>[](shown[c] = p)

\* A presence addressed to a user is shown by that user's client only
\* (discord_rpc.h:125-128, discord_rpc.cpp:524-532).
ShownToAddressee ==
    \A c \in Conns :
        rpc[c] = "Connected" /\ shown[c] # NoPresence /\ shown[c].to # Anyone
            => shown[c].to = user[c]

-----------------------------------------------------------------------------
\* Nothing about c is on its way to the application.
Settled(c) ==
    /\ rcPc = "idle"
    /\ ~justConn[c] /\ ~justDisc[c]
    /\ ~(ioCur = c /\ ioPc \in {"handlers", "greet", "user", "closing"})

\* "Externally, we want the sequence to seem sane": once nothing is on its way,
\* the last callback about a path was ready if and only if its connection is
\* open, although it may have come and gone any number of times in between
\* (discord_rpc.cpp:563-565, 582-604, 658-673).
BeliefMatches ==
    \A c \in connections : Settled(c) => (rpc[c] = "Connected" <=> told[PathOf(c)] = "ready")

\* "Any other signals are book-ended by calls to ready and disconnect": a join,
\* spectate or join request callback comes while some client is known to be
\* ready (discord_rpc.cpp:565).
BookEnded ==
    rcPc = "callback" /\ rcWhat \in Subscribable => \E p \in Paths : told[p] = "ready"

\* A connection that stays is told to the application (discord_rpc.cpp:607-618).
EventuallyTold ==
    \A c \in Conns :
        <>[](c \in connections /\ rpc[c] = "Connected") => <>[](told[PathOf(c)] = "ready")

\* Discord_RunCallbacks returns: its loop over the join requests comes to an end
\* (discord_rpc.cpp:646-655), and so does every other phase, although a client
\* may have filled the queue.  Without an IO thread nothing refills it meanwhile.
CallbacksEnd == (rcPc = "flags") ~> (rcPc = "idle")

-----------------------------------------------------------------------------
\* Once Discord_Shutdown has returned the IO thread has ended and no connection
\* is left (discord_rpc.cpp:138-145, 479-485).
NothingRunsAfterShutdown ==
    ~initialized => connections = {} /\ (Threaded => ioPc \in {"off", "done"})

\* Discord_Shutdown returns: the IO thread sees keepRunning, whatever it was at
\* (discord_rpc.cpp:128-132, 140-144).
ShutdownReturns == (opPc = "join") ~> (opPc # "join")

\* A SendQueue that is full gets room, or the library is shut down
\* (discord_rpc.cpp:402-412).
FullQueueGetsRoom ==
    (sendQueue >= MessageQueueSize) ~> (sendQueue < MessageQueueSize \/ ~initialized)

\* SendQueue takes one message at most beyond its size, and in a build without an IO
\* thread none: GetNextAddMessage counts what is committed, and of its two
\* producers one can be filling a slot while the other reserves and commits
\* (msg_queue.h:20-29, discord_rpc.cpp:166-190, 552-556).
SendQueueBound == sendQueue <= MessageQueueSize + (IF Threaded THEN 1 ELSE 0)

\* Callbacks "might call back into the library": no callback waits for a mutex
\* it holds itself, or for a thread that waits for that mutex
\* (discord_rpc.cpp:571-572, 609, 687, 479-480).
CallbacksMayCallBack ==
    ~ (rcPc = "callback" /\ (opPc \in {"lock", "lockInit"} \/ (opPc = "join" /\ ioPc = "handlers")))
=============================================================================
