------------------------------ MODULE IoThread ------------------------------
(***************************************************************************)
(* Discord_UpdateConnection and the IoThreadHolder loop that runs it.      *)
(*                                                                         *)
(* ioPc: "off" no thread; "tick" about to run Discord_UpdateConnection;    *)
(* "each" in the loop over the snapshot; "handlers" in or before           *)
(* Discord_UpdateHandlers, "greet" and "user" after it, all three in       *)
(* onConnect; "read" in the read loop; "presence", "copy", "write",        *)
(* "requeue" sending a presence; "closing" in RpcConnection::Close, after  *)
(* onDisconnect and before the state changes; "send" while a message of    *)
(* SendQueue is broadcast; "done" when the thread has returned.            *)
(*                                                                         *)
(* A connection is seen from its owner's side, as module RpcSession states *)
(* it: a call of Open, Read or Write succeeds, finds nothing or ends the   *)
(* session.                                                                *)
(***************************************************************************)
EXTENDS Registration

\* What RpcConnection::Close does first: onDisconnect, in the session's state.
Lose(c, after) ==
    /\ justDisc' = [justDisc EXCEPT ![c] = TRUE]
    /\ ioPc' = "closing"
    /\ ioCur' = c
    /\ ioAfter' = after

-----------------------------------------------------------------------------
\* Mutant of Expired: a connection is dropped for its state alone.
ExpiredMisses(c, paths) == FALSE
\* A connection to remove: it is not open and its path is gone.
Expired(c, paths) == PathOf(c) \notin paths /\ rpc[c] # "Connected"

FreeSlots(p) == {c \in Conns : PathOf(c) = p} \ (connections \cup Held)

\* The path scan, if it is due, and the block under ConnectionsMutex: connections
\* are added for new paths, expired ones removed, the rest is the snapshot.  The
\* first tick after Initialize scans; later ones scan when the interval is over.
Tick(paths) ==
    /\ ioPc = "tick"
    /\ Threaded \/ (AppIdle /\ initialized)
    /\ paths \in {present} \cup (IF scanned THEN {cachedPaths} ELSE {})
    /\ LET missing == paths \ {PathOf(c) : c \in connections}
           new == {CHOOSE c \in FreeSlots(p) : TRUE : p \in missing}
           gone == {c \in connections : Expired(c, paths)}
       IN  /\ \A p \in missing : FreeSlots(p) # {}
           /\ connections' = (connections \ gone) \cup new
           /\ Refresh(new \cup (gone \ Held))
    /\ cachedPaths' = paths
    /\ scanned' = TRUE
    /\ ioSnap' = connections'
    /\ ioTodo' = connections'
    /\ ioPc' = "each"
    /\ UNCHANGED <<initialized, keepRunning, handling, queues, present,
                   ioCur, ioAfter, ioLocal, rcVars, opVars>>

-----------------------------------------------------------------------------
(***************************************************************************)
(* A connection that is not open: RpcConnection::Open, if the backoff      *)
(* time is over.                                                           *)
(***************************************************************************)
Take(c) ==
    /\ ioPc = "each"
    /\ c \in ioTodo
    /\ ioTodo' = ioTodo \ {c}

\* It is not time yet, or nobody accepts, or no answer has come.
OpenLater(c) ==
    /\ Take(c)
    /\ rpc[c] # "Connected"
    /\ UNCHANGED <<globals, handling, queues, conns, clients,
                   ioPc, ioSnap, ioCur, ioAfter, ioLocal, rcVars, opVars>>

OpenSendsHandshake(c) ==
    /\ Take(c)
    /\ rpc[c] = "Disconnected"
    /\ PathOf(c) \in cachedPaths \cap present
    /\ rpc' = [rpc EXCEPT ![c] = "SentHandshake"]
    /\ UNCHANGED <<globals, handling, queues, flags, queued, user, clients,
                   ioPc, ioSnap, ioCur, ioAfter, ioLocal, rcVars, opVars>>

\* READY: the connection is open before onConnect runs.  Its client is in a new
\* session, in which it shows nothing yet.
OpenGetsReady(c) ==
    /\ Take(c)
    /\ rpc[c] = "SentHandshake"
    /\ PathOf(c) \in cachedPaths
    /\ rpc' = [rpc EXCEPT ![c] = "Connected"]
    /\ shown' = [shown EXCEPT ![c] = NoPresence]
    /\ ioPc' = "handlers"
    /\ ioCur' = c
    /\ UNCHANGED <<globals, handling, queues, flags, queued, user, present,
                   ioSnap, ioAfter, ioLocal, rcVars, opVars>>

OpenLosesHandshake(c) ==
    /\ Take(c)
    /\ rpc[c] = "SentHandshake"
    /\ PathOf(c) \in cachedPaths
    /\ Lose(c, "each")
    /\ UNCHANGED <<globals, handling, queues, rpc, justConn, upd, queued, user, clients,
                   ioSnap, ioLocal, rcVars, opVars>>

(***************************************************************************)
(* onConnect.                                                              *)
(***************************************************************************)
ConnectLocks ==
    /\ ioPc = "handlers"
    /\ Lock("io")
    /\ UNCHANGED <<globals, queues, conns, clients, ioVars, rcVars, opVars>>

ConnectHandlers ==
    /\ ioPc = "handlers"
    /\ SetHandlers("io")
    /\ ioPc' = "greet"
    /\ UNCHANGED <<globals, queues, conns, clients,
                   ioSnap, ioTodo, ioCur, ioAfter, ioLocal, rcVars, opVars>>

\* Mutant of Greets: a reconnecting client is not sent the presence again.
GreetsNever(c) == FALSE
\* The presence set before goes to the client of the new session.
Greets(c) == queued[c] # NoPresence

ConnectPresence ==
    /\ ioPc = "greet"
    /\ upd' = [upd EXCEPT ![ioCur] = @ \/ Greets(ioCur)]
    /\ ioPc' = "user"
    /\ UNCHANGED <<globals, handling, queues, rpc, justConn, justDisc, queued, user, clients,
                   ioSnap, ioTodo, ioCur, ioAfter, ioLocal, rcVars, opVars>>

\* A READY that names no user (NoUser) leaves the one of the last session.
ConnectUser(u) ==
    /\ ioPc = "user"
    /\ user' = [user EXCEPT ![ioCur] = IF u = NoUser THEN @ ELSE u]
    /\ justConn' = [justConn EXCEPT ![ioCur] = TRUE]
    /\ ioPc' = "each"
    /\ ioCur' = NoConn
    /\ UNCHANGED <<globals, handling, queues, rpc, justDisc, upd, queued, clients,
                   ioSnap, ioTodo, ioAfter, ioLocal, rcVars, opVars>>

\* The rest of Close; then the code that made the call goes on.
Closed ==
    /\ ioPc = "closing"
    /\ rpc' = [rpc EXCEPT ![ioCur] = "Disconnected"]
    /\ ioPc' = ioAfter
    /\ ioCur' = IF ioAfter \in {"each", "send"} THEN NoConn ELSE ioCur
    /\ ioAfter' = "each"
    /\ UNCHANGED <<globals, handling, queues, flags, queued, user, clients,
                   ioSnap, ioTodo, ioLocal, rcVars, opVars>>

-----------------------------------------------------------------------------
(***************************************************************************)
(* A connection that is open: the read loop.                               *)
(***************************************************************************)
StartReading(c) ==
    /\ Take(c)
    /\ rpc[c] = "Connected"
    /\ ioPc' = "read"
    /\ ioCur' = c
    /\ UNCHANGED <<globals, handling, queues, conns, clients,
                   ioSnap, ioAfter, ioLocal, rcVars, opVars>>

ReadSignal(s) ==
    /\ ioPc = "read"
    /\ s \in Signals
    /\ raised' = raised \cup {s}
    /\ UNCHANGED <<globals, handling, sendQueue, asks, conns, clients, ioVars, rcVars, opVars>>

\* Mutant of AskRoom: one request too many.
AskRoomOffByOne == asks <= JoinQueueSize
AskRoom == asks < JoinQueueSize

\* A join request, dropped when the application is behind.
ReadRequest ==
    /\ ioPc = "read"
    /\ "joinRequest" \in Incoming
    /\ AskRoom
    /\ asks' = asks + 1
    /\ UNCHANGED <<globals, handling, raised, sendQueue, conns, clients, ioVars, rcVars, opVars>>

ReadNothing ==
    /\ ioPc = "read"
    /\ ioPc' = "presence"
    /\ UNCHANGED <<globals, handling, queues, conns, clients,
                   ioSnap, ioTodo, ioCur, ioAfter, ioLocal, rcVars, opVars>>

ReadFails ==
    /\ ioPc = "read"
    /\ Lose(ioCur, "presence")
    /\ UNCHANGED <<globals, handling, queues, rpc, justConn, upd, queued, user, clients,
                   ioSnap, ioTodo, ioLocal, rcVars, opVars>>

(***************************************************************************)
(* ... and its presence, also when the read loop has just lost it.         *)
(***************************************************************************)
TakeUpdate ==
    /\ ioPc = "presence"
    /\ upd' = [upd EXCEPT ![ioCur] = FALSE]
    /\ IF upd[ioCur] /\ queued[ioCur] # NoPresence
         THEN ioPc' = "copy" /\ UNCHANGED ioCur
         ELSE ioPc' = "each" /\ ioCur' = NoConn
    /\ UNCHANGED <<globals, handling, queues, rpc, justConn, justDisc, queued, user, clients,
                   ioSnap, ioTodo, ioAfter, ioLocal, rcVars, opVars>>

CopyPresence ==
    /\ ioPc = "copy"
    /\ ioLocal' = queued[ioCur]
    /\ ioPc' = "write"
    /\ UNCHANGED <<globals, handling, queues, conns, clients,
                   ioSnap, ioTodo, ioCur, ioAfter, rcVars, opVars>>

WritePresence ==
    /\ ioPc = "write"
    /\ rpc[ioCur] = "Connected"
    /\ shown' = [shown EXCEPT ![ioCur] = ioLocal]
    /\ ioLocal' = NoPresence
    /\ ioPc' = "each"
    /\ ioCur' = NoConn
    /\ UNCHANGED <<globals, handling, queues, conns, present,
                   ioSnap, ioTodo, ioAfter, rcVars, opVars>>

\* Mutant of Reports: Close calls onDisconnect in every state.
ReportsAlways(c) == TRUE
\* Close reports the end only of a session that runs.
Reports(c) == rpc[c] # "Disconnected"

WritePresenceFails ==
    /\ ioPc = "write"
    /\ ioLocal' = NoPresence
    /\ IF Reports(ioCur)
         THEN Lose(ioCur, "requeue")
         ELSE ioPc' = "requeue" /\ UNCHANGED <<justDisc, ioCur, ioAfter>>
    /\ UNCHANGED <<globals, handling, queues, rpc, justConn, upd, queued, user, clients,
                   ioSnap, ioTodo, rcVars, opVars>>

Requeue ==
    /\ ioPc = "requeue"
    /\ upd' = [upd EXCEPT ![ioCur] = TRUE]
    /\ ioPc' = "each"
    /\ ioCur' = NoConn
    /\ UNCHANGED <<globals, handling, queues, rpc, justConn, justDisc, queued, user, clients,
                   ioSnap, ioTodo, ioAfter, ioLocal, rcVars, opVars>>

-----------------------------------------------------------------------------
(***************************************************************************)
(* Every message in SendQueue goes to every open connection.  Producers    *)
(* only add to the count, so that it may be taken when it is reduced.      *)
(***************************************************************************)
AllServed == ioPc \in {"each", "send"} /\ ioTodo = {}

\* Mutant of Unsent: CommitSend is forgotten.
UnsentAll == sendQueue
Unsent == sendQueue - 1

TakeMessage ==
    /\ AllServed
    /\ sendQueue > 0
    /\ sendQueue' = Unsent
    /\ ioTodo' = ioSnap
    /\ ioPc' = "send"
    /\ UNCHANGED <<globals, handling, raised, asks, conns, clients,
                   ioSnap, ioCur, ioAfter, ioLocal, rcVars, opVars>>

Addressed(c) ==
    /\ ioPc = "send"
    /\ c \in ioTodo
    /\ ioTodo' = ioTodo \ {c}

SendMessage(c) ==
    /\ Addressed(c)
    /\ rpc[c] = "Connected"
    /\ UNCHANGED <<globals, handling, queues, conns, clients,
                   ioPc, ioSnap, ioCur, ioAfter, ioLocal, rcVars, opVars>>

SendFails(c) ==
    /\ Addressed(c)
    /\ rpc[c] = "Connected"
    /\ Lose(c, "send")
    /\ UNCHANGED <<globals, handling, queues, rpc, justConn, upd, queued, user, clients,
                   ioSnap, ioLocal, rcVars, opVars>>

SkipClosed(c) ==
    /\ Addressed(c)
    /\ rpc[c] # "Connected"
    /\ UNCHANGED <<globals, handling, queues, conns, clients,
                   ioPc, ioSnap, ioCur, ioAfter, ioLocal, rcVars, opVars>>

\* Mutant of Stopped: the loop runs for ever.
StoppedNever == FALSE
Stopped == Threaded /\ ~keepRunning

\* The queue is drained, Discord_UpdateConnection returns.  The thread's loop
\* calls it again, 500 ms later at the latest, unless it has been stopped;
\* without a thread the application does.
EndTick ==
    /\ AllServed
    /\ sendQueue = 0
    /\ ioPc' = IF Stopped THEN "done" ELSE "tick"
    /\ ioSnap' = {}
    /\ UNCHANGED <<globals, handling, queues, conns, clients,
                   ioTodo, ioCur, ioAfter, ioLocal, rcVars, opVars>>

-----------------------------------------------------------------------------
AnyTick == \E paths \in {present, cachedPaths} : Tick(paths)

IoStep ==
    \/ AnyTick
    \/ \E c \in Conns :
        \/ OpenLater(c)
        \/ OpenSendsHandshake(c)
        \/ OpenGetsReady(c)
        \/ OpenLosesHandshake(c)
        \/ StartReading(c)
        \/ SendMessage(c)
        \/ SendFails(c)
        \/ SkipClosed(c)
    \/ ConnectLocks
    \/ ConnectHandlers
    \/ ConnectPresence
    \/ \E u \in Users \cup {NoUser} : ConnectUser(u)
    \/ Closed
    \/ \E s \in Incoming : ReadSignal(s)
    \/ ReadRequest
    \/ ReadNothing
    \/ ReadFails
    \/ TakeUpdate
    \/ CopyPresence
    \/ WritePresence
    \/ WritePresenceFails
    \/ Requeue
    \/ TakeMessage
    \/ EndTick
=============================================================================
