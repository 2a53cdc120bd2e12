------------------------------ MODULE ApiCalls ------------------------------
(***************************************************************************)
(* The functions of discord_rpc.h other than Discord_RunCallbacks.  The    *)
(* application calls one at a time, from its own code or from inside a     *)
(* callback.                                                               *)
(*                                                                         *)
(* opPc: "idle", or the call and how far it is: "presence" and "forUser"   *)
(* walk over a snapshot of the connections, "store" has found one whose    *)
(* user matches; "respond" is past the check that a connection is open,    *)
(* "reserved" has a slot of SendQueue; "lock" and "lockInit" wait for      *)
(* HandlerMutex, and "lock" is in Discord_UpdateHandlers while updater is  *)
(* "app"; "join" waits for the IO thread to end.                           *)
(***************************************************************************)
EXTENDS Registration

MayCall(call) ==
    /\ opPc = "idle"
    /\ \/ rcPc = "idle" /\ call \in Calls
       \/ rcPc = "callback" /\ call \in CallbackCalls
    /\ Threaded \/ ioPc \in {"off", "tick"}

Begin(pc, todo, arg) ==
    /\ opPc' = pc
    /\ opTodo' = todo
    /\ opArg' = arg
    /\ opCur' = NoConn

End == Begin("idle", {}, NoPresence)

\* Connections are only looked at.
ConnsUnchanged == UNCHANGED <<conns, clients>>

-----------------------------------------------------------------------------
\* Discord_UpdatePresence (and ClearPresence, with an empty presence) and
\* Discord_UpdatePresenceForUser copy Connections under its mutex, then write
\* the presence of each connection under that connection's mutex.
UpdatePresence(p) ==
    /\ MayCall("UpdatePresence")
    /\ Begin("presence", connections, [what |-> p, to |-> Anyone])
    /\ ConnsUnchanged
    /\ UNCHANGED <<globals, handling, queues, ioVars, rcVars>>

UpdatePresenceForUser(u, p) ==
    /\ MayCall("UpdatePresenceForUser")
    /\ Begin("forUser", connections, [what |-> p, to |-> u])
    /\ ConnsUnchanged
    /\ UNCHANGED <<globals, handling, queues, ioVars, rcVars>>

\* Mutant of Flagged: the presence is stored and not announced.
FlaggedNot(c) == upd
Flagged(c) == [upd EXCEPT ![c] = TRUE]

Matches(c) == user[c] = opArg.to

\* The user is compared without the mutex of the presence; the IO thread may give
\* the connection another one before that is taken.
FindUser(c) ==
    /\ opPc = "forUser"
    /\ c \in opTodo
    /\ Matches(c)
    /\ opPc' = "store"
    /\ opCur' = c
    /\ ConnsUnchanged
    /\ UNCHANGED <<globals, handling, queues, ioVars, rcVars, opTodo, opArg>>

Store(c) ==
    /\ queued' = [queued EXCEPT ![c] = opArg]
    /\ upd' = Flagged(c)
    /\ opTodo' = opTodo \ {c}
    /\ UNCHANGED <<globals, handling, queues, rpc, justConn, justDisc, user, clients,
                   ioVars, rcVars, opArg>>

SetPresence(c) ==
    /\ opPc = "presence"
    /\ c \in opTodo
    /\ Store(c)
    /\ UNCHANGED <<opPc, opCur>>

SetPresenceForUser ==
    /\ opPc = "store"
    /\ Store(opCur)
    /\ opPc' = "forUser"
    /\ opCur' = NoConn

PassOver(c) ==
    /\ opPc = "forUser"
    /\ c \in opTodo
    /\ ~Matches(c)
    /\ opTodo' = opTodo \ {c}
    /\ ConnsUnchanged
    /\ UNCHANGED <<globals, handling, queues, ioVars, rcVars, opPc, opArg, opCur>>

PresenceSet ==
    /\ opPc \in {"presence", "forUser"}
    /\ opTodo = {}
    /\ End
    /\ ConnsUnchanged
    /\ UNCHANGED <<globals, handling, queues, ioVars, rcVars>>

-----------------------------------------------------------------------------
\* Discord_Respond: nothing, unless Discord_Connected; then a message for all.
Respond ==
    /\ MayCall("Respond")
    /\ \E c \in connections : rpc[c] = "Connected"
    /\ Begin("respond", {}, NoPresence)
    /\ ConnsUnchanged
    /\ UNCHANGED <<globals, handling, queues, ioVars, rcVars>>

\* It is dropped when there is no room; otherwise it is written in the slot
\* reserved, while the IO thread, in onConnect, may reserve one and fill it too.
RespondReserves ==
    /\ opPc = "respond"
    /\ IF Room THEN Begin("reserved", {}, NoPresence) ELSE End
    /\ ConnsUnchanged
    /\ UNCHANGED <<globals, handling, queues, ioVars, rcVars>>

RespondCommits ==
    /\ opPc = "reserved"
    /\ sendQueue' = sendQueue + 1
    /\ End
    /\ ConnsUnchanged
    /\ UNCHANGED <<globals, handling, raised, asks, ioVars, rcVars>>

\* Discord_UpdateHandlers; with a null pointer (ClearHandlers) it clears Handlers
\* and tells the clients nothing.
UpdateHandlers(new) ==
    /\ MayCall("UpdateHandlers")
    /\ Begin("lock", {}, new)
    /\ ConnsUnchanged
    /\ UNCHANGED <<globals, handling, queues, ioVars, rcVars>>

UpdateHandlersLocked ==
    /\ opPc = "lock"
    /\ Lock("app")
    /\ ConnsUnchanged
    /\ UNCHANGED <<globals, queues, ioVars, rcVars, opVars>>

HandlersUpdated ==
    /\ opPc = "lock"
    /\ SetHandlers("app")
    /\ End
    /\ ConnsUnchanged
    /\ UNCHANGED <<globals, queues, ioVars, rcVars>>

ClearHandlers ==
    /\ MayCall("ClearHandlers")
    /\ HandlerMutexFree
    /\ handlers' = {}
    /\ ConnsUnchanged
    /\ UNCHANGED <<globals, queuedHandlers, registration, queues, ioVars, rcVars, opVars>>

-----------------------------------------------------------------------------
\* Discord_Initialize does nothing when there is an IoThread already.
Initialize(new) ==
    /\ MayCall("Initialize")
    /\ ~initialized
    /\ Begin("lockInit", {}, new)
    /\ initialized' = TRUE
    /\ ConnsUnchanged
    /\ UNCHANGED <<connections, cachedPaths, scanned, keepRunning,
                   handling, queues, ioVars, rcVars>>

InitializeLocked ==
    /\ opPc = "lockInit"
    /\ HandlerMutexFree
    /\ queuedHandlers' = opArg
    /\ handlers' = {}
    /\ cachedPaths' = {}
    /\ scanned' = FALSE
    /\ keepRunning' = TRUE
    /\ ioPc' = "tick"
    /\ End
    /\ ConnsUnchanged
    /\ UNCHANGED <<initialized, connections, registration, queues,
                   ioSnap, ioTodo, ioCur, ioAfter, ioLocal, rcVars>>

\* Discord_Shutdown: stop the IO thread, wait for it, forget the connections.
\* Queues, flags and QueuedHandlers stay as they are.
Shutdown ==
    /\ MayCall("Shutdown")
    /\ initialized
    /\ handlers' = {}
    /\ keepRunning' = IF Threaded THEN FALSE ELSE keepRunning
    /\ Begin("join", {}, NoPresence)
    /\ ConnsUnchanged
    /\ UNCHANGED <<initialized, connections, cachedPaths, scanned,
                   queuedHandlers, registration, queues, ioVars, rcVars>>

\* Mutant of Joined: Stop does not wait for the thread.
JoinedNot == TRUE
Joined == ~Threaded \/ ioPc = "done"

ShutdownJoined ==
    /\ opPc = "join"
    /\ Joined
    /\ initialized' = FALSE
    /\ connections' = {}
    /\ Refresh(connections \ rcSnap)
    /\ cachedPaths' = {}
    /\ scanned' = FALSE
    /\ End
    /\ told' = [p \in Paths |-> "nothing"]
    /\ UNCHANGED <<keepRunning, handling, queues, present, ioVars,
                   rcPc, rcSnap, rcTodo, rcCur, rcWas, rcOpen, rcBack, rcWhat>>

-----------------------------------------------------------------------------
ApiCall ==
    \/ \E p \in Presences : UpdatePresence(p) \/ \E u \in Users : UpdatePresenceForUser(u, p)
    \/ Respond
    \/ \E new \in HandlerSets : UpdateHandlers(new) \/ Initialize(new)
    \/ ClearHandlers
    \/ Shutdown

ApiStep ==
    \/ \E c \in Conns : FindUser(c) \/ SetPresence(c) \/ PassOver(c)
    \/ SetPresenceForUser
    \/ PresenceSet
    \/ RespondReserves
    \/ RespondCommits
    \/ UpdateHandlersLocked
    \/ HandlersUpdated
    \/ InitializeLocked
    \/ ShutdownJoined
=============================================================================
