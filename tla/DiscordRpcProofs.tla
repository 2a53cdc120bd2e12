-------------------------- MODULE DiscordRpcProofs --------------------------
(***************************************************************************)
(* Proofs about DiscordRpc, for every number of paths, connections, users, *)
(* presences, queue sizes and handlers, with and without an IO thread.     *)
(***************************************************************************)
EXTENDS Sessions, TLAPS

-----------------------------------------------------------------------------
(***************************************************************************)
(* What each group of steps leaves alone.                                  *)
(***************************************************************************)
Callbacks == CallRunCallbacks \/ RcStep \/ CallbackReturns

LEMMA CallbacksFrame == Callbacks => IoUnchanged
BY DEF Callbacks, RcStep, CallRunCallbacks, CallbackReturns, TakeDisconnected,
       TellDisconnected, TellReady, NotReady, LookIsOpen, EndFlags, EndFirst, EndReady,
       TellSignal, TellRequest, EndRequests, Return, Go, Tell

\* The calls that touch the state of connections.
ApiWrites ==
    (\E c \in Conns : SetPresence(c)) \/ SetPresenceForUser \/ InitializeLocked \/ ShutdownJoined

LEMMA ApiFrame ==
    ApiCall \/ ApiStep =>
        ApiWrites \/ (ConnsUnchanged /\ UNCHANGED <<ioVars, rcVars, connections, cachedPaths>>)
<1>1. ApiCall => ConnsUnchanged /\ UNCHANGED <<ioVars, rcVars, connections, cachedPaths>>
  BY DEF ApiCall, UpdatePresence, UpdatePresenceForUser, Respond, UpdateHandlers,
         ClearHandlers, Initialize, Shutdown, globals
<1>2. ApiStep => ApiWrites \/ (ConnsUnchanged /\ UNCHANGED <<ioVars, rcVars, connections, cachedPaths>>)
  BY DEF ApiStep, ApiWrites, FindUser, PassOver, PresenceSet, RespondReserves, RespondCommits,
         UpdateHandlersLocked, HandlersUpdated, globals
<1> QED BY <1>1, <1>2

LEMMA ClientFrame ==
    Client => UNCHANGED <<globals, handling, queues, conns, shown, ioVars, rcVars, opVars>>
BY DEF Client, ClientLeaves, ClientComes

LEMMA RegistrationFrame == RegistrationStep => Registering
BY DEF RegistrationStep, LookAtEvent, CommitEvent

-----------------------------------------------------------------------------
(***************************************************************************)
(* Type correctness, part by part.                                         *)
(***************************************************************************)
LEMMA EventsType == Len(Events) = 3
BY DEF Events

\* HandlerMutex is held by one thread at a time, in Discord_UpdateHandlers.
LEMMA LockType ==
    ASSUME SharedOK, NEW who \in {"io", "app"}, Lock(who) \/ SetHandlers(who), opPc = "lock" \/ who = "io",
           opPc = "lock" => opArg \subseteq HandlerNames
    PROVE  /\ handlers' \subseteq HandlerNames /\ queuedHandlers' = queuedHandlers
           /\ updater' \in {"nobody", "io", "app"} /\ regPc' \in {"look", "commit"}
           /\ regNext' \in 1 .. Len(Events) + 1 /\ (regPc' = "commit" => regNext' <= Len(Events))
BY EventsType DEF SharedOK, Lock, SetHandlers, New

\* The connections a tick adds are free and made for a path that is there.
LEMMA TickAdds ==
    ASSUME NEW paths, \A p \in paths \ {PathOf(c) : c \in connections} : FreeSlots(p) # {},
           NEW c \in {CHOOSE c \in FreeSlots(p) : TRUE : p \in paths \ {PathOf(d) : d \in connections}}
    PROVE  c \in Conns /\ c \notin connections /\ c \notin Held /\ PathOf(c) \in paths
<1>1. PICK p \in paths \ {PathOf(d) : d \in connections} : c = CHOOSE d \in FreeSlots(p) : TRUE
  OBVIOUS
<1>2. FreeSlots(p) # {}
  OBVIOUS
<1>3. c \in FreeSlots(p)
  BY <1>1, <1>2
<1> QED BY <1>1, <1>3 DEF FreeSlots

LEMMA TickConnections ==
    ASSUME TypeOK, NEW paths, Tick(paths)
    PROVE  /\ connections' \subseteq Conns /\ paths \subseteq Paths
           /\ \A c \in connections' : rpc'[c] = "Connected" \/ PathOf(c) \in paths
<1> DEFINE missing == paths \ {PathOf(c) : c \in connections}
           new == {CHOOSE c \in FreeSlots(p) : TRUE : p \in missing}
           gone == {c \in connections : Expired(c, paths)}
<1>1. /\ paths \in {present} \cup (IF scanned THEN {cachedPaths} ELSE {})
      /\ \A p \in missing : FreeSlots(p) # {}
      /\ connections' = (connections \ gone) \cup new
      /\ Refresh(new \cup (gone \ Held))
  BY DEF Tick
<1>2. \A c \in new : c \in Conns /\ c \notin connections /\ c \notin Held /\ PathOf(c) \in paths
  BY <1>1, TickAdds
<1>3. connections \subseteq Conns /\ present \subseteq Paths /\ cachedPaths \subseteq Paths
  BY DEF TypeOK, SharedOK
<1>4. paths \subseteq Paths
  BY <1>1, <1>3
<1> HIDE DEF new
<1>5. connections' \subseteq Conns
  BY <1>1, <1>2, <1>3
<1>6. ASSUME NEW c \in connections'
      PROVE  rpc'[c] = "Connected" \/ PathOf(c) \in paths
  <2>1. CASE c \in new
    BY <1>2, <2>1
  <2>2. CASE c \in connections \ gone
    <3>1. c \in Conns /\ c \notin new \cup (gone \ Held)
      BY <1>2, <1>3, <2>2
    <3>2. rpc'[c] = rpc[c]
      BY <1>1, <3>1 DEF Refresh
    <3> QED BY <2>2, <3>2 DEF Expired
  <2> QED BY <1>1, <2>1, <2>2
<1> QED BY <1>4, <1>5, <1>6

-----------------------------------------------------------------------------
LEMMA SharedStep == TypeOK /\ [Next]_vars => SharedOK'
<1> SUFFICES ASSUME TypeOK, [Next]_vars PROVE SharedOK'
  OBVIOUS
<1>0. SharedOK /\ JoinQueueSize \in Nat
  BY ConstantsAssumption DEF TypeOK
<1>1. CASE Callbacks
  <2>1. UNCHANGED <<globals, handling, sendQueue, present>>
    BY <1>1, CallbacksFrame DEF IoUnchanged, clients
  <2>2. raised' \subseteq Signals
    BY <1>0, <1>1
       DEF SharedOK, Callbacks, RcStep, CallRunCallbacks, CallbackReturns, TakeDisconnected,
           TellDisconnected, TellReady, NotReady, LookIsOpen, EndFlags, EndFirst, EndReady,
           TellSignal, TellRequest, EndRequests, Return, Go, Tell
  <2>3. asks' \in 0 .. JoinQueueSize
    <3>1. asks' = asks \/ (asks > 0 /\ asks' = asks - 1)
      BY <1>1
         DEF TypeOK, AppOK, Callbacks, RcStep, CallRunCallbacks, CallbackReturns, TakeDisconnected,
             TellDisconnected, TellReady, NotReady, LookIsOpen, EndFlags, EndFirst, EndReady,
             TellSignal, TellRequest, EndRequests, Return, Go, Tell
    <3> QED BY <1>0, <3>1 DEF SharedOK
  <2> QED BY <1>0, <2>1, <2>2, <2>3 DEF SharedOK, globals, handling, registration
<1>2. CASE IoStep
  <2>1. CASE AnyTick
    <3>1. PICK paths \in {present, cachedPaths} : Tick(paths)
      BY <2>1 DEF AnyTick
    <3>2. connections' \subseteq Conns /\ paths \subseteq Paths
      BY <3>1, TickConnections
    <3>3. /\ cachedPaths' = paths /\ scanned' = TRUE
          /\ UNCHANGED <<initialized, keepRunning, handling, queues, present>>
      BY <3>1 DEF Tick
    <3> QED BY <1>0, <3>2, <3>3 DEF SharedOK, handling, registration, queues
  <2>2. CASE ConnectLocks \/ ConnectHandlers
    <3>1. (Lock("io") \/ SetHandlers("io")) /\ UNCHANGED <<globals, queues, present>>
      BY <2>2 DEF ConnectLocks, ConnectHandlers, clients
    <3>2. opPc = "lock" => opArg \subseteq HandlerNames
      BY DEF TypeOK, AppOK
    <3> QED BY <1>0, <3>1, <3>2, LockType DEF SharedOK, globals, queues
  <2>3. CASE TakeMessage
    <3>1. /\ sendQueue > 0 /\ sendQueue' = sendQueue - 1
          /\ UNCHANGED <<globals, handling, raised, asks, present>>
      BY <2>3 DEF TakeMessage, Unsent, clients
    <3> QED BY <1>0, <3>1 DEF SharedOK, globals, handling, registration
  <2>4. CASE \E s \in Incoming : ReadSignal(s)
    BY <1>0, <2>4 DEF SharedOK, ReadSignal, globals, handling, registration, clients
  <2>5. CASE ReadRequest
    <3>1. /\ asks < JoinQueueSize /\ asks' = asks + 1
          /\ UNCHANGED <<globals, handling, raised, sendQueue, present>>
      BY <2>5 DEF ReadRequest, AskRoom, clients
    <3> QED BY <1>0, <3>1 DEF SharedOK, globals, handling, registration
  <2>6. CASE UNCHANGED <<globals, handling, queues, present>>
    BY <1>0, <2>6 DEF SharedOK, globals, handling, registration, queues
  <2> QED
    BY <1>2, <2>1, <2>2, <2>3, <2>4, <2>5, <2>6
       DEF IoStep, OpenLater, OpenSendsHandshake, OpenGetsReady, OpenLosesHandshake, StartReading,
           SendMessage, SendFails, SkipClosed, ConnectPresence, ConnectUser, Closed, ReadNothing,
           ReadFails, TakeUpdate, CopyPresence, WritePresence, WritePresenceFails, Requeue,
           EndTick, clients
<1>3. CASE ApiCall \/ ApiStep
  <2>1. CASE UpdateHandlersLocked \/ HandlersUpdated
    <3>1. /\ Lock("app") \/ SetHandlers("app")
          /\ UNCHANGED <<globals, queues, present>> /\ opPc = "lock"
      BY <2>1 DEF UpdateHandlersLocked, HandlersUpdated, ConnsUnchanged, clients
    <3>2. opArg \subseteq HandlerNames
      BY <3>1 DEF TypeOK, AppOK
    <3> QED BY <1>0, <3>1, <3>2, LockType DEF SharedOK, globals, queues
  <2>2. CASE RespondReserves \/ RespondCommits
    <3>1. /\ sendQueue' \in {sendQueue, sendQueue + 1}
          /\ UNCHANGED <<globals, handling, raised, asks, present>>
      BY <2>2 DEF RespondReserves, RespondCommits, ConnsUnchanged, queues, clients
    <3> QED BY <1>0, <3>1 DEF SharedOK, globals, handling, registration
  <2>3. CASE InitializeLocked
    <3>1. opPc = "lockInit"
      BY <2>3 DEF InitializeLocked
    <3>2. opArg \subseteq HandlerNames
      BY <3>1 DEF TypeOK, AppOK
    <3> QED BY <1>0, <2>3, <3>2 DEF SharedOK, InitializeLocked, ConnsUnchanged, registration, queues, clients
  <2>4. CASE ShutdownJoined
    BY <1>0, <2>4 DEF SharedOK, ShutdownJoined, handling, registration, queues
  <2>5. CASE ApiCall
    BY <1>0, <2>5
       DEF SharedOK, ApiCall, UpdatePresence, UpdatePresenceForUser, Respond, UpdateHandlers,
           ClearHandlers, Initialize, Shutdown, ConnsUnchanged, globals, handling, registration,
           queues, clients
  <2>6. CASE \/ \E c \in Conns : FindUser(c) \/ SetPresence(c) \/ PassOver(c)
             \/ SetPresenceForUser \/ PresenceSet
    BY <1>0, <2>6 DEF SharedOK, FindUser, SetPresence, SetPresenceForUser, Store, PassOver, PresenceSet,
                      ConnsUnchanged, globals, handling, registration, queues, clients
  <2> QED BY <1>3, <2>1, <2>2, <2>3, <2>4, <2>5, <2>6 DEF ApiStep
<1>4. CASE Client
  BY <1>0, <1>4 DEF SharedOK, Client, ClientLeaves, ClientComes, globals, handling, registration, queues
<1>5. CASE UNCHANGED vars
  BY <1>0, <1>5 DEF SharedOK, vars, globals, handling, registration, queues, clients
<1>6. CASE RegistrationStep
  <2>1. /\ UNCHANGED <<globals, handlers, queuedHandlers, updater, raised, asks, present>>
        /\ sendQueue' \in {sendQueue, sendQueue + 1} /\ regPc' \in {"look", "commit"}
    BY <1>0, <1>6 DEF SharedOK, RegistrationStep, Registering, LookAtEvent, CommitEvent, clients
  <2>2. regNext' \in 1 .. Len(Events) + 1 /\ (regPc' = "commit" => regNext' <= Len(Events))
    BY <1>0, <1>6, EventsType DEF SharedOK, RegistrationStep, LookAtEvent, CommitEvent
  <2> QED BY <1>0, <2>1, <2>2 DEF SharedOK, globals
<1> QED BY <1>1, <1>2, <1>3, <1>4, <1>5, <1>6 DEF Next, Callbacks

LEMMA RefreshType ==
    ASSUME ConnsOK, NEW fresh, Refresh(fresh)
    PROVE  ConnsOK'
<1>1. rpc' \in [Conns -> {"Disconnected", "SentHandshake", "Connected"}]
  BY DEF ConnsOK, Refresh
<1>2. /\ justConn' \in [Conns -> BOOLEAN]
      /\ justDisc' \in [Conns -> BOOLEAN]
      /\ upd' \in [Conns -> BOOLEAN]
  BY DEF ConnsOK, Refresh
<1>3. /\ queued' \in [Conns -> QueuedPresences]
      /\ shown' \in [Conns -> QueuedPresences]
  BY DEF ConnsOK, Refresh, QueuedPresences
<1>4. user' \in [Conns -> Users \cup {NoUser}]
  BY DEF ConnsOK, Refresh
<1> QED BY <1>1, <1>2, <1>3, <1>4 DEF ConnsOK

LEMMA ConnsStep == TypeOK /\ [Next]_vars => ConnsOK'
<1> SUFFICES ASSUME TypeOK, [Next]_vars PROVE ConnsOK'
  OBVIOUS
<1>0. ConnsOK
  BY DEF TypeOK
<1>1. CASE Callbacks
  <2>1. UNCHANGED <<rpc, upd, queued, user, shown>>
    BY <1>1, CallbacksFrame DEF IoUnchanged, clients
  <2>2. justConn' \in [Conns -> BOOLEAN] /\ justDisc' \in [Conns -> BOOLEAN]
    BY <1>0, <1>1
       DEF ConnsOK, Callbacks, RcStep, CallRunCallbacks, CallbackReturns, TakeDisconnected,
           TellDisconnected, TellReady, NotReady, LookIsOpen, EndFlags, EndFirst, EndReady,
           TellSignal, TellRequest, EndRequests, Return, Go, Tell
  <2> QED BY <1>0, <2>1, <2>2 DEF ConnsOK
<1>2. CASE IoStep
  <2>1. CASE AnyTick
    <3>1. PICK fresh : Refresh(fresh)
      BY <2>1 DEF AnyTick, Tick
    <3> QED BY <1>0, <3>1, RefreshType
  <2>2. CASE \E c \in Conns : OpenSendsHandshake(c) \/ OpenGetsReady(c)
    BY <1>0, <2>2
       DEF ConnsOK, OpenSendsHandshake, OpenGetsReady, flags, clients, QueuedPresences
  <2>3. CASE \/ \E c \in Conns : OpenLosesHandshake(c) \/ SendFails(c)
             \/ ReadFails \/ WritePresenceFails
    <3>1. justDisc' \in [Conns -> BOOLEAN] /\ UNCHANGED <<rpc, justConn, upd, queued, user, clients>>
      BY <1>0, <2>3
         DEF ConnsOK, OpenLosesHandshake, SendFails, ReadFails, WritePresenceFails, Lose
    <3> QED BY <1>0, <3>1 DEF ConnsOK, clients
  <2>4. CASE ConnectPresence \/ TakeUpdate \/ Requeue
    <3>1. upd' \in [Conns -> BOOLEAN]
      BY <1>0, <2>4 DEF ConnsOK, ConnectPresence, TakeUpdate, Requeue, Greets
    <3>2. UNCHANGED <<rpc, justConn, justDisc, queued, user, clients>>
      BY <2>4 DEF ConnectPresence, TakeUpdate, Requeue
    <3> QED BY <1>0, <3>1, <3>2 DEF ConnsOK, clients
  <2>5. CASE \E u \in Users \cup {NoUser} : ConnectUser(u)
    <3>0. ioCur \in Conns
      BY <2>5 DEF TypeOK, IoOK, ConnectUser
    <3>1. user' \in [Conns -> Users \cup {NoUser}] /\ justConn' \in [Conns -> BOOLEAN]
      BY <1>0, <2>5, <3>0 DEF ConnsOK, ConnectUser
    <3>2. UNCHANGED <<rpc, justDisc, upd, queued, clients>>
      BY <2>5 DEF ConnectUser
    <3> QED BY <1>0, <3>1, <3>2 DEF ConnsOK, clients
  <2>6. CASE Closed
    BY <1>0, <2>6 DEF ConnsOK, Closed, flags, clients
  <2>7. CASE WritePresence
    <3>1. ioLocal \in QueuedPresences
      BY <2>7 DEF TypeOK, IoOK, WritePresence
    <3> QED BY <1>0, <2>7, <3>1 DEF ConnsOK, WritePresence, conns, flags
  <2>8. CASE UNCHANGED <<conns, shown>>
    BY <1>0, <2>8 DEF ConnsOK, conns, flags
  <2> QED
    BY <1>2, <2>1, <2>2, <2>3, <2>4, <2>5, <2>6, <2>7, <2>8
       DEF IoStep, OpenLater, StartReading, SendMessage, SkipClosed, ConnectLocks,
           ConnectHandlers, ReadSignal, ReadRequest,
           ReadNothing, CopyPresence, TakeMessage, EndTick, clients
<1>3. CASE ApiCall \/ ApiStep
  <2>1. CASE (\E c \in Conns : SetPresence(c)) \/ SetPresenceForUser
    <3>1. PICK c \in Conns : Store(c) /\ opPc \in {"presence", "store"}
      BY <2>1 DEF TypeOK, AppOK, SetPresence, SetPresenceForUser
    <3>2. opArg \in QueuedPresences
      BY <3>1 DEF TypeOK, AppOK, QueuedPresences
    <3>3. queued' = [queued EXCEPT ![c] = opArg] /\ upd' = [upd EXCEPT ![c] = TRUE]
      BY <3>1 DEF Store, Flagged
    <3>4. queued' \in [Conns -> QueuedPresences] /\ upd' \in [Conns -> BOOLEAN]
      BY <1>0, <3>2, <3>3 DEF ConnsOK
    <3> QED BY <1>0, <3>1, <3>4 DEF ConnsOK, Store, clients
  <2>2. CASE InitializeLocked
    BY <1>0, <2>2 DEF ConnsOK, InitializeLocked, ConnsUnchanged, conns, flags, clients
  <2>3. CASE ShutdownJoined
    BY <1>0, <2>3, RefreshType DEF ShutdownJoined
  <2>4. CASE ConnsUnchanged
    BY <1>0, <2>4 DEF ConnsOK, ConnsUnchanged, conns, flags, clients
  <2> QED BY <1>3, <2>1, <2>2, <2>3, <2>4, ApiFrame DEF ApiWrites
<1>4. CASE Client
  BY <1>0, <1>4, ClientFrame DEF ConnsOK, conns, flags
<1>5. CASE UNCHANGED vars
  BY <1>0, <1>5 DEF ConnsOK, vars, conns, flags, clients
<1>6. CASE RegistrationStep
  BY <1>0, <1>6, RegistrationFrame DEF Registering, ConnsOK, conns, flags, clients
<1> QED BY <1>1, <1>2, <1>3, <1>4, <1>5, <1>6 DEF Next, Callbacks
LEMMA IoTypeStep == TypeOK /\ [Next]_vars => IoOK'
<1> SUFFICES ASSUME TypeOK, [Next]_vars PROVE IoOK'
  OBVIOUS
<1>0. IoOK /\ ConnsOK /\ SharedOK
  BY DEF TypeOK
<1>1. CASE Callbacks
  BY <1>0, <1>1, CallbacksFrame DEF IoUnchanged, IoOK, ioVars
<1>2. CASE IoStep
  <2>1. CASE AnyTick
    <3>1. PICK paths \in {present, cachedPaths} : Tick(paths)
      BY <2>1 DEF AnyTick
    <3>2. connections' \subseteq Conns
      BY <3>1, TickConnections
    <3> QED BY <1>0, <3>1, <3>2 DEF IoOK, IoPcs, Tick
  <2>2. CASE \E c \in Conns : OpenLater(c) \/ OpenSendsHandshake(c) \/ OpenGetsReady(c)
                            \/ StartReading(c)
    BY <1>0, <2>2
       DEF IoOK, IoPcs, OpenLater, OpenSendsHandshake, OpenGetsReady, StartReading, Take
  <2>3. CASE \E c \in Conns : OpenLosesHandshake(c)
    BY <1>0, <2>3 DEF IoOK, IoPcs, OpenLosesHandshake, Take, Lose
  <2>4. CASE \E c \in Conns : SendMessage(c) \/ SkipClosed(c)
    BY <1>0, <2>4 DEF IoOK, IoPcs, SendMessage, SkipClosed, Addressed
  <2>5. CASE \E c \in Conns : SendFails(c)
    BY <1>0, <2>5 DEF IoOK, IoPcs, SendFails, Addressed, Lose
  <2>6. CASE \/ ConnectLocks \/ ConnectHandlers \/ ConnectPresence
             \/ \E u \in Users \cup {NoUser} : ConnectUser(u)
    BY <1>0, <2>6 DEF IoOK, IoPcs, ConnectLocks, ConnectHandlers, ConnectPresence, ConnectUser, ioVars
  <2>7. CASE Closed
    BY <1>0, <2>7 DEF IoOK, IoPcs, Closed
  <2>8. CASE (\E s \in Incoming : ReadSignal(s)) \/ ReadRequest
    BY <1>0, <2>8 DEF IoOK, IoPcs, ReadSignal, ReadRequest, ioVars
  <2>9. CASE ReadNothing \/ TakeUpdate \/ Requeue
    BY <1>0, <2>9 DEF IoOK, IoPcs, ReadNothing, TakeUpdate, Requeue
  <2>10. CASE ReadFails
    BY <1>0, <2>10 DEF IoOK, IoPcs, ReadFails, Lose
  <2>11. CASE CopyPresence
    <3>1. ioCur \in Conns
      BY <1>0, <2>11 DEF IoOK, CopyPresence
    <3>2. queued[ioCur] \in QueuedPresences
      BY <1>0, <3>1 DEF ConnsOK
    <3> QED BY <1>0, <2>11, <3>2 DEF IoOK, IoPcs, CopyPresence
  <2>12. CASE WritePresence
    BY <1>0, <2>12 DEF IoOK, IoPcs, WritePresence
  <2>13. CASE WritePresenceFails
    BY <1>0, <2>13 DEF IoOK, IoPcs, WritePresenceFails, Lose
  <2>14. CASE TakeMessage
    BY <1>0, <2>14 DEF IoOK, IoPcs, TakeMessage, AllServed
  <2>15. CASE EndTick
    BY <1>0, <2>15 DEF IoOK, IoPcs, EndTick, AllServed
  <2> QED
    BY <1>2, <2>1, <2>2, <2>3, <2>4, <2>5, <2>6, <2>7, <2>8, <2>9, <2>10, <2>11, <2>12, <2>13,
       <2>14, <2>15 DEF IoStep
<1>3. CASE ApiCall \/ ApiStep
  <2>1. CASE (\E c \in Conns : SetPresence(c)) \/ SetPresenceForUser
    BY <1>0, <2>1 DEF IoOK, SetPresence, SetPresenceForUser, Store, ioVars
  <2>2. CASE InitializeLocked
    BY <1>0, <2>2 DEF IoOK, IoPcs, InitializeLocked
  <2>3. CASE ShutdownJoined
    BY <1>0, <2>3 DEF IoOK, ShutdownJoined, ioVars
  <2>4. CASE UNCHANGED ioVars
    BY <1>0, <2>4 DEF IoOK, ioVars
  <2> QED BY <1>3, <2>1, <2>2, <2>3, <2>4, ApiFrame DEF ApiWrites
<1>4. CASE Client
  BY <1>0, <1>4, ClientFrame DEF IoOK, ioVars
<1>5. CASE UNCHANGED vars
  BY <1>0, <1>5 DEF IoOK, vars, ioVars
<1>6. CASE RegistrationStep
  BY <1>0, <1>6, RegistrationFrame DEF Registering, IoOK, ioVars
<1> QED BY <1>1, <1>2, <1>3, <1>4, <1>5, <1>6 DEF Next, Callbacks

LEMMA AppTypeStep == TypeOK /\ [Next]_vars => AppOK'
<1> SUFFICES ASSUME TypeOK, [Next]_vars PROVE AppOK'
  OBVIOUS
<1>0. AppOK /\ connections \subseteq Conns /\ asks \in Nat
  BY ConstantsAssumption DEF TypeOK, SharedOK
<1>1. CASE Callbacks
  <2>0. UNCHANGED opVars
    BY <1>1, CallbacksFrame DEF IoUnchanged
  <2>1. CASE CallRunCallbacks
    BY <1>0, <2>0, <2>1 DEF AppOK, RcPcs, CallRunCallbacks, opVars
  <2>2. CASE \E c \in Conns : TakeDisconnected(c) \/ NotReady(c)
    BY <1>0, <2>0, <2>2 DEF AppOK, RcPcs, TakeDisconnected, NotReady, opVars
  <2>3. CASE LookIsOpen
    BY <1>0, <2>0, <2>3 DEF AppOK, RcPcs, LookIsOpen, opVars
  <2>4. CASE \E c \in Conns : TellDisconnected(c) \/ TellReady(c)
    <3>1. rcPc \in {"first", "last", "ready"} /\ UNCHANGED <<asks, rcSnap, rcCur, rcWas, rcOpen>>
      BY <2>4 DEF TellDisconnected, TellReady, Tell
    <3>2. PICK what \in {"disconnected", "ready"} : Fire(what, rcPc)
      BY <2>4 DEF TellDisconnected, TellReady, Tell
    <3>3. rcTodo' \subseteq Conns
      BY <1>0, <2>4 DEF AppOK, TellDisconnected, TellReady, Tell
    <3>4. told' \in [Paths -> {"nothing", "ready", "disconnected"}]
      BY <1>0, <2>4 DEF AppOK, TellDisconnected, TellReady, Tell
    <3>5. /\ rcPc' \in RcPcs /\ rcBack' \in RcPcs \ {"isOpen", "callback"} /\ rcWhat' \in HandlerNames
          /\ rcPc' # "isOpen"
          /\ (rcPc' = "callback" => rcWhat' # "joinRequest")
      BY <1>0, <3>1, <3>2 DEF AppOK, Fire, RcPcs, HandlerNames
    <3> QED BY <1>0, <2>0, <3>1, <3>3, <3>4, <3>5 DEF AppOK, opVars
  <2>5. CASE EndFlags \/ EndFirst \/ EndReady \/ EndRequests
    BY <1>0, <2>0, <2>5
       DEF AppOK, RcPcs, Signals, EndFlags, EndFirst, EndReady, EndRequests, Go, ToldFirst, opVars
  <2>6. CASE \E s \in Signals : TellSignal(s)
    <3>1. PICK s \in Signals : TellSignal(s)
      BY <2>6
    <3>2. After(s) \in {"joinGame", "spectateGame", "joinRequest"}
      BY <3>1 DEF Signals, After
    <3>3. s \in HandlerNames /\ s # "joinRequest"
      BY DEF Signals, HandlerNames, Subscribable
    <3>4. /\ rcPc' \in RcPcs /\ rcBack' \in RcPcs \ {"isOpen", "callback"} /\ rcWhat' \in HandlerNames
          /\ rcPc' # "isOpen"
          /\ (rcPc' = "callback" => rcWhat' # "joinRequest")
      BY <1>0, <3>1, <3>2, <3>3 DEF AppOK, TellSignal, Fire, RcPcs, Signals
    <3> QED BY <1>0, <2>0, <3>1, <3>4 DEF AppOK, TellSignal, opVars
  <2>7. CASE TellRequest
    BY <1>0, <2>0, <2>7
       DEF AppOK, RcPcs, Signals, HandlerNames, Subscribable, TellRequest, Fire, opVars
  <2>8. CASE CallbackReturns
    BY <1>0, <2>0, <2>8 DEF AppOK, RcPcs, HandlerNames, CallbackReturns, opVars
  <2>9. CASE Return
    BY <1>0, <2>0, <2>9 DEF AppOK, RcPcs, Return, opVars
  <2> QED BY <1>1, <2>1, <2>2, <2>3, <2>4, <2>5, <2>6, <2>7, <2>8, <2>9 DEF Callbacks, RcStep
<1>2. CASE IoStep
  <2>1. UNCHANGED <<rcVars, opVars>>
    BY <1>2
       DEF IoStep, AnyTick, Tick, OpenLater, OpenSendsHandshake, OpenGetsReady, OpenLosesHandshake,
           StartReading, SendMessage, SendFails, SkipClosed, ConnectLocks, ConnectHandlers, ConnectPresence,
           ConnectUser, Closed, ReadSignal, ReadRequest, ReadNothing, ReadFails, TakeUpdate,
           CopyPresence, WritePresence, WritePresenceFails, Requeue, TakeMessage, EndTick
  <2>2. asks' = asks \/ asks' = asks + 1
    BY <1>2
       DEF IoStep, AnyTick, Tick, OpenLater, OpenSendsHandshake, OpenGetsReady, OpenLosesHandshake,
           StartReading, SendMessage, SendFails, SkipClosed, ConnectLocks, ConnectHandlers, ConnectPresence,
           ConnectUser, Closed, ReadSignal, ReadRequest, ReadNothing, ReadFails, TakeUpdate,
           CopyPresence, WritePresence, WritePresenceFails, Requeue, TakeMessage, EndTick, queues
  <2> QED BY <1>0, <2>1, <2>2 DEF AppOK, rcVars, opVars
<1>3. CASE ApiCall \/ ApiStep
  <2>1. CASE ShutdownJoined
    BY <1>0, <2>1 DEF AppOK, OpPcs, ShutdownJoined, End, Begin, queues
  <2>2. CASE ~ShutdownJoined
    <3>1. UNCHANGED <<asks, rcVars>>
      BY <1>3, <2>2
         DEF ApiCall, UpdatePresence, UpdatePresenceForUser, Respond, UpdateHandlers, ClearHandlers,
             Initialize, Shutdown, ApiStep, FindUser, SetPresence, SetPresenceForUser, Store, PassOver,
             PresenceSet, RespondReserves, RespondCommits, UpdateHandlersLocked, HandlersUpdated,
             InitializeLocked, queues
    <3>2. /\ opPc' \in OpPcs /\ opTodo' \subseteq Conns
          /\ opPc' \in {"presence", "forUser", "store"} => opArg' \in Activities
          /\ opPc' = "store" => opCur' \in opTodo'
          /\ opPc' \in {"lock", "lockInit"} => opArg' \subseteq HandlerNames
      <4>1. CASE \E p \in Presences : UpdatePresence(p) \/ \E u \in Users : UpdatePresenceForUser(u, p)
        BY <1>0, <4>1 DEF OpPcs, UpdatePresence, UpdatePresenceForUser, Begin, Activities
      <4>2. CASE \E new \in HandlerSets : UpdateHandlers(new) \/ Initialize(new)
        BY <1>0, <4>2, ConstantsAssumption DEF OpPcs, UpdateHandlers, Initialize, Begin
      <4>3. CASE \/ Respond \/ Shutdown \/ PresenceSet \/ RespondReserves \/ RespondCommits
                 \/ HandlersUpdated \/ InitializeLocked
        BY <1>0, <4>3 DEF OpPcs, Respond, Shutdown, PresenceSet, RespondReserves, RespondCommits,
                          HandlersUpdated, InitializeLocked, End, Begin
      <4>4. CASE \/ ClearHandlers \/ UpdateHandlersLocked \/ SetPresenceForUser
                 \/ \E c \in Conns : FindUser(c) \/ SetPresence(c) \/ PassOver(c)
        BY <1>0, <4>4 DEF AppOK, OpPcs, ClearHandlers, UpdateHandlersLocked, FindUser, SetPresence,
                          SetPresenceForUser, Store, PassOver, opVars
      <4> QED BY <1>3, <2>2, <4>1, <4>2, <4>3, <4>4 DEF ApiCall, ApiStep
    <3> QED BY <1>0, <3>1, <3>2 DEF AppOK, rcVars
  <2> QED BY <2>1, <2>2
<1>4. CASE Client
  BY <1>0, <1>4, ClientFrame DEF AppOK, queues, rcVars, opVars
<1>5. CASE UNCHANGED vars
  BY <1>0, <1>5 DEF AppOK, vars, queues, rcVars, opVars
<1>6. CASE RegistrationStep
  BY <1>0, <1>6, RegistrationFrame DEF Registering, AppOK, rcVars, opVars
<1> QED BY <1>1, <1>2, <1>3, <1>4, <1>5, <1>6 DEF Next, Callbacks

LEMMA TypeInit == Init => TypeOK
<1> SUFFICES ASSUME Init PROVE TypeOK
  OBVIOUS
<1>1. SharedOK
  <2>2. sendQueue \in Nat /\ updater \in {"nobody", "io", "app"} /\ regPc = "look" /\ regNext = 1
    BY DEF Init
  <2>3. /\ initialized \in BOOLEAN /\ scanned \in BOOLEAN /\ keepRunning \in BOOLEAN
        /\ connections \subseteq Conns
        /\ cachedPaths \subseteq Paths /\ present \subseteq Paths
        /\ handlers \subseteq HandlerNames /\ queuedHandlers \subseteq HandlerNames
        /\ raised \subseteq Signals
    BY DEF Init
  <2>4. asks \in 0 .. JoinQueueSize
    BY ConstantsAssumption DEF Init
  <2> QED BY <2>2, <2>3, <2>4, EventsType DEF SharedOK
<1>2. ConnsOK
  BY DEF Init, ConnsOK, QueuedPresences
<1>3. IoOK
  BY DEF Init, IoOK, IoPcs
<1>4. AppOK
  BY DEF Init, AppOK, RcPcs, OpPcs, HandlerNames
<1> QED BY <1>1, <1>2, <1>3, <1>4 DEF TypeOK

\* The library keeps the types of module DiscordRpc, whatever the application
\* and the clients do: JoinAskQueue, which has one producer and one consumer, stays
\* within its size and every local variable is set where it is used.
THEOREM TypeCorrect == Spec => []TypeOK
<1>1. TypeOK /\ [Next]_vars => TypeOK'
  BY SharedStep, ConnsStep, IoTypeStep, AppTypeStep DEF TypeOK
<1> QED BY TypeInit, <1>1, PTL DEF Spec
-----------------------------------------------------------------------------
(***************************************************************************)
(* When the IO thread runs: never without an IoThread, never while         *)
(* Discord_Initialize is about to start it and, in a build without a       *)
(* thread, never inside another call.                                      *)
(***************************************************************************)
RunsOnlyWhenAsked ==
    /\ ~initialized => connections = {} /\ (Threaded => ioPc \in {"off", "done"})
    /\ opPc = "lockInit" => initialized /\ (Threaded => ioPc \in {"off", "done"})
    /\ opPc = "join" => initialized
    /\ ~Threaded /\ ~AppIdle => ioPc \in {"off", "tick"}

LEMMA IoFrame ==
    IoStep => /\ UNCHANGED <<initialized, keepRunning, present, rcVars, opVars>>
              /\ AnyTick \/ UNCHANGED <<connections, cachedPaths>>
BY DEF IoStep, AnyTick, Tick, OpenLater, OpenSendsHandshake, OpenGetsReady, OpenLosesHandshake,
       StartReading, SendMessage, SendFails, SkipClosed, ConnectLocks, ConnectHandlers, ConnectPresence,
       ConnectUser, Closed, ReadSignal, ReadRequest, ReadNothing, ReadFails, TakeUpdate,
       CopyPresence, WritePresence, WritePresenceFails, Requeue, TakeMessage, EndTick,
       globals, conns, clients

\* Between two ticks the IO thread can only start the next one.
LEMMA IoStepPc ==
    IoStep => ioPc \notin {"off", "done"} /\ (ioPc = "tick" => AnyTick)
BY DEF IoStep, AnyTick, Tick, OpenLater, OpenSendsHandshake, OpenGetsReady, OpenLosesHandshake,
       StartReading, SendMessage, SendFails, SkipClosed, ConnectLocks, ConnectHandlers, ConnectPresence,
       ConnectUser, Closed, ReadSignal, ReadRequest, ReadNothing, ReadFails, TakeUpdate,
       CopyPresence, WritePresence, WritePresenceFails, Requeue, TakeMessage, EndTick,
       Take, Addressed, AllServed

LEMMA RunsStep == TypeOK /\ RunsOnlyWhenAsked /\ [Next]_vars => RunsOnlyWhenAsked'
<1> SUFFICES ASSUME TypeOK, RunsOnlyWhenAsked, [Next]_vars PROVE RunsOnlyWhenAsked'
  OBVIOUS
<1>0. Threaded \in BOOLEAN /\ initialized \in BOOLEAN
  BY ConstantsAssumption DEF TypeOK, SharedOK
<1>1. CASE Callbacks
  <2>1. UNCHANGED <<initialized, connections, ioPc, opPc>>
    BY <1>1, CallbacksFrame DEF IoUnchanged, globals, ioVars, opVars
  <2>2. AppIdle => AppIdle' \/ Threaded \/ ioPc = "tick"
    BY <1>1
       DEF AppIdle, Callbacks, RcStep, CallRunCallbacks, CallbackReturns, TakeDisconnected,
           TellDisconnected, TellReady, NotReady, LookIsOpen, EndFlags, EndFirst, EndReady,
           TellSignal, TellRequest, EndRequests, Return, Signals
  <2> QED BY <1>0, <2>1, <2>2 DEF RunsOnlyWhenAsked
<1>2. CASE IoStep
  <2>1. UNCHANGED <<initialized, rcPc, opPc>> /\ ioPc \notin {"off", "done"}
    BY <1>2, IoFrame, IoStepPc DEF rcVars, opVars
  <2>2. Threaded => initialized /\ opPc # "lockInit"
    BY <2>1 DEF RunsOnlyWhenAsked
  <2>3. ~Threaded => AppIdle /\ (initialized \/ UNCHANGED connections)
    BY <1>2, <2>1, IoFrame, IoStepPc DEF RunsOnlyWhenAsked, AnyTick, Tick
  <2>4. initialized \/ (~Threaded /\ connections' = {})
    BY <2>1, <2>2, <2>3 DEF RunsOnlyWhenAsked
  <2> QED BY <1>0, <2>1, <2>2, <2>3, <2>4 DEF RunsOnlyWhenAsked, AppIdle
<1>3. CASE ApiCall \/ ApiStep
  <2>1. CASE InitializeLocked
    BY <1>0, <2>1 DEF RunsOnlyWhenAsked, AppIdle, InitializeLocked, End, Begin
  <2>2. CASE ShutdownJoined
    BY <1>0, <2>2
       DEF RunsOnlyWhenAsked, AppIdle, ShutdownJoined, Joined, End, Begin, ioVars
  <2>3. CASE \E new \in HandlerSets : Initialize(new)
    BY <1>0, <2>3
       DEF RunsOnlyWhenAsked, AppIdle, Initialize, MayCall, Begin, ioVars, rcVars
  <2>4. CASE Shutdown
    BY <1>0, <2>4 DEF RunsOnlyWhenAsked, AppIdle, Shutdown, MayCall, Begin, ioVars, rcVars
  <2>5. CASE \/ \E p \in Presences : UpdatePresence(p) \/ \E u \in Users : UpdatePresenceForUser(u, p)
             \/ \E new \in HandlerSets : UpdateHandlers(new)
             \/ Respond \/ ClearHandlers
    <3>2. UNCHANGED <<initialized, connections, ioPc, rcPc>> /\ opPc' \notin {"lockInit", "join"}
      BY <2>5 DEF UpdatePresence, UpdatePresenceForUser, UpdateHandlers, Respond, ClearHandlers,
                  MayCall, Begin, globals, ioVars, rcVars, opVars
    <3>3. Threaded \/ ioPc \in {"off", "tick"}
      BY <2>5 DEF UpdatePresence, UpdatePresenceForUser, UpdateHandlers, Respond, ClearHandlers,
                  MayCall
    <3> QED BY <1>0, <3>2, <3>3 DEF RunsOnlyWhenAsked
  <2>6. CASE \/ \E c \in Conns : FindUser(c) \/ SetPresence(c) \/ PassOver(c)
             \/ SetPresenceForUser \/ PresenceSet \/ RespondReserves \/ RespondCommits
             \/ UpdateHandlersLocked \/ HandlersUpdated
    <3>1. UNCHANGED <<initialized, connections, ioPc, rcPc>> /\ opPc # "idle"
      BY <2>6 DEF FindUser, SetPresence, SetPresenceForUser, Store, PassOver, PresenceSet,
                  RespondReserves, RespondCommits, UpdateHandlersLocked, HandlersUpdated,
                  globals, ioVars, rcVars
    <3>2. opPc' \notin {"lockInit", "join"}
      BY <2>6 DEF FindUser, SetPresence, SetPresenceForUser, Store, PassOver, PresenceSet,
                  RespondReserves, RespondCommits, UpdateHandlersLocked, HandlersUpdated,
                  End, Begin, opVars
    <3> QED BY <1>0, <3>1, <3>2 DEF RunsOnlyWhenAsked, AppIdle
  <2> QED BY <1>3, <2>1, <2>2, <2>3, <2>4, <2>5, <2>6 DEF ApiCall, ApiStep
<1>4. CASE Client
  BY <1>0, <1>4, ClientFrame DEF RunsOnlyWhenAsked, AppIdle, globals, ioVars, rcVars, opVars
<1>5. CASE UNCHANGED vars
  BY <1>0, <1>5 DEF RunsOnlyWhenAsked, AppIdle, vars, globals, ioVars, rcVars, opVars
<1>6. CASE RegistrationStep
  BY <1>0, <1>6, RegistrationFrame DEF Registering, RunsOnlyWhenAsked, AppIdle, globals, ioVars,
                                       rcVars, opVars
<1> QED BY <1>1, <1>2, <1>3, <1>4, <1>5, <1>6 DEF Next, Callbacks

\* Once Discord_Shutdown has returned nothing of the library runs and no
\* connection is left.
THEOREM ShutdownStops == Spec => []NothingRunsAfterShutdown
<1>1. Init => RunsOnlyWhenAsked
  BY DEF Init, RunsOnlyWhenAsked
<1>2. RunsOnlyWhenAsked => NothingRunsAfterShutdown
  BY DEF RunsOnlyWhenAsked, NothingRunsAfterShutdown
<1> QED BY <1>1, <1>2, TypeCorrect, RunsStep, PTL DEF Spec

-----------------------------------------------------------------------------
(***************************************************************************)
(* SendQueue with its two producers.  A slot that is reserved and not      *)
(* committed yet is invisible to GetNextAddMessage; HandlerMutex makes     *)
(* sure that there are two of them at most, Discord_Respond's and one of   *)
(* Discord_UpdateHandlers, and both only beside an IO thread.              *)
(***************************************************************************)
MutexHeld ==
    /\ updater = "io" => ioPc = "handlers"
    /\ updater = "app" => opPc = "lock"
    /\ regPc = "commit" => updater # "nobody"

Beyond == IF Threaded THEN 1 ELSE 0

SlotsCounted ==
    /\ SendQueueBound
    /\ regPc = "commit" \/ opPc = "reserved" => sendQueue + 1 <= MessageQueueSize + Beyond
    /\ regPc = "commit" /\ opPc = "reserved" => Threaded /\ sendQueue + 1 <= MessageQueueSize

LEMMA IoLocks ==
    IoStep => \/ ConnectLocks
              \/ ConnectHandlers
              \/ UNCHANGED registration /\ ioPc # "handlers"
BY DEF IoStep, AnyTick, Tick, OpenLater, OpenSendsHandshake, OpenGetsReady, OpenLosesHandshake,
       StartReading, SendMessage, SendFails, SkipClosed, ConnectPresence, ConnectUser, Closed,
       ReadSignal, ReadRequest, ReadNothing, ReadFails, TakeUpdate, CopyPresence, WritePresence,
       WritePresenceFails, Requeue, TakeMessage, EndTick, Take, Addressed, AllServed, handling

\* The IO thread only takes messages out; what it adds, RegistrationStep does.
LEMMA IoTakes == IoStep => UNCHANGED sendQueue \/ (sendQueue > 0 /\ sendQueue' = sendQueue - 1)
BY DEF IoStep, AnyTick, Tick, OpenLater, OpenSendsHandshake, OpenGetsReady, OpenLosesHandshake,
       StartReading, SendMessage, SendFails, SkipClosed, ConnectLocks, ConnectHandlers,
       ConnectPresence, ConnectUser, Closed, ReadSignal, ReadRequest, ReadNothing, ReadFails,
       TakeUpdate, CopyPresence, WritePresence, WritePresenceFails, Requeue, TakeMessage, Unsent,
       EndTick, queues

LEMMA MutexStep == TypeOK /\ MutexHeld /\ [Next]_vars => MutexHeld'
<1> SUFFICES ASSUME TypeOK, MutexHeld, [Next]_vars PROVE MutexHeld'
  OBVIOUS
<1>1. CASE Callbacks
  BY <1>1, CallbacksFrame DEF IoUnchanged, MutexHeld, handling, registration, ioVars, opVars
<1>2. CASE IoStep
  <2>1. UNCHANGED opPc
    BY <1>2, IoFrame DEF opVars
  <2>2. CASE ConnectLocks
    BY <2>1, <2>2 DEF ConnectLocks, Lock, HandlerMutexFree, MutexHeld, ioVars
  <2>3. CASE ConnectHandlers
    BY <2>1, <2>3 DEF ConnectHandlers, SetHandlers, MutexHeld
  <2>4. CASE UNCHANGED registration /\ ioPc # "handlers"
    BY <2>1, <2>4 DEF MutexHeld, registration
  <2> QED BY <1>2, <2>2, <2>3, <2>4, IoLocks
<1>3. CASE ApiCall \/ ApiStep
  <2>1. CASE UpdateHandlersLocked
    BY <2>1 DEF UpdateHandlersLocked, Lock, HandlerMutexFree, MutexHeld, ioVars, opVars
  <2>2. CASE HandlersUpdated
    BY <2>2 DEF HandlersUpdated, SetHandlers, MutexHeld, ioVars
  <2>3. CASE InitializeLocked
    BY <2>3 DEF InitializeLocked, HandlerMutexFree, MutexHeld, registration
  <2>4. CASE ~UpdateHandlersLocked /\ ~HandlersUpdated /\ ~InitializeLocked
    <3>1. UNCHANGED <<registration, ioPc>> /\ opPc # "lock"
      BY <1>3, <2>4
         DEF ApiCall, UpdatePresence, UpdatePresenceForUser, Respond, UpdateHandlers, ClearHandlers,
             Initialize, Shutdown, MayCall, ApiStep, FindUser, SetPresence, SetPresenceForUser, Store,
             PassOver, PresenceSet, RespondReserves, RespondCommits, ShutdownJoined, handling, ioVars
    <3> QED BY <3>1 DEF MutexHeld, registration
  <2> QED BY <2>1, <2>2, <2>3, <2>4
<1>4. CASE Client
  BY <1>4, ClientFrame DEF MutexHeld, handling, registration, ioVars, opVars
<1>5. CASE UNCHANGED vars
  BY <1>5 DEF MutexHeld, vars, handling, registration, ioVars, opVars
<1>6. CASE RegistrationStep
  BY <1>6 DEF RegistrationStep, LookAtEvent, CommitEvent, Registering, MutexHeld, ioVars, opVars
<1> QED BY <1>1, <1>2, <1>3, <1>4, <1>5, <1>6 DEF Next, Callbacks

LEMMA SlotsStep ==
    TypeOK /\ RunsOnlyWhenAsked /\ MutexHeld /\ SlotsCounted /\ [Next]_vars => SlotsCounted'
<1> SUFFICES ASSUME TypeOK, RunsOnlyWhenAsked, MutexHeld, SlotsCounted, [Next]_vars
             PROVE  SlotsCounted'
  OBVIOUS
<1>0. /\ sendQueue \in Nat /\ MessageQueueSize \in Nat /\ Beyond \in Nat
      /\ Threaded => Beyond = 1
  BY ConstantsAssumption DEF TypeOK, SharedOK, Beyond
<1>1. CASE Callbacks
  BY <1>1, CallbacksFrame
     DEF IoUnchanged, SlotsCounted, SendQueueBound, handling, registration, opVars
<1>2. CASE IoStep
  <2>1. UNCHANGED sendQueue \/ (sendQueue > 0 /\ sendQueue' = sendQueue - 1)
    BY <1>2, IoTakes
  <2>2. UNCHANGED <<opPc, regPc>>
    BY <1>2, IoFrame, IoLocks
       DEF opVars, registration, ConnectLocks, ConnectHandlers, Lock, SetHandlers
  <2>3. ASSUME NEW n \in Nat
        PROVE  /\ sendQueue <= n => sendQueue' <= n
               /\ sendQueue + 1 <= n => sendQueue' + 1 <= n
    BY <1>0, <2>1
  <2> QED BY <1>0, <2>2, <2>3 DEF SlotsCounted, SendQueueBound, Beyond
<1>3. CASE ApiCall \/ ApiStep
  <2>1. CASE RespondReserves
    <3>1. UNCHANGED <<sendQueue, regPc>>
      BY <2>1 DEF RespondReserves, handling, registration, queues
    <3>2. CASE Room
      <4>1. regPc = "commit" => Threaded
        BY <2>1 DEF RespondReserves, RunsOnlyWhenAsked, MutexHeld, AppIdle, TypeOK, SharedOK
      <4>2. sendQueue + 1 <= MessageQueueSize
        BY <1>0, <3>2 DEF Room
      <4> QED BY <1>0, <3>1, <4>1, <4>2 DEF SlotsCounted, SendQueueBound, Beyond
    <3>3. CASE ~Room
      BY <2>1, <3>1, <3>3 DEF RespondReserves, End, Begin, SlotsCounted, SendQueueBound, Beyond
    <3> QED BY <3>2, <3>3
  <2>2. CASE RespondCommits
    <3>1. sendQueue' = sendQueue + 1 /\ opPc = "reserved" /\ opPc' = "idle" /\ UNCHANGED regPc
      BY <2>2 DEF RespondCommits, End, Begin, handling, registration
    <3>2. sendQueue' <= MessageQueueSize + Beyond
      BY <1>0, <3>1 DEF SlotsCounted
    <3>3. regPc = "commit" => sendQueue' + 1 <= MessageQueueSize + Beyond
      BY <1>0, <3>1 DEF SlotsCounted
    <3> QED BY <3>1, <3>2, <3>3 DEF SlotsCounted, SendQueueBound, Beyond
  <2>3. CASE ~RespondReserves /\ ~RespondCommits
    <3>1. UNCHANGED <<sendQueue, regPc>>
      BY <1>3, <2>3
         DEF ApiCall, UpdatePresence, UpdatePresenceForUser, Respond, UpdateHandlers, ClearHandlers,
             Initialize, Shutdown, ApiStep, FindUser, SetPresence, SetPresenceForUser, Store,
             PassOver, PresenceSet, UpdateHandlersLocked, HandlersUpdated, InitializeLocked,
             ShutdownJoined, Lock, SetHandlers, handling, registration, queues
    <3>2. opPc' # "reserved"
      BY <1>3, <2>3
         DEF ApiCall, UpdatePresence, UpdatePresenceForUser, Respond, UpdateHandlers, ClearHandlers,
             Initialize, Shutdown, MayCall, ApiStep, FindUser, SetPresence, SetPresenceForUser, Store,
             PassOver, PresenceSet, UpdateHandlersLocked, HandlersUpdated, InitializeLocked,
             ShutdownJoined, End, Begin, opVars
    <3> QED BY <3>1, <3>2 DEF SlotsCounted, SendQueueBound, Beyond
  <2> QED BY <2>1, <2>2, <2>3
<1>4. CASE Client
  BY <1>4, ClientFrame
     DEF SlotsCounted, SendQueueBound, Beyond, queues, handling, registration, opVars
<1>5. CASE UNCHANGED vars
  BY <1>5 DEF vars, SlotsCounted, SendQueueBound, Beyond, queues, handling, registration, opVars
<1>6. CASE LookAtEvent
  <2>1. UNCHANGED <<sendQueue, opPc>>
    BY <1>6 DEF LookAtEvent, Registering, opVars
  <2>2. CASE Changes /\ Room
    <3>1. opPc = "reserved" => Threaded
      BY <1>6 DEF LookAtEvent, Registering, RunsOnlyWhenAsked, MutexHeld, AppIdle, TypeOK, SharedOK
    <3>2. sendQueue + 1 <= MessageQueueSize
      BY <1>0, <2>2 DEF Room
    <3> QED BY <1>0, <2>1, <3>1, <3>2 DEF SlotsCounted, SendQueueBound, Beyond
  <2>3. CASE ~(Changes /\ Room)
    BY <1>6, <2>1, <2>3 DEF LookAtEvent, SlotsCounted, SendQueueBound, Beyond
  <2> QED BY <2>2, <2>3
<1>7. CASE CommitEvent
  <2>1. sendQueue' = sendQueue + 1 /\ regPc = "commit" /\ regPc' = "look" /\ UNCHANGED opPc
    BY <1>7 DEF CommitEvent, Registering, opVars
  <2>2. sendQueue' <= MessageQueueSize + Beyond
    BY <1>0, <2>1 DEF SlotsCounted
  <2>3. opPc = "reserved" => sendQueue' + 1 <= MessageQueueSize + Beyond
    BY <1>0, <2>1 DEF SlotsCounted
  <2> QED BY <2>1, <2>2, <2>3 DEF SlotsCounted, SendQueueBound, Beyond
<1> QED BY <1>1, <1>2, <1>3, <1>4, <1>5, <1>6, <1>7 DEF Next, Callbacks, RegistrationStep

\* SendQueue, whose two producers no mutex keeps apart, holds one message beyond
\* its size at most, and none in a build without an IO thread, however
\* Discord_Respond and Discord_UpdateHandlers interleave (msg_queue.h:20-29,
\* discord_rpc.cpp:166-190, 552-556).
THEOREM QueueOverrunsByOne == Spec => []SendQueueBound
<1>1. Init => RunsOnlyWhenAsked /\ MutexHeld
  BY DEF Init, RunsOnlyWhenAsked, MutexHeld
<1>2. Init => SlotsCounted
  BY ConstantsAssumption DEF Init, SlotsCounted, SendQueueBound, Beyond
<1>3. SlotsCounted => SendQueueBound
  BY DEF SlotsCounted
<1> QED BY <1>1, <1>2, <1>3, TypeCorrect, RunsStep, MutexStep, SlotsStep, PTL DEF Spec

-----------------------------------------------------------------------------
(***************************************************************************)
(* The assertion in the loop of Discord_UpdateConnection.  What has been   *)
(* established under ConnectionsMutex stays true of the connections that   *)
(* are still to be visited: only the IO thread opens and closes them, one  *)
(* at a time, and nobody else writes CachedPathSet while it is at it.      *)
(***************************************************************************)
Looping ==
    \/ ioPc \in {"each", "handlers", "greet", "user", "read", "presence", "copy", "write", "requeue"}
    \/ ioPc = "closing" /\ ioAfter # "send"

StillToVisit ==
    Looping =>
        /\ \A c \in ioTodo : rpc[c] = "Connected" \/ PathOf(c) \in cachedPaths
        /\ ioPc # "each" => ioCur \notin ioTodo

LEMMA VisitStep ==
    TypeOK /\ RunsOnlyWhenAsked /\ StillToVisit /\ [Next]_vars => StillToVisit'
<1> SUFFICES ASSUME TypeOK, RunsOnlyWhenAsked, StillToVisit, [Next]_vars PROVE StillToVisit'
  OBVIOUS
<1>0. ioTodo \subseteq Conns /\ IoOK
      /\ rpc \in [Conns -> {"Disconnected", "SentHandshake", "Connected"}]
  BY DEF TypeOK, IoOK, ConnsOK
<1>1. CASE Callbacks
  BY <1>1, CallbacksFrame DEF IoUnchanged, StillToVisit, Looping, globals, ioVars
<1>2. CASE IoStep
  <2>1. CASE AnyTick
    <3>1. PICK paths \in {present, cachedPaths} : Tick(paths)
      BY <2>1 DEF AnyTick
    <3>2. \A c \in connections' : rpc'[c] = "Connected" \/ PathOf(c) \in paths
      BY <3>1, TickConnections
    <3> QED BY <3>1, <3>2 DEF Tick, StillToVisit, Looping
  <2>2. CASE ~AnyTick
    <3>1. UNCHANGED cachedPaths
      BY <1>2, <2>2, IoFrame
    <3>2. CASE \E c \in Conns : OpenLater(c) \/ StartReading(c)
      BY <1>0, <3>1, <3>2 DEF OpenLater, StartReading, Take, StillToVisit, Looping, conns
    <3>3. CASE \E c \in Conns : OpenSendsHandshake(c) \/ OpenGetsReady(c)
      BY <1>0, <3>1, <3>3 DEF OpenSendsHandshake, OpenGetsReady, Take, StillToVisit, Looping
    <3>4. CASE \E c \in Conns : OpenLosesHandshake(c)
      BY <1>0, <3>1, <3>4 DEF OpenLosesHandshake, Take, Lose, StillToVisit, Looping
    <3>5. CASE \/ \E c \in Conns : SendMessage(c) \/ SkipClosed(c) \/ SendFails(c)
               \/ TakeMessage \/ EndTick
      BY <1>0, <3>5 DEF SendMessage, SkipClosed, SendFails, TakeMessage, EndTick, Addressed, Lose,
                        StillToVisit, Looping
    <3>6. CASE Closed
      <4>1. /\ rpc' = [rpc EXCEPT ![ioCur] = "Disconnected"]
            /\ ioTodo' = ioTodo /\ ioPc = "closing" /\ ioPc' = ioAfter
        BY <3>6 DEF Closed
      <4>2. ioAfter \in {"each", "presence", "requeue", "send"}
        BY <1>0 DEF IoOK
      <4>3. CASE ioAfter = "send"
        BY <4>1, <4>3 DEF StillToVisit, Looping
      <4>4. CASE ioAfter # "send"
        <5>1. /\ \A c \in ioTodo : rpc[c] = "Connected" \/ PathOf(c) \in cachedPaths
              /\ ioCur \notin ioTodo
          BY <4>1, <4>4 DEF StillToVisit, Looping
        <5>2. \A c \in ioTodo' : rpc'[c] = "Connected" \/ PathOf(c) \in cachedPaths'
          BY <1>0, <3>1, <4>1, <5>1
        <5>3. ioPc' # "each" => ioCur' = ioCur
          BY <3>6, <4>4, <4>1 DEF Closed
        <5> QED BY <4>1, <5>1, <5>2, <5>3 DEF StillToVisit
      <4> QED BY <4>3, <4>4
    <3>7. CASE ConnectLocks \/ ConnectHandlers \/ ConnectPresence \/ \E u \in Users \cup {NoUser} : ConnectUser(u)
      BY <3>1, <3>7 DEF ConnectLocks, ConnectHandlers, ConnectPresence, ConnectUser,
                        StillToVisit, Looping, conns, ioVars
    <3>8. CASE (\E s \in Incoming : ReadSignal(s)) \/ ReadRequest \/ ReadNothing
      BY <3>1, <3>8 DEF ReadSignal, ReadRequest, ReadNothing, StillToVisit, Looping, conns, ioVars
    <3>9. CASE ReadFails \/ WritePresenceFails
      BY <3>1, <3>9 DEF ReadFails, WritePresenceFails, Lose, StillToVisit, Looping
    <3>10. CASE TakeUpdate \/ CopyPresence \/ WritePresence \/ Requeue
      BY <3>1, <3>10 DEF TakeUpdate, CopyPresence, WritePresence, Requeue, StillToVisit, Looping, conns
    <3> QED
      BY <1>2, <2>2, <3>2, <3>3, <3>4, <3>5, <3>6, <3>7, <3>8, <3>9, <3>10 DEF IoStep
  <2> QED BY <2>1, <2>2
<1>3. CASE ApiCall \/ ApiStep
  <2>1. CASE InitializeLocked
    BY <2>1 DEF InitializeLocked, StillToVisit, Looping
  <2>2. CASE ShutdownJoined
    <3>1. ioPc \in {"off", "tick", "done"}
      BY <2>2, ConstantsAssumption DEF ShutdownJoined, Joined, RunsOnlyWhenAsked, AppIdle
    <3> QED BY <2>2, <3>1 DEF ShutdownJoined, StillToVisit, Looping, ioVars
  <2>3. CASE (\E c \in Conns : SetPresence(c)) \/ SetPresenceForUser
    BY <2>3 DEF SetPresence, SetPresenceForUser, Store, StillToVisit, Looping, globals, ioVars
  <2>4. CASE ConnsUnchanged /\ UNCHANGED <<ioVars, cachedPaths>>
    BY <2>4 DEF ConnsUnchanged, StillToVisit, Looping, conns, ioVars
  <2> QED BY <1>3, <2>1, <2>2, <2>3, <2>4, ApiFrame DEF ApiWrites
<1>4. CASE Client
  BY <1>4, ClientFrame DEF StillToVisit, Looping, globals, conns, ioVars
<1>5. CASE UNCHANGED vars
  BY <1>5 DEF StillToVisit, Looping, vars, globals, conns, ioVars
<1>6. CASE RegistrationStep
  BY <1>6, RegistrationFrame DEF Registering, StillToVisit, Looping, globals, conns, ioVars
<1> QED BY <1>1, <1>2, <1>3, <1>4, <1>5, <1>6 DEF Next, Callbacks

\* assert(false) in Discord_UpdateConnection is never reached.
THEOREM AssertionHolds == Spec => []OpenOrPresent
<1>1. Init => RunsOnlyWhenAsked /\ StillToVisit
  BY DEF Init, RunsOnlyWhenAsked, StillToVisit, Looping
<1>2. StillToVisit => OpenOrPresent
  BY DEF StillToVisit, Looping, OpenOrPresent
<1> QED BY <1>1, <1>2, TypeCorrect, RunsStep, VisitStep, PTL DEF Spec
-----------------------------------------------------------------------------
(***************************************************************************)
(* No presence is lost.  A client that does not show the presence set last *)
(* although no update is flagged is one the IO thread is busy with: it has *)
(* connected and not yet been flagged, or the flag has been taken and the  *)
(* presence, copied after that, is on its way.  A call of                  *)
(* Discord_UpdatePresence in between flags the connection again.           *)
(***************************************************************************)
UnderWay(c) ==
    ioCur = c /\ ioPc \in {"handlers", "greet", "closing", "copy", "write", "requeue"}

Delivered(c) ==
    ~upd[c] =>
        /\ rpc[c] = "Connected" /\ queued[c] # NoPresence => shown[c] = queued[c] \/ UnderWay(c)
        /\ ioCur = c /\ ioPc = "write" => ioLocal = queued[c]

AllDelivered == \A c \in Conns : Delivered(c)

LEMMA DeliverIo == TypeOK /\ AllDelivered /\ IoStep => AllDelivered'
<1> SUFFICES ASSUME TypeOK, AllDelivered, IoStep, NEW c \in Conns PROVE Delivered(c)'
  BY DEF AllDelivered
<1>0. Delivered(c) /\ IoOK
  BY DEF AllDelivered, TypeOK
<1>1. /\ rpc \in [Conns -> {"Disconnected", "SentHandshake", "Connected"}]
      /\ upd \in [Conns -> BOOLEAN]
      /\ queued \in [Conns -> QueuedPresences]
      /\ shown \in [Conns -> QueuedPresences]
  BY DEF TypeOK, ConnsOK
<1>2. CASE AnyTick
  <2>1. PICK fresh : Refresh(fresh)
    BY <1>2 DEF AnyTick, Tick
  <2>2. ioPc = "tick" /\ ioPc' = "each"
    BY <1>2 DEF AnyTick, Tick
  <2>3. CASE c \in fresh
    BY <2>1, <2>2, <2>3 DEF Refresh, Delivered
  <2>4. CASE c \notin fresh
    <3>1. rpc'[c] = rpc[c] /\ queued'[c] = queued[c] /\ shown'[c] = shown[c] /\ upd'[c] = upd[c]
      BY <1>1, <2>1, <2>4 DEF Refresh
    <3> QED BY <1>0, <2>2, <3>1 DEF Delivered, UnderWay
  <2> QED BY <2>3, <2>4
<1>3. CASE \E d \in Conns : OpenLater(d) \/ StartReading(d) \/ SkipClosed(d) \/ SendMessage(d)
  BY <1>0, <1>3 DEF OpenLater, StartReading, SkipClosed, SendMessage, Take, Addressed, Delivered,
                    UnderWay, conns, flags, clients
<1>4. CASE \E d \in Conns : OpenSendsHandshake(d) \/ OpenGetsReady(d)
  BY <1>0, <1>1, <1>4 DEF OpenSendsHandshake, OpenGetsReady, Take, Delivered, UnderWay, flags, clients
<1>5. CASE \/ \E d \in Conns : OpenLosesHandshake(d) \/ SendFails(d)
           \/ ReadFails \/ WritePresenceFails
  BY <1>0, <1>5 DEF OpenLosesHandshake, SendFails, ReadFails, WritePresenceFails, Lose, Take,
                    Addressed, Delivered, UnderWay, clients
<1>6. CASE ConnectLocks \/ ConnectHandlers \/ \E u \in Users \cup {NoUser} : ConnectUser(u)
  BY <1>0, <1>6 DEF ConnectLocks, ConnectHandlers, ConnectUser, Delivered, UnderWay, conns,
                    flags, clients, ioVars
<1>7. CASE ConnectPresence
  BY <1>0, <1>1, <1>7 DEF ConnectPresence, Greets, Delivered, UnderWay, clients
<1>8. CASE Closed
  BY <1>0, <1>1, <1>8 DEF Closed, Delivered, UnderWay, IoOK, flags, clients
<1>9. CASE (\E s \in Incoming : ReadSignal(s)) \/ ReadRequest \/ ReadNothing
  BY <1>0, <1>9 DEF ReadSignal, ReadRequest, ReadNothing, Delivered, UnderWay, conns, flags,
                    clients, ioVars
<1>10. CASE TakeUpdate
  BY <1>0, <1>1, <1>10 DEF TakeUpdate, Delivered, UnderWay, clients
<1>11. CASE CopyPresence
  BY <1>0, <1>11 DEF CopyPresence, Delivered, UnderWay, conns, flags, clients
<1>12. CASE WritePresence
  BY <1>0, <1>1, <1>12 DEF WritePresence, Delivered, UnderWay, conns, flags
<1>13. CASE Requeue
  BY <1>0, <1>1, <1>13 DEF Requeue, Delivered, UnderWay, clients
<1>14. CASE TakeMessage \/ EndTick
  BY <1>0, <1>14 DEF TakeMessage, EndTick, AllServed, Delivered, UnderWay, conns, flags, clients
<1> QED
  BY <1>2, <1>3, <1>4, <1>5, <1>6, <1>7, <1>8, <1>9, <1>10, <1>11, <1>12, <1>13, <1>14 DEF IoStep

LEMMA DeliverStep == TypeOK /\ RunsOnlyWhenAsked /\ AllDelivered /\ [Next]_vars => AllDelivered'
<1> SUFFICES ASSUME TypeOK, RunsOnlyWhenAsked, AllDelivered, [Next]_vars PROVE AllDelivered'
  OBVIOUS
<1>1. CASE Callbacks
  BY <1>1, CallbacksFrame DEF IoUnchanged, AllDelivered, Delivered, UnderWay, ioVars, clients
<1>2. CASE IoStep
  BY <1>2, DeliverIo
<1>3. CASE ApiCall \/ ApiStep
  <2>0. SUFFICES ASSUME NEW c \in Conns PROVE Delivered(c)'
    BY DEF AllDelivered
  <2>1. Delivered(c) /\ upd \in [Conns -> BOOLEAN] /\ queued \in [Conns -> QueuedPresences]
        /\ rpc \in [Conns -> {"Disconnected", "SentHandshake", "Connected"}]
        /\ shown \in [Conns -> QueuedPresences]
    BY DEF AllDelivered, TypeOK, ConnsOK
  <2>2. CASE (\E d \in Conns : SetPresence(d)) \/ SetPresenceForUser
    BY <2>1, <2>2 DEF SetPresence, SetPresenceForUser, Store, Flagged, Delivered, UnderWay, clients,
                      ioVars
  <2>3. CASE InitializeLocked
    <3>1. ioPc \in {"off", "tick", "done"}
      BY <2>3, ConstantsAssumption DEF InitializeLocked, RunsOnlyWhenAsked, AppIdle
    <3> QED BY <2>1, <2>3, <3>1 DEF InitializeLocked, ConnsUnchanged, Delivered, UnderWay, conns,
                                    flags, clients
  <2>4. CASE ShutdownJoined
    <3>1. ioPc' \in {"off", "tick", "done"}
      BY <2>4, ConstantsAssumption DEF ShutdownJoined, Joined, RunsOnlyWhenAsked, AppIdle, ioVars
    <3>2. CASE c \in connections \ rcSnap
      <4>1. rpc'[c] = "Disconnected"
        BY <2>4, <3>2 DEF ShutdownJoined, Refresh
      <4> QED BY <3>1, <4>1 DEF Delivered
    <3>3. CASE c \notin connections \ rcSnap
      <4>1. rpc'[c] = rpc[c] /\ queued'[c] = queued[c] /\ shown'[c] = shown[c] /\ upd'[c] = upd[c]
        BY <2>1, <2>4, <3>3 DEF ShutdownJoined, Refresh
      <4>2. UNCHANGED ioVars
        BY <2>4 DEF ShutdownJoined
      <4> QED BY <2>1, <4>1, <4>2 DEF Delivered, UnderWay, ioVars
    <3> QED BY <3>2, <3>3
  <2>5. CASE ConnsUnchanged /\ UNCHANGED ioVars
    BY <2>1, <2>5 DEF ConnsUnchanged, Delivered, UnderWay, conns, flags, clients, ioVars
  <2> QED BY <1>3, <2>2, <2>3, <2>4, <2>5, ApiFrame DEF ApiWrites
<1>4. CASE Client
  BY <1>4, ClientFrame DEF AllDelivered, Delivered, UnderWay, conns, flags, ioVars
<1>5. CASE UNCHANGED vars
  BY <1>5 DEF AllDelivered, Delivered, UnderWay, vars, conns, flags, ioVars, clients
<1>6. CASE RegistrationStep
  BY <1>6, RegistrationFrame DEF Registering, AllDelivered, Delivered, UnderWay, conns, flags, ioVars, clients
<1> QED BY <1>1, <1>2, <1>3, <1>4, <1>5, <1>6 DEF Next, Callbacks

\* A connected client shows the presence set last, or it is flagged, or the IO
\* thread is at it; for any number of connections, users and presences.
THEOREM PresenceIsNotLost == Spec => []NoLostPresence
<1>1. Init => RunsOnlyWhenAsked /\ AllDelivered
  BY DEF Init, RunsOnlyWhenAsked, AllDelivered, Delivered
<1>2. TypeOK /\ AllDelivered => NoLostPresence
  BY DEF TypeOK, SharedOK, AllDelivered, Delivered, UnderWay, NoLostPresence, Busy
<1> QED BY <1>1, <1>2, TypeCorrect, RunsStep, DeliverStep, PTL DEF Spec

-----------------------------------------------------------------------------
(***************************************************************************)
(* Each connection is a session of RpcSession.  Moves(c) are the six       *)
(* things a step can do to c, as far as RpcSession tells them apart; which *)
(* one it is does not depend on the counts.                                *)
(***************************************************************************)
Uncalled(c) == ~ConnectCalled(c) /\ ~DisconnectCalled(c)

Rests(c) == rpc'[c] = rpc[c] /\ (InClose(c)' <=> InClose(c)) /\ Uncalled(c) /\ ~Remade(c)
IsMade(c) == Remade(c) /\ rpc'[c] = "Disconnected" /\ ~InClose(c)'
Begins(c) ==
    /\ rpc[c] = "Disconnected" /\ rpc'[c] = "SentHandshake"
    /\ ~InClose(c) /\ ~InClose(c)' /\ Uncalled(c)
GetsReady(c) ==
    /\ rpc[c] = "SentHandshake" /\ rpc'[c] = "Connected"
    /\ ~InClose(c) /\ ~InClose(c)' /\ ConnectCalled(c) /\ ~Remade(c)
IsLost(c) ==
    /\ rpc[c] # "Disconnected" /\ rpc'[c] = rpc[c]
    /\ ~InClose(c) /\ InClose(c)' /\ DisconnectCalled(c) /\ ~Remade(c)
IsClosed(c) ==
    /\ InClose(c) /\ ~InClose(c)' /\ rpc'[c] = "Disconnected"
    /\ Uncalled(c) /\ ~Remade(c)

Moves(c) == Rests(c) \/ IsMade(c) \/ Begins(c) \/ GetsReady(c) \/ IsLost(c) \/ IsClosed(c)

\* Where the read loop and onConnect are at a connection it is open, and what is in
\* Close was not closed before; Discord_Shutdown holds no snapshot of its own.
AtWork ==
    /\ ioPc \in {"handlers", "greet", "user", "read"} => rpc[ioCur] = "Connected"
    /\ ioPc = "closing" => rpc[ioCur] # "Disconnected"
    /\ opPc = "join" => opTodo = {}

LEMMA AtWorkStep == TypeOK /\ RunsOnlyWhenAsked /\ AtWork /\ [Next]_vars => AtWork'
<1> SUFFICES ASSUME TypeOK, RunsOnlyWhenAsked, AtWork, [Next]_vars PROVE AtWork'
  OBVIOUS
<1>0. /\ rpc \in [Conns -> {"Disconnected", "SentHandshake", "Connected"}]
      /\ IoOK
  BY DEF TypeOK, ConnsOK
<1>1. CASE Callbacks
  BY <1>1, CallbacksFrame DEF IoUnchanged, AtWork, ioVars, opVars
<1>2. CASE IoStep
  <2>0. UNCHANGED <<opPc, opTodo>>
    BY <1>2, IoFrame DEF opVars
  <2>1. CASE AnyTick
    BY <2>0, <2>1 DEF AnyTick, Tick, AtWork
  <2>2. CASE \E c \in Conns : OpenLater(c) \/ OpenSendsHandshake(c) \/ StartReading(c)
    BY <1>0, <2>0, <2>2 DEF OpenLater, OpenSendsHandshake, StartReading, Take, AtWork, conns
  <2>3. CASE \E c \in Conns : OpenGetsReady(c)
    BY <1>0, <2>0, <2>3 DEF OpenGetsReady, Take, AtWork
  <2>4. CASE \/ \E c \in Conns : OpenLosesHandshake(c) \/ SendFails(c)
             \/ ReadFails \/ WritePresenceFails
    BY <1>0, <2>0, <2>4
       DEF OpenLosesHandshake, SendFails, ReadFails, WritePresenceFails, Reports, Lose, AtWork
  <2>5. CASE \/ \E c \in Conns : SendMessage(c) \/ SkipClosed(c)
             \/ TakeMessage \/ EndTick
    BY <2>0, <2>5
       DEF SendMessage, SkipClosed, TakeMessage, EndTick, Addressed, AllServed, AtWork, conns
  <2>6. CASE \/ ConnectLocks \/ ConnectHandlers \/ ConnectPresence
             \/ \E u \in Users \cup {NoUser} : ConnectUser(u)
    BY <2>0, <2>6 DEF ConnectLocks, ConnectHandlers, ConnectPresence, ConnectUser, AtWork, conns, ioVars
  <2>7. CASE Closed
    <3>1. ioPc' \in {"each", "presence", "requeue", "send"}
      BY <1>0, <2>7 DEF Closed, IoOK
    <3> QED BY <2>0, <3>1 DEF AtWork
  <2>8. CASE (\E s \in Incoming : ReadSignal(s)) \/ ReadRequest \/ ReadNothing
    BY <2>0, <2>8 DEF ReadSignal, ReadRequest, ReadNothing, AtWork, conns, ioVars
  <2>9. CASE TakeUpdate \/ CopyPresence \/ WritePresence \/ Requeue
    BY <2>0, <2>9 DEF TakeUpdate, CopyPresence, WritePresence, Requeue, AtWork
  <2> QED
    BY <1>2, <2>1, <2>2, <2>3, <2>4, <2>5, <2>6, <2>7, <2>8, <2>9 DEF IoStep
<1>3. CASE ApiCall \/ ApiStep
  <2>1. opPc' = "join" => opTodo' = {}
    BY <1>3
       DEF AtWork, ApiCall, UpdatePresence, UpdatePresenceForUser, Respond, UpdateHandlers,
           ClearHandlers, Initialize, Shutdown, ApiStep, FindUser, SetPresence, SetPresenceForUser,
           Store, PassOver, PresenceSet, RespondReserves, RespondCommits, UpdateHandlersLocked,
           HandlersUpdated, InitializeLocked, ShutdownJoined, End, Begin, opVars
  <2>2. CASE InitializeLocked
    BY <2>1, <2>2 DEF InitializeLocked, AtWork
  <2>3. CASE ShutdownJoined
    <3>1. ioPc' \in {"off", "tick", "done"}
      BY <2>3, ConstantsAssumption DEF ShutdownJoined, Joined, RunsOnlyWhenAsked, AppIdle, ioVars
    <3> QED BY <2>1, <3>1 DEF AtWork
  <2>4. CASE (\E c \in Conns : SetPresence(c)) \/ SetPresenceForUser
    BY <2>1, <2>4 DEF SetPresence, SetPresenceForUser, Store, AtWork, ioVars
  <2>5. CASE ConnsUnchanged /\ UNCHANGED ioVars
    BY <2>1, <2>5 DEF ConnsUnchanged, AtWork, conns, ioVars
  <2> QED BY <1>3, <2>2, <2>3, <2>4, <2>5, ApiFrame DEF ApiWrites
<1>4. CASE Client
  BY <1>4, ClientFrame DEF AtWork, conns, ioVars, opVars
<1>5. CASE UNCHANGED vars
  BY <1>5 DEF AtWork, vars, conns, ioVars, opVars
<1>6. CASE RegistrationStep
  BY <1>6, RegistrationFrame DEF Registering, AtWork, conns, ioVars, opVars
<1> QED BY <1>1, <1>2, <1>3, <1>4, <1>5, <1>6 DEF Next, Callbacks

\* A step that leaves connections and the IO thread where they are.
LEMMA RestsStep ==
    ASSUME NEW c, UNCHANGED <<rpc, ioPc, ioCur, connections>>
    PROVE  Rests(c)
BY DEF Rests, InClose, Uncalled, ConnectCalled, DisconnectCalled, Remade

LEMMA TickMoves ==
    ASSUME TypeOK, AnyTick, NEW c \in Conns
    PROVE  Moves(c)
<1>1. PICK paths \in {present, cachedPaths} : Tick(paths)
  BY DEF AnyTick
<1> DEFINE missing == paths \ {PathOf(d) : d \in connections}
           new == {CHOOSE d \in FreeSlots(p) : TRUE : p \in missing}
           gone == {d \in connections : Expired(d, paths)}
<1>2. /\ \A p \in missing : FreeSlots(p) # {}
      /\ connections' = (connections \ gone) \cup new
      /\ Refresh(new \cup (gone \ Held))
      /\ ioPc = "tick" /\ ioPc' = "each"
  BY <1>1 DEF Tick
<1>3. \A d \in new : d \notin connections
  BY <1>2, TickAdds
<1>4. ~InClose(c) /\ ~InClose(c)' /\ Uncalled(c)
  BY <1>2 DEF InClose, Uncalled, ConnectCalled, DisconnectCalled
<1> HIDE DEF new, gone
<1>5. gone \subseteq connections
  BY DEF gone
<1>6. Remade(c) <=> c \in new \cup (gone \ Held)
  BY <1>2, <1>3, <1>5 DEF Remade
<1>7. CASE c \in new \cup (gone \ Held)
  BY <1>2, <1>4, <1>6, <1>7 DEF Refresh, Moves, IsMade
<1>8. CASE c \notin new \cup (gone \ Held)
  BY <1>2, <1>4, <1>6, <1>8 DEF Refresh, Moves, Rests
<1> QED BY <1>7, <1>8

LEMMA IoMoves ==
    ASSUME TypeOK, AtWork, IoStep, NEW c \in Conns
    PROVE  Moves(c)
<1>0. /\ rpc \in [Conns -> {"Disconnected", "SentHandshake", "Connected"}]
      /\ IoOK
  BY DEF TypeOK, ConnsOK
<1>1. CASE AnyTick
  BY <1>1, TickMoves
<1>2. CASE ~AnyTick
  <2>0. UNCHANGED connections
    BY <1>2, IoFrame
  <2>1. ~Remade(c)
    BY <2>0 DEF Remade
  <2>2. CASE \E d \in Conns : OpenLater(d) \/ SendMessage(d) \/ SkipClosed(d)
    BY <2>0, <2>2, RestsStep DEF OpenLater, SendMessage, SkipClosed, Moves, conns
  <2>3. CASE \E d \in Conns : OpenSendsHandshake(d)
    <3>1. PICK d \in Conns : OpenSendsHandshake(d)
      BY <2>3
    <3>2. /\ ioPc = "each" /\ ioPc' = "each" /\ rpc[d] = "Disconnected"
          /\ rpc' = [rpc EXCEPT ![d] = "SentHandshake"]
      BY <3>1 DEF OpenSendsHandshake, Take
    <3>3. ~InClose(c) /\ ~InClose(c)' /\ Uncalled(c)
      BY <3>2 DEF InClose, Uncalled, ConnectCalled, DisconnectCalled
    <3> QED BY <1>0, <2>1, <3>2, <3>3 DEF Moves, Begins, Rests
  <2>4. CASE \E d \in Conns : OpenGetsReady(d)
    <3>1. PICK d \in Conns : OpenGetsReady(d)
      BY <2>4
    <3>2. /\ ioPc = "each" /\ ioPc' = "handlers" /\ ioCur' = d /\ rpc[d] = "SentHandshake"
          /\ rpc' = [rpc EXCEPT ![d] = "Connected"]
      BY <3>1 DEF OpenGetsReady, Take
    <3>3. ~InClose(c) /\ ~InClose(c)' /\ ~DisconnectCalled(c) /\ (ConnectCalled(c) <=> c = d)
      BY <3>2 DEF InClose, ConnectCalled, DisconnectCalled
    <3> QED BY <1>0, <2>1, <3>2, <3>3 DEF Moves, GetsReady, Rests, Uncalled
  <2>5. CASE \E d \in Conns : StartReading(d)
    <3>1. PICK d \in Conns : StartReading(d)
      BY <2>5
    <3>2. ioPc = "each" /\ ioPc' = "read" /\ rpc' = rpc
      BY <3>1 DEF StartReading, Take, conns
    <3> QED BY <2>1, <3>2 DEF Moves, Rests, InClose, Uncalled, ConnectCalled, DisconnectCalled
  <2>6. CASE /\ \E d \in Conns, after \in {"each", "presence", "requeue", "send"} :
                    Lose(d, after) /\ rpc[d] # "Disconnected"
             /\ ioPc # "closing" /\ rpc' = rpc
    <3>1. PICK d \in Conns : ioPc' = "closing" /\ ioCur' = d /\ rpc[d] # "Disconnected"
      BY <2>6 DEF Lose
    <3>2. ~InClose(c) /\ (InClose(c)' <=> c = d) /\ ~ConnectCalled(c) /\ (DisconnectCalled(c) <=> c = d)
      BY <2>6, <3>1 DEF InClose, ConnectCalled, DisconnectCalled
    <3> QED BY <2>1, <2>6, <3>1, <3>2 DEF Moves, IsLost, Rests, Uncalled
  <2>7. CASE \/ \E d \in Conns : OpenLosesHandshake(d) \/ SendFails(d)
             \/ ReadFails
    BY <1>0, <2>6, <2>7
       DEF OpenLosesHandshake, SendFails, ReadFails, Take, Addressed, AtWork, IoOK
  <2>8. CASE WritePresenceFails
    <3>1. CASE Reports(ioCur)
      BY <1>0, <2>6, <2>8, <3>1 DEF WritePresenceFails, Reports, IoOK
    <3>2. CASE ~Reports(ioCur)
      <4>1. ioPc = "write" /\ ioPc' = "requeue" /\ rpc' = rpc
        BY <2>8, <3>2 DEF WritePresenceFails
      <4> QED BY <2>1, <4>1 DEF Moves, Rests, InClose, Uncalled, ConnectCalled, DisconnectCalled
    <3> QED BY <3>1, <3>2
  <2>9. CASE Closed
    <3>1. /\ ioPc = "closing" /\ ioPc' \in {"each", "presence", "requeue", "send"}
          /\ rpc' = [rpc EXCEPT ![ioCur] = "Disconnected"]
      BY <1>0, <2>9 DEF Closed, IoOK
    <3>2. ~InClose(c)' /\ Uncalled(c) /\ (InClose(c) <=> c = ioCur)
      BY <3>1 DEF InClose, Uncalled, ConnectCalled, DisconnectCalled
    <3> QED BY <1>0, <2>1, <3>1, <3>2 DEF Moves, IsClosed, Rests
  <2>10. CASE \/ ConnectLocks \/ ConnectHandlers \/ ConnectPresence
              \/ \E u \in Users \cup {NoUser} : ConnectUser(u)
    <3>1. ioPc # "closing" /\ rpc' = rpc
          /\ (ioPc' \in {"greet", "user", "each"} \/ ioPc' = ioPc)
      BY <2>10 DEF ConnectLocks, ConnectHandlers, ConnectPresence, ConnectUser, conns, ioVars
    <3> QED BY <2>1, <3>1 DEF Moves, Rests, InClose, Uncalled, ConnectCalled, DisconnectCalled
  <2>11. CASE (\E s \in Incoming : ReadSignal(s)) \/ ReadRequest
    BY <2>0, <2>11, RestsStep DEF ReadSignal, ReadRequest, Moves, conns, ioVars
  <2>12. CASE ReadNothing \/ TakeUpdate \/ CopyPresence \/ WritePresence \/ Requeue
    <3>1. ioPc # "closing" /\ ioPc' \in {"presence", "copy", "each", "write"} /\ rpc' = rpc
      BY <2>12 DEF ReadNothing, TakeUpdate, CopyPresence, WritePresence, Requeue, conns
    <3> QED BY <2>1, <3>1 DEF Moves, Rests, InClose, Uncalled, ConnectCalled, DisconnectCalled
  <2>13. CASE TakeMessage \/ EndTick
    <3>1. ioPc # "closing" /\ ioPc' \in {"send", "tick", "done"} /\ rpc' = rpc
      BY <2>13 DEF TakeMessage, EndTick, AllServed, conns
    <3> QED BY <2>1, <3>1 DEF Moves, Rests, InClose, Uncalled, ConnectCalled, DisconnectCalled
  <2> QED
    BY <1>2, <2>2, <2>3, <2>4, <2>5, <2>7, <2>8, <2>9, <2>10, <2>11, <2>12, <2>13 DEF IoStep, AnyTick
<1> QED BY <1>1, <1>2

LEMMA StepMoves ==
    ASSUME TypeOK, RunsOnlyWhenAsked, AtWork, Next, NEW c \in Conns
    PROVE  Moves(c)
<1>0. rpc \in [Conns -> {"Disconnected", "SentHandshake", "Connected"}]
  BY DEF TypeOK, ConnsOK
<1>1. CASE Callbacks
  BY <1>1, CallbacksFrame, RestsStep DEF IoUnchanged, Moves, globals, ioVars
<1>2. CASE IoStep
  BY <1>2, IoMoves
<1>3. CASE ApiCall \/ ApiStep
  <2>1. CASE InitializeLocked
    <3>1. /\ ioPc \in {"off", "tick", "done"} /\ ioPc' = "tick"
          /\ UNCHANGED <<rpc, connections>>
      BY <2>1, ConstantsAssumption
         DEF InitializeLocked, ConnsUnchanged, RunsOnlyWhenAsked, AppIdle, conns
    <3> QED BY <3>1 DEF Moves, Rests, InClose, Uncalled, ConnectCalled, DisconnectCalled, Remade
  <2>2. CASE ShutdownJoined
    <3>1. /\ ioPc \in {"off", "tick", "done"} /\ ioPc' = ioPc /\ opTodo = {}
          /\ connections' = {} /\ Refresh(connections \ rcSnap)
      BY <2>2, ConstantsAssumption
         DEF ShutdownJoined, Joined, RunsOnlyWhenAsked, AppIdle, AtWork, ioVars
    <3>2. ~InClose(c) /\ ~InClose(c)' /\ Uncalled(c)
      BY <3>1 DEF InClose, Uncalled, ConnectCalled, DisconnectCalled
    <3>3. Remade(c) <=> c \in connections \ rcSnap
      BY <3>1 DEF Remade, Held
    <3>4. CASE c \in connections \ rcSnap
      BY <3>1, <3>2, <3>3, <3>4 DEF Refresh, Moves, IsMade
    <3>5. CASE c \notin connections \ rcSnap
      BY <3>1, <3>2, <3>3, <3>5 DEF Refresh, Moves, Rests
    <3> QED BY <3>4, <3>5
  <2>3. CASE (\E d \in Conns : SetPresence(d)) \/ SetPresenceForUser
    BY <2>3, RestsStep DEF SetPresence, SetPresenceForUser, Store, Moves, globals, ioVars
  <2>4. CASE ConnsUnchanged /\ UNCHANGED <<ioVars, connections>>
    BY <2>4, RestsStep DEF ConnsUnchanged, Moves, conns, ioVars
  <2> QED BY <1>3, <2>1, <2>2, <2>3, <2>4, ApiFrame DEF ApiWrites
<1>4. CASE Client
  BY <1>4, ClientFrame, RestsStep DEF Moves, globals, conns, ioVars
<1>5. CASE RegistrationStep
  BY <1>5, RegistrationFrame, RestsStep DEF Registering, Moves, globals, conns, ioVars
<1> QED BY <1>1, <1>2, <1>3, <1>4, <1>5 DEF Next, Callbacks

\* What the counts are in each state of a session.
Books(c) ==
    /\ readies[c] \in Nat /\ notices[c] \in Nat
    /\ rpc[c] = "SentHandshake" => readies[c] = 0
    /\ rpc[c] # "Disconnected" /\ ~InClose(c) => notices[c] = 0
    /\ rpc[c] = "Disconnected" /\ notices[c] = 0 => readies[c] = 0
    /\ InClose(c) => rpc[c] # "Disconnected" /\ notices[c] # 0

Kept ==
    /\ readies \in [Conns -> Nat] /\ notices \in [Conns -> Nat]
    /\ \A c \in Conns : Books(c)

LEMMA CountsOf ==
    ASSUME Count, NEW c \in Conns
    PROVE  /\ Renewed(c) => readies'[c] = 0 /\ notices'[c] = 0
           /\ ~Renewed(c) =>
                /\ readies'[c] = IF ConnectCalled(c) THEN readies[c] + 1 ELSE readies[c]
                /\ notices'[c] = IF DisconnectCalled(c) THEN notices[c] + 1 ELSE notices[c]
BY DEF Count

LEMMA SessionMove ==
    ASSUME TypeOK, Kept, Count, NEW c \in Conns, Moves(c)
    PROVE  Books(c)' /\ [Session(c)!Next]_(Session(c)!vars)
<1>0. Books(c) /\ rpc[c] \in {"Disconnected", "SentHandshake", "Connected"}
  BY DEF Kept, TypeOK, ConnsOK
<1>1. CASE Rests(c)
  <2>1. readies'[c] = readies[c] /\ notices'[c] = notices[c]
    BY <1>1, CountsOf DEF Rests, Uncalled, Renewed
  <2>2. Status(c)' = Status(c)
    BY <1>0, <1>1, <2>1 DEF Rests, Status
  <2> QED BY <1>0, <1>1, <2>1, <2>2 DEF Rests, Books, Session!vars
<1>2. CASE IsMade(c)
  <2>1. readies'[c] = 0 /\ notices'[c] = 0
    BY <1>2, CountsOf DEF IsMade, Renewed
  <2>2. Status(c)' = "none"
    BY <1>2, <2>1 DEF IsMade, Status
  <2> QED BY <1>2, <2>1, <2>2 DEF IsMade, Books, Session!Next, Session!Replace
<1>3. CASE Begins(c)
  <2>1. readies'[c] = 0 /\ notices'[c] = 0
    BY <1>3, CountsOf DEF Begins, Renewed
  <2>2. Status(c) \in {"none", "down"} /\ Status(c)' = "handshaking"
    BY <1>3 DEF Begins, Status
  <2> QED BY <1>3, <2>1, <2>2 DEF Begins, Books, Session!Next, Session!Begin
<1>4. CASE GetsReady(c)
  <2>1. ~DisconnectCalled(c) /\ ~Renewed(c)
    BY <1>4 DEF GetsReady, Renewed, ConnectCalled, DisconnectCalled
  <2>2. readies'[c] = readies[c] + 1 /\ notices'[c] = notices[c]
    BY <1>4, <2>1, CountsOf DEF GetsReady
  <2>3. Status(c) = "handshaking" /\ Status(c)' = "up"
    BY <1>4 DEF GetsReady, Status
  <2> QED BY <1>0, <1>4, <2>2, <2>3 DEF GetsReady, Books, Session!Next, Session!Ready
<1>5. CASE IsLost(c)
  <2>1. ~ConnectCalled(c) /\ ~Renewed(c)
    BY <1>5 DEF IsLost, Renewed, ConnectCalled, DisconnectCalled
  <2>2. readies'[c] = readies[c] /\ notices'[c] = notices[c] + 1
    BY <1>5, <2>1, CountsOf DEF IsLost
  <2>3. Status(c) \in {"handshaking", "up"} /\ Status(c)' = "down"
    BY <1>0, <1>5 DEF IsLost, Status
  <2> QED BY <1>0, <1>5, <2>2, <2>3 DEF IsLost, Books, Session!Next, Session!Drop
<1>6. CASE IsClosed(c)
  <2>1. readies'[c] = readies[c] /\ notices'[c] = notices[c]
    BY <1>6, CountsOf DEF IsClosed, Uncalled, Renewed
  <2>2. notices[c] # 0
    BY <1>0, <1>6 DEF IsClosed, Books
  <2>3. Status(c) = "down" /\ Status(c)' = "down"
    BY <1>6, <2>1, <2>2 DEF IsClosed, Status
  <2> QED BY <1>0, <1>6, <2>1, <2>2, <2>3 DEF IsClosed, Books, Session!vars
<1> QED BY <1>1, <1>2, <1>3, <1>4, <1>5, <1>6 DEF Moves

LEMMA KeptStep ==
    TypeOK /\ RunsOnlyWhenAsked /\ AtWork /\ Kept /\ [CountingNext]_<<vars, counts>>
        => Kept' /\ \A c \in Conns : [Session(c)!Next]_(Session(c)!vars)
<1> SUFFICES ASSUME TypeOK, RunsOnlyWhenAsked, AtWork, Kept, [CountingNext]_<<vars, counts>>
             PROVE  Kept' /\ \A c \in Conns : [Session(c)!Next]_(Session(c)!vars)
  OBVIOUS
<1>1. CASE CountingNext
  <2>1. ASSUME NEW c \in Conns PROVE Books(c)' /\ [Session(c)!Next]_(Session(c)!vars)
    BY <1>1, StepMoves, SessionMove DEF CountingNext
  <2>2. readies' \in [Conns -> Nat] /\ notices' \in [Conns -> Nat]
    BY <1>1 DEF CountingNext, Count, Kept
  <2> QED BY <2>1, <2>2 DEF Kept
<1>2. CASE UNCHANGED <<vars, counts>>
  <2>1. UNCHANGED <<rpc, ioPc, ioCur, readies, notices>>
    BY <1>2 DEF vars, conns, ioVars, counts
  <2>2. Kept'
    BY <2>1 DEF Kept, Books, InClose
  <2>3. ASSUME NEW c \in Conns PROVE UNCHANGED Session(c)!vars
    BY <2>1 DEF Session!vars, Status, InClose
  <2> QED BY <2>2, <2>3
<1> QED BY <1>1, <1>2

LEMMA CountingIsNext == [CountingNext]_<<vars, counts>> => [Next]_vars
BY DEF CountingNext

LEMMA SessionsInit ==
    CountingInit => /\ Init /\ RunsOnlyWhenAsked /\ AtWork /\ Kept
                    /\ \A c \in Conns : Session(c)!Init
<1> SUFFICES ASSUME CountingInit
             PROVE  /\ Init /\ RunsOnlyWhenAsked /\ AtWork /\ Kept
                    /\ \A c \in Conns : Session(c)!Init
  OBVIOUS
<1>1. Init /\ ioPc = "off" /\ opPc = "idle"
  BY DEF CountingInit, Init
<1>2. RunsOnlyWhenAsked
  BY DEF CountingInit, Init, RunsOnlyWhenAsked
<1>3. AtWork
  BY <1>1 DEF AtWork
<1>4. \A c \in Conns : rpc[c] = "Disconnected" /\ readies[c] = 0 /\ notices[c] = 0 /\ ~InClose(c)
  BY <1>1 DEF CountingInit, Init, InClose
<1>5. Kept
  BY <1>4 DEF CountingInit, Kept, Books
<1>6. \A c \in Conns : Session(c)!Init
  BY <1>4 DEF Session!Init, Status
<1> QED BY <1>1, <1>2, <1>3, <1>5, <1>6

\* Seen by Discord_UpdateConnection, each connection is what RpcSession promises and
\* RpcConnection implements: onConnect is called once at most and onDisconnect
\* exactly once in a session that ends, for any number of paths and connections,
\* scans, failures and shutdowns (discord_rpc.cpp:51-62, 302-413,
\* rpc_connection.cpp:61-68).
THEOREM ConnectionsAreSessions == CountingSpec => AreSessions
<1>1. CountingInit => TypeOK
  BY TypeInit, SessionsInit
<1>2. TypeOK /\ [Next]_vars => TypeOK'
  BY SharedStep, ConnsStep, IoTypeStep, AppTypeStep DEF TypeOK
<1>3. TypeOK /\ RunsOnlyWhenAsked /\ AtWork /\ Kept /\ [CountingNext]_<<vars, counts>>
        => [\A c \in Conns : [Session(c)!Next]_(Session(c)!vars)]_<<vars, counts>>
  BY KeptStep
<1> QED
  BY <1>1, <1>2, <1>3, SessionsInit, CountingIsNext, RunsStep, AtWorkStep, KeptStep, PTL
     DEF CountingSpec, AreSessions

-----------------------------------------------------------------------------
(***************************************************************************)
(* Presences for a user.  They reach another user only if the client of a  *)
(* connection gets one: what is set, copied and shown is for the user of   *)
(* the connection, as long as that user stays.                             *)
(***************************************************************************)
\* A connection whose user is known keeps that user until it is made again.
UsersStay == \A c \in Conns : user[c] # NoUser => user'[c] \in {user[c], NoUser}

IsFor(c, p) == p # NoPresence /\ p.to # Anyone => p.to = user[c]

Belongs(c) ==
    /\ IsFor(c, queued[c]) /\ IsFor(c, shown[c])
    /\ ioCur = c /\ ioPc = "write" => IsFor(c, ioLocal)

Belonging ==
    /\ \A c \in Conns : Belongs(c)
    /\ opPc = "presence" => opArg.to = Anyone
    /\ opPc = "store" => IsFor(opCur, opArg)

\* Nothing about c is for a user who is not there.
LEMMA UserIsKnown ==
    ASSUME TypeOK, NEW c \in Conns, NEW p \in QueuedPresences, IsFor(c, p),
           p # NoPresence, p.to # Anyone
    PROVE  user[c] # NoUser
BY ConstantsAssumption DEF IsFor, QueuedPresences, Activities

LEMMA BelongsRefresh ==
    ASSUME TypeOK, Belonging, NEW fresh, Refresh(fresh), ioPc' # "write", NEW c \in Conns
    PROVE  Belongs(c)'
<1>1. Belongs(c)
  BY DEF Belonging
<1>2. CASE c \in fresh
  BY <1>2 DEF Refresh, Belongs, IsFor
<1>3. CASE c \notin fresh
  <2>1. queued'[c] = queued[c] /\ shown'[c] = shown[c] /\ user'[c] = user[c]
    BY <1>3 DEF Refresh
  <2> QED BY <1>1, <2>1 DEF Belongs, IsFor
<1> QED BY <1>2, <1>3

LEMMA BelongsIo ==
    ASSUME TypeOK, Belonging, IoStep, UsersStay, NEW c \in Conns
    PROVE  Belongs(c)'
<1>0. Belongs(c) /\ IoOK
  BY DEF Belonging, TypeOK
<1>1. /\ queued \in [Conns -> QueuedPresences] /\ shown \in [Conns -> QueuedPresences]
      /\ user \in [Conns -> Users \cup {NoUser}]
  BY DEF TypeOK, ConnsOK
<1>2. CASE AnyTick
  <2>1. PICK fresh : Refresh(fresh) /\ ioPc' = "each"
    BY <1>2 DEF AnyTick, Tick
  <2> QED BY <2>1, BelongsRefresh
<1>3. CASE \E u \in Users \cup {NoUser} : ConnectUser(u)
  <2>1. PICK u \in Users \cup {NoUser} : ConnectUser(u)
    BY <1>3
  <2>2. /\ user' = [user EXCEPT ![ioCur] = IF u = NoUser THEN @ ELSE u]
        /\ queued' = queued /\ shown' = shown /\ ioPc' = "each"
    BY <2>1 DEF ConnectUser, clients
  <2>3. user[c] # NoUser => user'[c] = user[c]
    <3>1. user[c] # NoUser => user'[c] # NoUser
      BY <1>1, <2>2
    <3> QED BY <3>1 DEF UsersStay
  <2>4. IsFor(c, queued[c]) /\ IsFor(c, shown[c])
    BY <1>0 DEF Belongs
  <2>5. queued[c] \in QueuedPresences /\ shown[c] \in QueuedPresences
    BY <1>1
  <2>6. IsFor(c, queued[c])' /\ IsFor(c, shown[c])'
    BY <2>2, <2>3, <2>4, <2>5, UserIsKnown DEF IsFor
  <2> QED BY <2>2, <2>6 DEF Belongs
<1>4. CASE CopyPresence
  BY <1>0, <1>4 DEF CopyPresence, Belongs, IsFor, conns, clients
<1>5. CASE WritePresence
  BY <1>0, <1>1, <1>5 DEF WritePresence, Belongs, IsFor, conns
<1>6. CASE \E d \in Conns : OpenGetsReady(d)
  BY <1>0, <1>1, <1>6 DEF OpenGetsReady, Take, Belongs, IsFor
<1>7. CASE UNCHANGED <<queued, shown, user>> /\ (ioPc' = "write" => UNCHANGED ioVars)
  BY <1>0, <1>7 DEF Belongs, IsFor, ioVars
<1>8. CASE \/ \E d \in Conns : OpenLater(d) \/ OpenSendsHandshake(d) \/ OpenLosesHandshake(d)
                               \/ StartReading(d) \/ SendMessage(d) \/ SendFails(d) \/ SkipClosed(d)
           \/ ConnectLocks \/ ConnectHandlers \/ ConnectPresence \/ Closed
           \/ (\E s \in Incoming : ReadSignal(s)) \/ ReadRequest \/ ReadNothing \/ ReadFails
           \/ TakeUpdate \/ WritePresenceFails \/ Requeue \/ TakeMessage \/ EndTick
  <2>1. UNCHANGED <<queued, shown, user>>
    BY <1>8
       DEF OpenLater, OpenSendsHandshake, OpenLosesHandshake, StartReading, SendMessage, SendFails,
           SkipClosed, ConnectLocks, ConnectHandlers, ConnectPresence, Closed, ReadSignal, ReadRequest,
           ReadNothing, ReadFails, TakeUpdate, WritePresenceFails, Requeue, TakeMessage, EndTick,
           conns, clients
  <2>2. ioPc' = "write" => UNCHANGED ioVars
    BY <1>0, <1>8
       DEF OpenLater, OpenSendsHandshake, OpenLosesHandshake, StartReading, SendMessage, SendFails,
           SkipClosed, ConnectLocks, ConnectHandlers, ConnectPresence, Closed, ReadSignal, ReadRequest,
           ReadNothing, ReadFails, TakeUpdate, WritePresenceFails, Requeue, TakeMessage, EndTick,
           Take, Addressed, AllServed, Lose, IoOK
  <2> QED BY <1>7, <2>1, <2>2
<1> QED BY <1>2, <1>3, <1>4, <1>5, <1>6, <1>8 DEF IoStep, AnyTick

\* Nor is the presence about to be stored: its connection is in a snapshot of the
\* application, so that no scan makes it again.
LEMMA StoreIo ==
    ASSUME TypeOK, Belonging, IoStep, UsersStay, opPc = "store"
    PROVE  IsFor(opCur, opArg)'
<1>0. /\ opCur \in Conns /\ opCur \in opTodo /\ opArg \in QueuedPresences
      /\ IsFor(opCur, opArg) /\ UNCHANGED <<opCur, opArg>>
      /\ user \in [Conns -> Users \cup {NoUser}]
  BY IoFrame DEF TypeOK, AppOK, ConnsOK, Belonging, QueuedPresences, opVars
<1>1. CASE AnyTick
  <2>1. PICK paths \in {present, cachedPaths} : Tick(paths)
    BY <1>1 DEF AnyTick
  <2> DEFINE missing == paths \ {PathOf(c) : c \in connections}
             new == {CHOOSE c \in FreeSlots(p) : TRUE : p \in missing}
             gone == {c \in connections : Expired(c, paths)}
  <2>2. (\A p \in missing : FreeSlots(p) # {}) /\ Refresh(new \cup (gone \ Held))
    BY <2>1 DEF Tick
  <2>3. \A c \in new : c \notin Held
    BY <2>2, TickAdds
  <2> HIDE DEF new, gone
  <2>4. opCur \notin new \cup (gone \ Held)
    BY <1>0, <2>3 DEF Held
  <2>5. user'[opCur] = user[opCur]
    BY <1>0, <2>2, <2>4 DEF Refresh
  <2> QED BY <1>0, <2>5 DEF IsFor
<1>2. CASE \E u \in Users \cup {NoUser} : ConnectUser(u)
  <2>1. user[opCur] # NoUser => user'[opCur] = user[opCur]
    <3>1. PICK u \in Users \cup {NoUser} : user' = [user EXCEPT ![ioCur] = IF u = NoUser THEN @ ELSE u]
      BY <1>2 DEF ConnectUser
    <3>2. user[opCur] # NoUser => user'[opCur] # NoUser
      BY <1>0, <3>1
    <3> QED BY <1>0, <3>2 DEF UsersStay
  <2> QED BY <1>0, <2>1, UserIsKnown DEF IsFor
<1>3. CASE UNCHANGED user
  BY <1>0, <1>3 DEF IsFor
<1> QED
  BY <1>1, <1>2, <1>3
     DEF IoStep, OpenLater, OpenSendsHandshake, OpenGetsReady, OpenLosesHandshake, StartReading,
         SendMessage, SendFails, SkipClosed, ConnectLocks, ConnectHandlers, ConnectPresence, Closed,
         ReadSignal, ReadRequest, ReadNothing, ReadFails, TakeUpdate, CopyPresence, WritePresence,
         WritePresenceFails, Requeue, TakeMessage, EndTick, conns

LEMMA BelongingStep ==
    TypeOK /\ RunsOnlyWhenAsked /\ Belonging /\ [Next]_vars /\ [UsersStay]_vars => Belonging'
<1> SUFFICES ASSUME TypeOK, RunsOnlyWhenAsked, Belonging, [Next]_vars, [UsersStay]_vars
             PROVE  Belonging'
  OBVIOUS
<1>1. CASE Callbacks
  BY <1>1, CallbacksFrame
     DEF IoUnchanged, Belonging, Belongs, IsFor, ioVars, opVars, clients
<1>2. CASE IoStep
  <2>1. UNCHANGED <<opPc, opArg>>
    BY <1>2, IoFrame DEF opVars
  <2>2. CASE UsersStay
    <3>1. \A c \in Conns : Belongs(c)'
      BY <1>2, <2>2, BelongsIo
    <3>2. opPc = "store" => IsFor(opCur, opArg)'
      BY <1>2, <2>2, StoreIo
    <3> QED BY <2>1, <3>1, <3>2 DEF Belonging
  <2>3. CASE UNCHANGED vars
    BY <2>3 DEF Belonging, Belongs, IsFor, vars, conns, clients, ioVars, opVars
  <2> QED BY <2>2, <2>3
<1>3. CASE ApiCall \/ ApiStep
  <2>1. opPc' = "presence" => opArg'.to = Anyone
    BY <1>3
       DEF Belonging, ApiCall, UpdatePresence, UpdatePresenceForUser, Respond, UpdateHandlers,
           ClearHandlers, Initialize, Shutdown, ApiStep, FindUser, SetPresence, SetPresenceForUser,
           Store, PassOver, PresenceSet, RespondReserves, RespondCommits, UpdateHandlersLocked,
           HandlersUpdated, InitializeLocked, ShutdownJoined, End, Begin, opVars
  <2>8. opPc' = "store" => IsFor(opCur, opArg)'
    <3>1. CASE \E d \in Conns : FindUser(d)
      BY <3>1 DEF FindUser, Matches, ConnsUnchanged, conns, IsFor
    <3>2. CASE ~\E d \in Conns : FindUser(d)
      <4>1. opPc' # "store"
        BY <1>3, <3>2
           DEF ApiCall, UpdatePresence, UpdatePresenceForUser, Respond, UpdateHandlers,
               ClearHandlers, Initialize, Shutdown, MayCall, ApiStep, SetPresence, SetPresenceForUser,
               PassOver, PresenceSet, RespondReserves, RespondCommits, UpdateHandlersLocked,
               HandlersUpdated, InitializeLocked, ShutdownJoined, End, Begin, opVars, Store
      <4> QED BY <4>1
    <3> QED BY <3>1, <3>2
  <2>2. SUFFICES ASSUME NEW c \in Conns PROVE Belongs(c)'
    BY <2>1, <2>8 DEF Belonging
  <2>3. Belongs(c) /\ queued \in [Conns -> QueuedPresences]
    BY DEF Belonging, TypeOK, ConnsOK
  <2>4. CASE (\E d \in Conns : SetPresence(d)) \/ SetPresenceForUser
    <3>1. PICK d : Store(d) /\ IsFor(d, opArg)
      BY <2>4 DEF SetPresence, SetPresenceForUser, Belonging, IsFor
    <3>2. queued' = [queued EXCEPT ![d] = opArg] /\ UNCHANGED <<shown, user, ioVars>>
      BY <3>1 DEF Store, clients
    <3> QED BY <2>3, <3>1, <3>2 DEF Belongs, IsFor, ioVars
  <2>5. CASE InitializeLocked
    BY <2>3, <2>5 DEF InitializeLocked, ConnsUnchanged, Belongs, IsFor, conns, clients
  <2>6. CASE ShutdownJoined
    <3>1. ioPc' \in {"off", "tick", "done"}
      BY <2>6, ConstantsAssumption DEF ShutdownJoined, Joined, RunsOnlyWhenAsked, AppIdle, ioVars
    <3> QED BY <2>6, <3>1, BelongsRefresh DEF ShutdownJoined
  <2>7. CASE ConnsUnchanged /\ UNCHANGED ioVars
    BY <2>3, <2>7 DEF ConnsUnchanged, Belongs, IsFor, conns, clients, ioVars
  <2> QED BY <1>3, <2>4, <2>5, <2>6, <2>7, ApiFrame DEF ApiWrites
<1>4. CASE Client
  BY <1>4, ClientFrame DEF Belonging, Belongs, IsFor, conns, ioVars, opVars
<1>5. CASE UNCHANGED vars
  BY <1>5 DEF Belonging, Belongs, IsFor, vars, conns, clients, ioVars, opVars
<1>6. CASE RegistrationStep
  BY <1>6, RegistrationFrame DEF Registering, Belonging, Belongs, IsFor, conns, clients, ioVars, opVars
<1> QED BY <1>1, <1>2, <1>3, <1>4, <1>5, <1>6 DEF Next, Callbacks

\* A presence for a user is shown by that user's client only, if the clients behind
\* a connection do not change their user: that a presence is kept with the
\* connection, sent again by onConnect, and matched before it is stored, is then
\* safe, whoever else connects (discord_rpc.h:125-128, discord_rpc.cpp:208-211,
\* 524-532).
THEOREM PresencesReachTheirUsers == Spec /\ [][UsersStay]_vars => []ShownToAddressee
<1>1. Init => RunsOnlyWhenAsked /\ Belonging
  BY DEF Init, RunsOnlyWhenAsked, Belonging, Belongs, IsFor
<1>2. Belonging => ShownToAddressee
  BY DEF Belonging, Belongs, IsFor, ShownToAddressee
<1> QED BY <1>1, <1>2, TypeCorrect, RunsStep, BelongingStep, PTL DEF Spec
=============================================================================
