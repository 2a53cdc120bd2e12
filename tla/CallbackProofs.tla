--------------------------- MODULE CallbackProofs ---------------------------
(***************************************************************************)
(* What the callbacks tell the application, in a build without an IO       *)
(* thread: the sequence of ready and disconnected ends where the           *)
(* connections are, and the other signals come between the two.            *)
(***************************************************************************)
EXTENDS DiscordRpcProofs

Bookends == {"ready", "disconnected"}

\* The promise is made to an application that listens to both ends, does not
\* take its handlers away, and has clients that stay on their paths; where one
\* of these is missing the runs show how it breaks.
Listening ==
    /\ ~Threaded
    /\ Vanishing = {}
    /\ \A set \in HandlerSets : Bookends \subseteq set
    /\ "ClearHandlers" \notin Calls \cup CallbackCalls

-----------------------------------------------------------------------------
(***************************************************************************)
(* The invariant.                                                          *)
(***************************************************************************)
\* Every scan finds every path, so that no connection is ever removed.
PathsKnown == present = Paths /\ (scanned => cachedPaths = Paths)

\* The steps of a tick, and those at one connection.
InTick == ioPc \notin {"off", "tick", "done"}
Opening(c) == ioCur = c /\ ioPc \in {"handlers", "greet", "user"}
Closing(c) == ioCur = c /\ ioPc = "closing"

Up(c) == rpc[c] = "Connected"

\* A tick works on the connections there are, one for each path.
TickIsLocal ==
    /\ \A c, d \in connections : PathOf(c) = PathOf(d) => c = d
    /\ InTick => initialized /\ ioSnap = connections /\ ioTodo \subseteq connections
    /\ InTick /\ ioPc \notin {"each", "send"} => ioCur \in connections
    /\ ioPc \in {"handlers", "greet", "user", "read"} => Up(ioCur)

\* What RunCallbacks is at, or returns to from a handler.
Phase == IF rcPc = "callback" THEN rcBack ELSE rcPc
Afterwards == {"errored", "joinGame", "spectateGame", "joinRequest"}

\* It works on the connections there are, unless a handler shuts the library
\* down, which takes the handlers away.
SnapshotIsCurrent ==
    /\ rcPc = "callback" => rcBack \in {"first", "ready", "last"} \cup Afterwards
    /\ rcPc # "idle" =>
         /\ ioPc = "tick"
         /\ connections = rcSnap \/ (connections = {} /\ handlers = {})
    /\ rcTodo \subseteq rcSnap /\ rcWas \subseteq rcSnap
    /\ rcPc = "idle" => rcWas = {} /\ rcOpen = {}
    /\ rcPc \notin {"idle", "callback"} => opPc = "idle"

Ready(c) == told[PathOf(c)] = "ready"

\* There are handlers wherever there is something to tell, and no callback runs
\* while they are updated.
HandlersAreSet ==
    /\ updater # "nobody" => rcPc # "callback"
    /\ opPc \in {"lock", "lockInit"} => Bookends \subseteq opArg
    /\ opPc = "lockInit" => connections = {}
    /\ opPc = "join" => handlers = {}
    /\ initialized /\ opPc # "lockInit" => Bookends \subseteq queuedHandlers
    /\ handlers = {} \/ Bookends \subseteq handlers
    /\ ioPc \in {"greet", "user"} => handlers # {}
    /\ opPc # "join" => \A c \in connections : justConn[c] \/ Ready(c) => handlers # {}

\* Nobody is believed ready on a path without a connection.
OnlyConnections ==
    \A p \in Paths : told[p] = "ready" => \E c \in connections : PathOf(c) = p

\* How a connection, the news of its beginning and of its end that are still to
\* be told, and what has been told fit together.
Agrees(begun, ended, up, ready) ==
    /\ ~begun /\ ~ended => (up <=> ready)
    /\ ended /\ ~begun => ~up
    /\ begun /\ ~ended => up

\* Between two calls of RunCallbacks the news are the two flags.
AtRest(c) ==
    /\ Opening(c) => Up(c)
    /\ Closing(c) => justDisc[c]
    /\ ~Opening(c) /\ ~Closing(c) => Agrees(justConn[c], justDisc[c], Up(c), Ready(c))

\* RunCallbacks takes the end of it first,
TookEnd(c) == ~justDisc[c] /\ Agrees(justConn[c], c \in rcWas, Up(c), Ready(c))
Collected(c) == TookEnd(c) /\ (c \in rcOpen <=> Up(c))
\* tells the beginning,
Announced(c) ==
    /\ ~justConn[c] /\ ~justDisc[c]
    /\ c \in rcOpen <=> Up(c)
    /\ Up(c) => Ready(c)
    /\ Ready(c) => Up(c) \/ c \in rcWas
\* and the end of those it found closed.
Dismissed(c) ==
    /\ ~justConn[c] /\ ~justDisc[c]
    /\ Up(c) => Ready(c)
    /\ Ready(c) => Up(c) \/ c \in rcTodo
    /\ c \in rcTodo => ~Up(c)

Tale(c) ==
    /\ Phase = "idle" => AtRest(c)
    /\ Phase = "flags" =>
         \/ c \in rcTodo /\ c \notin rcWas \cup rcOpen
              /\ Agrees(justConn[c], justDisc[c], Up(c), Ready(c))
         \/ c \notin rcTodo /\ Collected(c)
    /\ Phase = "isOpen" =>
         \/ c \in rcTodo /\ c # rcCur /\ c \notin rcWas \cup rcOpen
              /\ Agrees(justConn[c], justDisc[c], Up(c), Ready(c))
         \/ c \in rcTodo /\ c = rcCur /\ c \notin rcOpen /\ TookEnd(c)
         \/ c \notin rcTodo /\ c # rcCur /\ Collected(c)
    /\ Phase = "first" => Collected(c) /\ (c \in rcTodo => c \in rcWas \cap rcOpen)
    /\ Phase = "ready" => IF c \in rcTodo THEN Collected(c) ELSE Announced(c)
    /\ Phase \in Afterwards => rcTodo = {} /\ Announced(c)
    /\ Phase = "last" => Dismissed(c)

Tales == \A c \in connections : Tale(c)

Coherent ==
    /\ PathsKnown
    /\ TickIsLocal
    /\ SnapshotIsCurrent
    /\ HandlersAreSet
    /\ OnlyConnections
    /\ Tales

-----------------------------------------------------------------------------
(***************************************************************************)
(* A step of Discord_RunCallbacks.                                         *)
(***************************************************************************)
LEMMA PathType == \A c \in Conns : PathOf(c) \in Paths
BY DEF Conns, PathOf

\* What every step of it finds and leaves alone.
LEMMA CallbackFacts ==
    ASSUME TypeOK, Coherent, Callbacks
    PROVE  /\ UNCHANGED <<initialized, connections, cachedPaths, scanned, handlers,
                          queuedHandlers, updater, rpc, present, ioPc, ioSnap, ioTodo, ioCur,
                          opPc, opArg>>
           /\ connections \subseteq Conns /\ rcSnap \subseteq Conns
           /\ justConn \in [Conns -> BOOLEAN] /\ justDisc \in [Conns -> BOOLEAN]
           /\ told \in [Paths -> {"nothing", "ready", "disconnected"}]
BY CallbacksFrame DEF IoUnchanged, globals, handling, registration, ioVars, opVars, clients, TypeOK, SharedOK,
                      ConnsOK, AppOK

\* A callback begins when nobody holds HandlerMutex.
LEMMA CallbackLocks ==
    ASSUME Coherent, Callbacks
    PROVE  rcPc' = "callback" => updater = "nobody"
BY DEF Callbacks, RcStep, CallRunCallbacks, CallbackReturns, TakeDisconnected, TellDisconnected,
       TellReady, NotReady, LookIsOpen, EndFlags, EndFirst, EndReady, TellSignal, TellRequest,
       EndRequests, Return, Go, Tell, Fire, HandlerMutexFree, After, Signals, Coherent,
       SnapshotIsCurrent, Afterwards

\* A disconnected or ready that is told changes what is believed of its own
\* connection only.
LEMMA TellFacts ==
    ASSUME TypeOK, Coherent, NEW d \in rcTodo, NEW what \in Bookends, Tell(d, what),
           Callbacks, rcPc # "idle", connections # {}
    PROVE  /\ d \in connections
           /\ \A c \in connections : c # d => Ready(c)' = Ready(c)
           /\ what \in handlers => Ready(d)' = (what = "ready")
           /\ handlers # {} => what \in handlers
           /\ what \notin handlers => told' = told
           /\ Phase' = Phase \/ rcPc = "callback"
           /\ rcTodo' = rcTodo \ {d} /\ UNCHANGED <<justDisc, rcSnap, rcCur, rcWas, rcOpen>>
<1> USE CallbackFacts
<1>1. d \in connections
  BY DEF Coherent, SnapshotIsCurrent
<1>2. told' = IF what \in handlers THEN [told EXCEPT ![PathOf(d)] = what] ELSE told
  BY DEF Tell
<1>3. ASSUME NEW c \in connections, c # d PROVE Ready(c)' = Ready(c)
  <2>1. PathOf(c) # PathOf(d)
    BY <1>1, <1>3 DEF Coherent, TickIsLocal
  <2> QED BY <1>2, <2>1 DEF Ready
<1>4. PathOf(d) \in Paths
  BY <1>1, PathType
<1>5. what \in handlers => Ready(d)' = (what = "ready")
  BY <1>2, <1>4 DEF Ready
<1>6. handlers # {} => what \in handlers
  BY DEF Coherent, HandlersAreSet
<1>7. Phase' = Phase \/ rcPc = "callback"
  BY DEF Tell, Fire, Phase
<1> QED BY <1>1, <1>2, <1>3, <1>5, <1>6, <1>7 DEF Tell

\* One case per step; c is any connection, d the one the step is at.
LEMMA CallbackTales ==
    ASSUME Listening, TypeOK, Coherent, Callbacks
    PROVE  Tales'
<1> SUFFICES ASSUME NEW c \in connections PROVE Tale(c)'
  BY CallbackFacts DEF Tales
<1>0. /\ Tale(c) /\ c \in Conns /\ connections # {}
      /\ rcPc # "idle" => c \in rcSnap
      /\ Up(c)' = Up(c) /\ UNCHANGED <<connections, ioPc, ioCur>>
      /\ rcTodo \subseteq Conns /\ rcWas \subseteq Conns
      /\ justConn \in [Conns -> BOOLEAN] /\ justDisc \in [Conns -> BOOLEAN]
  BY CallbackFacts DEF Coherent, Tales, SnapshotIsCurrent, Up, TypeOK, AppOK
<1>1. CASE CallRunCallbacks
  <2>1. /\ rcPc = "idle" /\ rcPc' = "flags" /\ rcTodo' = connections /\ ioPc = "tick"
        /\ UNCHANGED <<justConn, justDisc, rcWas, rcOpen, told>>
    BY <1>1 DEF CallRunCallbacks, AppIdle, Listening
  <2>2. rcWas = {} /\ rcOpen = {}
    BY <2>1 DEF Coherent, SnapshotIsCurrent
  <2>3. Agrees(justConn[c], justDisc[c], Up(c), Ready(c))
    BY <1>0, <2>1 DEF Tale, Phase, AtRest, Opening, Closing
  <2>4. Ready(c)' = Ready(c)
    BY <2>1 DEF Ready
  <2> QED BY <1>0, <2>1, <2>2, <2>3, <2>4 DEF Tale, Phase, Agrees, Afterwards
<1>2. ASSUME NEW d \in Conns, TakeDisconnected(d) PROVE Tale(c)'
  <2>1. /\ rcPc = "flags" /\ rcPc' = "isOpen" /\ d \in rcTodo /\ rcCur' = d
        /\ rcWas' = (IF justDisc[d] THEN rcWas \cup {d} ELSE rcWas)
        /\ justDisc' = [justDisc EXCEPT ![d] = FALSE]
        /\ UNCHANGED <<justConn, rcTodo, rcOpen, told>>
    BY <1>2 DEF TakeDisconnected
  <2>2. Ready(c)' = Ready(c)
    BY <2>1 DEF Ready
  <2>3. CASE c = d
    <3>1. c \in rcTodo /\ c \notin rcWas \cup rcOpen /\ Agrees(justConn[c], justDisc[c], Up(c), Ready(c))
      BY <1>0, <2>1, <2>3 DEF Tale, Phase
    <3>2. justDisc'[c] = FALSE /\ (c \in rcWas') = justDisc[c]
      BY <1>0, <2>1, <2>3, <3>1
    <3>3. TookEnd(c)'
      BY <1>0, <2>1, <2>2, <3>1, <3>2 DEF TookEnd, Agrees
    <3> QED BY <2>1, <2>3, <3>1, <3>3 DEF Tale, Phase, Afterwards
  <2>4. CASE c # d
    <3>1. justDisc'[c] = justDisc[c] /\ (c \in rcWas' <=> c \in rcWas)
      BY <1>0, <2>1, <2>4
    <3>2. CASE c \in rcTodo
      <4>1. c \notin rcWas \cup rcOpen /\ Agrees(justConn[c], justDisc[c], Up(c), Ready(c))
        BY <1>0, <2>1, <3>2 DEF Tale, Phase
      <4> QED BY <1>0, <2>1, <2>2, <2>4, <3>1, <3>2, <4>1 DEF Tale, Phase, Agrees, Afterwards
    <3>3. CASE c \notin rcTodo
      <4>1. Collected(c)
        BY <1>0, <2>1, <3>3 DEF Tale, Phase
      <4>2. Collected(c)'
        BY <1>0, <2>1, <2>2, <3>1, <4>1 DEF Collected, TookEnd, Agrees
      <4> QED BY <2>1, <2>4, <3>3, <4>2 DEF Tale, Phase, Afterwards
    <3> QED BY <3>2, <3>3
  <2> QED BY <2>3, <2>4
<1>3. CASE LookIsOpen
  <2>1. /\ rcPc = "isOpen" /\ rcPc' = "flags"
        /\ rcOpen' = (IF rpc[rcCur] = "Connected" THEN rcOpen \cup {rcCur} ELSE rcOpen)
        /\ rcTodo' = rcTodo \ {rcCur}
        /\ UNCHANGED <<justConn, justDisc, rcWas, told>>
    BY <1>3 DEF LookIsOpen
  <2>2. Ready(c)' = Ready(c)
    BY <2>1 DEF Ready
  <2>3. CASE c = rcCur
    <3>1. c \notin rcOpen /\ TookEnd(c)
      BY <1>0, <2>1, <2>3 DEF Tale, Phase
    <3>2. c \in rcOpen' <=> Up(c)
      BY <2>1, <2>3, <3>1 DEF Up
    <3>3. Collected(c)'
      BY <1>0, <2>1, <2>2, <3>1, <3>2 DEF Collected, TookEnd, Agrees
    <3> QED BY <2>1, <2>3, <3>3 DEF Tale, Phase, Afterwards
  <2>4. CASE c # rcCur
    <3>1. c \in rcOpen' <=> c \in rcOpen
      BY <2>1, <2>4
    <3>2. CASE c \in rcTodo
      <4>1. c \notin rcWas \cup rcOpen /\ Agrees(justConn[c], justDisc[c], Up(c), Ready(c))
        BY <1>0, <2>1, <2>4, <3>2 DEF Tale, Phase
      <4> QED BY <1>0, <2>1, <2>2, <2>4, <3>1, <3>2, <4>1 DEF Tale, Phase, Agrees, Afterwards
    <3>3. CASE c \notin rcTodo
      <4>1. Collected(c)
        BY <1>0, <2>1, <3>3 DEF Tale, Phase
      <4>2. Collected(c)'
        BY <1>0, <2>1, <2>2, <3>1, <4>1 DEF Collected, TookEnd, Agrees
      <4> QED BY <2>1, <2>4, <3>3, <4>2 DEF Tale, Phase, Afterwards
    <3> QED BY <3>2, <3>3
  <2> QED BY <2>3, <2>4
<1>4. CASE EndFlags
  <2>1. /\ rcPc = "flags" /\ rcPc' = "first" /\ rcTodo = {} /\ rcTodo' = rcWas \cap rcOpen
        /\ UNCHANGED <<justConn, justDisc, rcWas, rcOpen, told>>
    BY <1>4 DEF EndFlags, Go, ToldFirst
  <2>2. Collected(c)
    BY <1>0, <2>1 DEF Tale, Phase
  <2>3. Collected(c)'
    BY <1>0, <2>1, <2>2 DEF Collected, TookEnd, Agrees, Ready
  <2> QED BY <2>1, <2>3 DEF Tale, Phase, Afterwards
<1>5. CASE EndFirst
  <2>1. /\ rcPc = "first" /\ rcPc' = "ready" /\ rcTodo' = rcSnap
        /\ UNCHANGED <<justConn, justDisc, rcWas, rcOpen, told>>
    BY <1>5 DEF EndFirst, Go
  <2>2. Collected(c)
    BY <1>0, <2>1 DEF Tale, Phase
  <2>3. Collected(c)'
    BY <1>0, <2>1, <2>2 DEF Collected, TookEnd, Agrees, Ready
  <2> QED BY <1>0, <2>1, <2>3 DEF Tale, Phase, Afterwards
<1>6. CASE EndReady
  <2>1. /\ rcPc = "ready" /\ rcPc' = "errored" /\ rcTodo = {} /\ rcTodo' = {}
        /\ UNCHANGED <<justConn, justDisc, rcWas, rcOpen, told>>
    BY <1>6 DEF EndReady, Go
  <2>2. Announced(c)
    BY <1>0, <2>1 DEF Tale, Phase
  <2>3. Announced(c)'
    BY <1>0, <2>1, <2>2 DEF Announced, Ready
  <2> QED BY <2>1, <2>3 DEF Tale, Phase, Afterwards
<1>7. CASE (\E s \in Signals : TellSignal(s)) \/ TellRequest
  <2>1. /\ rcPc \in Afterwards /\ Phase' \in Afterwards
        /\ UNCHANGED <<justConn, justDisc, rcTodo, rcWas, rcOpen, told>>
    BY <1>7 DEF TellSignal, TellRequest, Fire, After, Signals, Afterwards, Phase
  <2>2. rcTodo = {} /\ Announced(c)
    BY <1>0, <2>1 DEF Tale, Phase, Afterwards
  <2>3. Announced(c)'
    BY <1>0, <2>1, <2>2 DEF Announced, Ready
  <2> QED BY <2>1, <2>2, <2>3 DEF Tale, Afterwards
<1>8. CASE EndRequests
  <2>1. /\ rcPc = "joinRequest" /\ rcPc' = "last" /\ rcTodo' = rcWas \ (rcWas \cap rcOpen)
        /\ UNCHANGED <<justConn, justDisc, rcWas, rcOpen, told>>
    BY <1>8 DEF EndRequests, Go, ToldFirst
  <2>2. Announced(c)
    BY <1>0, <2>1 DEF Tale, Phase, Afterwards
  <2>3. Dismissed(c)'
    BY <1>0, <2>1, <2>2 DEF Announced, Dismissed, Ready
  <2> QED BY <2>1, <2>3 DEF Tale, Phase, Afterwards
<1>9. CASE Return
  <2>1. /\ rcPc = "last" /\ rcPc' = "idle" /\ rcTodo = {} /\ ioPc = "tick"
        /\ UNCHANGED <<justConn, justDisc, told>>
    BY <1>9 DEF Return, Coherent, SnapshotIsCurrent
  <2>2. Dismissed(c)
    BY <1>0, <2>1 DEF Tale, Phase
  <2>3. AtRest(c)'
    BY <1>0, <2>1, <2>2 DEF Dismissed, AtRest, Agrees, Opening, Closing, Ready
  <2> QED BY <2>1, <2>3 DEF Tale, Phase, Afterwards
<1>10. ASSUME NEW d \in Conns, TellDisconnected(d) PROVE Tale(c)'
  <2>1. /\ rcPc \in {"first", "last"} /\ d \in rcTodo /\ Tell(d, "disconnected")
        /\ UNCHANGED justConn /\ "disconnected" \in Bookends
    BY <1>10 DEF TellDisconnected, Bookends
  <2>2. /\ c # d => Ready(c)' = Ready(c)
        /\ c = d /\ handlers # {} => ~Ready(c)'
        /\ handlers = {} => Ready(c)' = Ready(c)
        /\ Phase' = rcPc
        /\ rcTodo' = rcTodo \ {d} /\ UNCHANGED <<justDisc, rcSnap, rcCur, rcWas, rcOpen>>
    BY <1>0, <2>1, TellFacts DEF Phase, Ready, Bookends
  <2>3. CASE rcPc = "first"
    <3>1. Collected(c) /\ (c \in rcTodo => c \in rcWas \cap rcOpen)
      BY <1>0, <2>3 DEF Tale, Phase
    <3>2. Collected(c)'
      BY <1>0, <2>1, <2>2, <3>1 DEF Collected, TookEnd, Agrees
    <3> QED BY <2>2, <2>3, <3>1, <3>2 DEF Tale, Afterwards
  <2>4. CASE rcPc = "last"
    <3>1. Dismissed(c)
      BY <1>0, <2>4 DEF Tale, Phase
    <3>2. Ready(c) => handlers # {}
      BY <2>4 DEF Coherent, HandlersAreSet, SnapshotIsCurrent
    <3>3. Dismissed(c)'
      BY <1>0, <2>1, <2>2, <3>1, <3>2 DEF Dismissed
    <3> QED BY <2>2, <2>4, <3>3 DEF Tale, Afterwards
  <2> QED BY <2>1, <2>3, <2>4
<1>11. ASSUME NEW d \in Conns, TellReady(d) PROVE Tale(c)'
  <2>1. /\ rcPc = "ready" /\ d \in rcTodo /\ Tell(d, "ready") /\ justConn[d]
        /\ justConn' = [justConn EXCEPT ![d] = FALSE] /\ "ready" \in Bookends
    BY <1>11 DEF TellReady, Bookends
  <2>2. d \in connections
    BY <1>0, <2>1 DEF Coherent, SnapshotIsCurrent
  <2>3. handlers # {}
    BY <2>1, <2>2 DEF Coherent, HandlersAreSet, SnapshotIsCurrent
  <2>4. /\ c # d => Ready(c)' = Ready(c)
        /\ c = d => Ready(c)'
        /\ Phase' = "ready"
        /\ rcTodo' = rcTodo \ {d} /\ UNCHANGED <<justDisc, rcSnap, rcCur, rcWas, rcOpen>>
    BY <1>0, <2>1, <2>3, TellFacts DEF Phase, Bookends
  <2>5. CASE c = d
    <3>1. Collected(c)
      BY <1>0, <2>1, <2>5 DEF Tale, Phase
    <3>2. Announced(c)'
      BY <1>0, <2>1, <2>4, <2>5, <3>1 DEF Collected, TookEnd, Agrees, Announced
    <3> QED BY <2>4, <2>5, <3>2 DEF Tale, Afterwards
  <2>6. CASE c # d
    <3>1. justConn'[c] = justConn[c]
      BY <1>0, <2>1, <2>6
    <3>2. IF c \in rcTodo THEN Collected(c) ELSE Announced(c)
      BY <1>0, <2>1 DEF Tale, Phase
    <3>3. IF c \in rcTodo' THEN Collected(c)' ELSE Announced(c)'
      BY <1>0, <2>4, <2>6, <3>1, <3>2 DEF Collected, TookEnd, Agrees, Announced
    <3> QED BY <2>4, <3>3 DEF Tale, Afterwards
  <2> QED BY <2>5, <2>6
<1>12. ASSUME NEW d \in Conns, NotReady(d) PROVE Tale(c)'
  <2>1. /\ rcPc = "ready" /\ rcPc' = "ready" /\ d \in rcTodo /\ ~justConn[d]
        /\ rcTodo' = rcTodo \ {d}
        /\ UNCHANGED <<justConn, justDisc, rcWas, rcOpen, told>>
    BY <1>12 DEF NotReady
  <2>2. IF c \in rcTodo THEN Collected(c) ELSE Announced(c)
    BY <1>0, <2>1 DEF Tale, Phase
  <2>3. Ready(c)' = Ready(c)
    BY <2>1 DEF Ready
  <2>4. IF c \in rcTodo' THEN Collected(c)' ELSE Announced(c)'
    BY <1>0, <2>1, <2>2, <2>3 DEF Collected, TookEnd, Agrees, Announced
  <2> QED BY <2>1, <2>4 DEF Tale, Phase, Afterwards
<1>13. CASE CallbackReturns
  <2>1. /\ rcPc = "callback" /\ rcPc' = rcBack
        /\ UNCHANGED <<justConn, justDisc, rcTodo, rcCur, rcWas, rcOpen, told>>
    BY <1>13 DEF CallbackReturns
  <2>2. Phase' = Phase /\ Phase \in {"first", "ready", "last"} \cup Afterwards
    BY <2>1 DEF Phase, Coherent, SnapshotIsCurrent, Afterwards
  <2>3. Ready(c)' = Ready(c)
    BY <2>1 DEF Ready
  <2>4. /\ Collected(c)' = Collected(c)
        /\ Announced(c)' = Announced(c)
        /\ Dismissed(c)' = Dismissed(c)
    BY <1>0, <2>1, <2>3 DEF Collected, TookEnd, Announced, Dismissed, Agrees
  <2> QED BY <1>0, <2>1, <2>2, <2>4 DEF Tale, Afterwards
<1> QED
  BY <1>1, <1>2, <1>3, <1>4, <1>5, <1>6, <1>7, <1>8, <1>9, <1>10, <1>11, <1>12, <1>13
     DEF Callbacks, RcStep

LEMMA CallbackStep ==
    ASSUME Listening, TypeOK, Coherent, Callbacks
    PROVE  Coherent'
<1> USE CallbackFacts
<1>0. PathsKnown /\ TickIsLocal /\ SnapshotIsCurrent /\ HandlersAreSet /\ OnlyConnections
  BY DEF Coherent
<1>1. PathsKnown' /\ TickIsLocal'
  BY <1>0 DEF PathsKnown, TickIsLocal, InTick, Up
<1>2. SnapshotIsCurrent'
  <2>1. CASE CallRunCallbacks
    BY <1>0, <2>1 DEF CallRunCallbacks, SnapshotIsCurrent, AppIdle, Listening
  <2>2. CASE \E d \in Conns : TakeDisconnected(d) \/ NotReady(d)
    BY <1>0, <2>2 DEF TakeDisconnected, NotReady, SnapshotIsCurrent
  <2>3. CASE LookIsOpen \/ Return
    BY <1>0, <2>3 DEF LookIsOpen, Return, SnapshotIsCurrent
  <2>4. CASE EndFlags \/ EndFirst \/ EndReady \/ EndRequests
    BY <1>0, <2>4 DEF EndFlags, EndFirst, EndReady, EndRequests, Go, ToldFirst, SnapshotIsCurrent
  <2>5. CASE \E d \in Conns : TellDisconnected(d) \/ TellReady(d)
    BY <1>0, <2>5 DEF TellDisconnected, TellReady, Tell, Fire, SnapshotIsCurrent
  <2>6. CASE (\E s \in Signals : TellSignal(s)) \/ TellRequest
    <3>1. /\ rcPc \in Afterwards /\ rcPc' \in Afterwards \cup {"callback"}
          /\ rcPc' = "callback" => rcBack' \in Afterwards
          /\ UNCHANGED <<rcTodo, rcSnap, rcWas, rcOpen>>
      BY <2>6 DEF TellSignal, TellRequest, Fire, After, Signals, Afterwards
    <3> QED BY <1>0, <3>1 DEF SnapshotIsCurrent, Afterwards
  <2>7. CASE CallbackReturns
    BY <1>0, <2>7 DEF CallbackReturns, SnapshotIsCurrent, Afterwards
  <2> QED BY <2>1, <2>2, <2>3, <2>4, <2>5, <2>6, <2>7 DEF Callbacks, RcStep
\* Only TellDisconnected and TellReady change what is believed.
<1>3. CASE \E d \in Conns : TellDisconnected(d) \/ TellReady(d)
  <2>1. PICK d \in Conns : TellDisconnected(d) \/ TellReady(d)
    BY <1>3
  <2>2. PICK what \in Bookends : Tell(d, what) /\ d \in rcTodo /\ rcPc \in {"first", "ready", "last"}
    BY <2>1 DEF TellDisconnected, TellReady, Bookends
  <2>3. told' = IF what \in handlers THEN [told EXCEPT ![PathOf(d)] = what] ELSE told
    BY <2>2 DEF Tell
  <2>4. what \in handlers => d \in connections
    BY <1>0, <2>2 DEF SnapshotIsCurrent
  <2>5. OnlyConnections'
    BY <1>0, <2>3, <2>4 DEF OnlyConnections
  <2>6. \A c \in connections : justConn'[c] => justConn[c]
    BY <2>1 DEF TellDisconnected, TellReady
  <2>7. HandlersAreSet'
    <3>1. \A c \in connections : Ready(c)' => Ready(c) \/ handlers # {}
      BY <2>3 DEF Ready
    <3> QED BY <1>0, <2>6, <3>1, CallbackLocks DEF HandlersAreSet
  <2> QED BY <1>1, <1>2, <2>5, <2>7, CallbackTales DEF Coherent
<1>4. CASE ~\E d \in Conns : TellDisconnected(d) \/ TellReady(d)
  <2>1. UNCHANGED <<told, justConn>>
    BY <1>4 DEF Callbacks, RcStep, CallRunCallbacks, CallbackReturns, TakeDisconnected, NotReady,
                LookIsOpen, EndFlags, EndFirst, EndReady, TellSignal, TellRequest, EndRequests,
                Return, Go
  <2>2. OnlyConnections' /\ HandlersAreSet'
    BY <1>0, <2>1, CallbackLocks DEF OnlyConnections, HandlersAreSet, Ready
  <2> QED BY <1>1, <1>2, <2>2, CallbackTales DEF Coherent
<1> QED BY <1>3, <1>4

-----------------------------------------------------------------------------
(***************************************************************************)
(* A step of Discord_UpdateConnection.                                     *)
(***************************************************************************)
\* Without a thread it runs while the application is in no other call.
LEMMA IoFacts ==
    ASSUME Listening, TypeOK, RunsOnlyWhenAsked, Coherent, IoStep
    PROVE  /\ rcPc = "idle" /\ opPc = "idle" /\ Phase = "idle" /\ Phase' = "idle"
           /\ UNCHANGED <<initialized, present, rcVars, opVars>>
           /\ AnyTick \/ (InTick /\ UNCHANGED <<connections, cachedPaths, scanned>>)
           /\ connections \subseteq Conns /\ connections' \subseteq Conns
           /\ rpc \in [Conns -> {"Disconnected", "SentHandshake", "Connected"}]
           /\ justConn \in [Conns -> BOOLEAN] /\ justDisc \in [Conns -> BOOLEAN]
<1>1. AppIdle
  BY IoStepPc DEF Listening, RunsOnlyWhenAsked, AnyTick, Tick
<1>2. UNCHANGED <<initialized, present, rcVars, opVars>>
  BY IoFrame
<1>3. rcPc = "idle" /\ opPc = "idle" /\ Phase = "idle" /\ Phase' = "idle"
  BY <1>1, <1>2 DEF AppIdle, Phase, rcVars
<1>4. AnyTick \/ (InTick /\ UNCHANGED <<connections, cachedPaths, scanned>>)
  BY IoStepPc, IoFrame
     DEF InTick, IoStep, AnyTick, Tick, OpenLater, OpenSendsHandshake, OpenGetsReady, OpenLosesHandshake,
         StartReading, SendMessage, SendFails, SkipClosed, ConnectLocks, ConnectHandlers,
         ConnectPresence, ConnectUser, Closed, ReadSignal, ReadRequest, ReadNothing, ReadFails, TakeUpdate,
         CopyPresence, WritePresence, WritePresenceFails, Requeue, TakeMessage, EndTick, globals
<1>5. SharedOK'
  BY SharedStep DEF Next
<1> QED BY <1>2, <1>3, <1>4, <1>5 DEF TypeOK, SharedOK, ConnsOK

\* A tick adds one connection for every path that has none.
LEMMA TickNew ==
    ASSUME NEW paths, \A p \in paths \ {PathOf(d) : d \in connections} : FreeSlots(p) # {},
           NEW c \in {CHOOSE d \in FreeSlots(p) : TRUE : p \in paths \ {PathOf(d) : d \in connections}}
    PROVE  /\ c \in Conns /\ c \notin connections
           /\ \A d \in connections : PathOf(d) # PathOf(c)
           /\ c = CHOOSE d \in FreeSlots(PathOf(c)) : TRUE
<1>1. PICK p \in paths \ {PathOf(d) : d \in connections} : c = CHOOSE d \in FreeSlots(p) : TRUE
  OBVIOUS
<1>2. FreeSlots(p) # {}
  OBVIOUS
<1>3. c \in FreeSlots(p)
  BY <1>1, <1>2
<1>4. c \in Conns /\ PathOf(c) = p /\ c \notin connections
  BY <1>3 DEF FreeSlots
<1> QED BY <1>1, <1>4

\* No connection is removed: every path is there at every scan.
LEMMA TickFacts ==
    ASSUME Listening, TypeOK, RunsOnlyWhenAsked, Coherent, IoStep, AnyTick
    PROVE  \E new \in SUBSET Conns :
             /\ connections' = connections \cup new
             /\ Refresh(new)
             /\ \A c \in new : /\ c \notin connections
                               /\ \A d \in connections : PathOf(d) # PathOf(c)
                               /\ c = CHOOSE d \in FreeSlots(PathOf(c)) : TRUE
             /\ PathsKnown' /\ initialized
             /\ ioPc = "tick" /\ ioPc' = "each"
             /\ ioSnap' = connections' /\ ioTodo' = connections'
             /\ UNCHANGED <<handling, queues, ioCur>>
<1> USE IoFacts
<1>1. PICK paths \in {present, cachedPaths} : Tick(paths)
  BY DEF AnyTick
<1> DEFINE missing == paths \ {PathOf(d) : d \in connections}
           new == {CHOOSE d \in FreeSlots(p) : TRUE : p \in missing}
           gone == {d \in connections : Expired(d, paths)}
<1>2. paths = Paths /\ PathsKnown'
  BY <1>1 DEF Tick, Coherent, PathsKnown
<1>3. gone = {}
  BY <1>2, PathType DEF Expired
<1>4. /\ \A p \in missing : FreeSlots(p) # {}
      /\ connections' = (connections \ gone) \cup new
      /\ Refresh(new \cup (gone \ Held))
  BY <1>1 DEF Tick
<1>5. \A c \in new : /\ c \in Conns /\ c \notin connections
                     /\ \A d \in connections : PathOf(d) # PathOf(c)
                     /\ c = CHOOSE d \in FreeSlots(PathOf(c)) : TRUE
  BY <1>4, TickNew
<1> HIDE DEF missing, new, gone
<1>6. /\ connections' = connections \cup new /\ new \cup (gone \ Held) = new
      /\ new \in SUBSET Conns
  BY <1>3, <1>4, <1>5
<1>7. /\ initialized /\ ioPc = "tick" /\ ioPc' = "each"
      /\ ioSnap' = connections' /\ ioTodo' = connections'
      /\ UNCHANGED <<handling, queues, ioCur>>
  BY <1>1 DEF Tick, Listening
<1> QED BY <1>2, <1>4, <1>5, <1>6, <1>7

LEMMA TickStep ==
    ASSUME Listening, TypeOK, RunsOnlyWhenAsked, Coherent, IoStep, AnyTick
    PROVE  Coherent'
<1> USE IoFacts
<1>0. PathsKnown /\ TickIsLocal /\ SnapshotIsCurrent /\ HandlersAreSet /\ OnlyConnections
  BY DEF Coherent
<1>1. PICK new \in SUBSET Conns :
             /\ connections' = connections \cup new
             /\ Refresh(new)
             /\ \A c \in new : /\ c \notin connections
                               /\ \A d \in connections : PathOf(d) # PathOf(c)
                               /\ c = CHOOSE d \in FreeSlots(PathOf(c)) : TRUE
             /\ PathsKnown' /\ initialized
             /\ ioPc = "tick" /\ ioPc' = "each"
             /\ ioSnap' = connections' /\ ioTodo' = connections'
             /\ UNCHANGED <<handling, queues, ioCur>>
  BY TickFacts
<1>2. PathsKnown'
  BY <1>1
<1>4. /\ connections' = connections \cup new /\ Refresh(new)
      /\ ioPc = "tick" /\ ioPc' = "each" /\ initialized
      /\ ioSnap' = connections' /\ ioTodo' = connections'
      /\ UNCHANGED <<handlers, queuedHandlers, updater, ioCur>>
  BY <1>1 DEF handling, registration
<1>5. \A c \in new : /\ c \in Conns /\ c \notin connections
                     /\ \A d \in connections : PathOf(d) # PathOf(c)
                     /\ c = CHOOSE d \in FreeSlots(PathOf(c)) : TRUE
  BY <1>1
<1>6. TickIsLocal'
  <2>1. ASSUME NEW c \in connections', NEW d \in connections', PathOf(c) = PathOf(d)
        PROVE  c = d
    <3>1. CASE c \in new /\ d \in new
      <4>1. PathOf(c) = PathOf(d)
        BY <2>1
      <4>2. (CHOOSE e \in FreeSlots(PathOf(c)) : TRUE) = CHOOSE e \in FreeSlots(PathOf(d)) : TRUE
        BY ONLY <4>1
      <4> QED BY <1>5, <3>1, <4>2
    <3>2. CASE c \in connections /\ d \in connections
      BY <1>0, <2>1, <3>2 DEF TickIsLocal
    <3>3. CASE (c \in new /\ d \in connections) \/ (c \in connections /\ d \in new)
      BY <1>5, <2>1, <3>3
    <3> QED BY <1>4, <3>1, <3>2, <3>3
  <2> QED BY <1>4, <2>1 DEF TickIsLocal, InTick
<1>7. SnapshotIsCurrent'
  BY <1>0 DEF SnapshotIsCurrent, rcVars, opVars
\* A fresh connection has no news, and nobody has heard of it.
<1>8. ASSUME NEW c \in new
      PROVE  ~Up(c)' /\ ~justConn'[c] /\ ~justDisc'[c] /\ ~Ready(c)'
  <2>1. rpc'[c] = "Disconnected" /\ justConn'[c] = FALSE /\ justDisc'[c] = FALSE
    BY <1>4, <1>5 DEF Refresh
  <2>2. ~Ready(c)'
    BY <1>0, <1>5, PathType DEF OnlyConnections, Ready, rcVars
  <2> QED BY <2>1, <2>2 DEF Up
<1>9. ASSUME NEW c \in connections
      PROVE  /\ Up(c)' = Up(c) /\ justConn'[c] = justConn[c] /\ justDisc'[c] = justDisc[c]
             /\ Ready(c)' = Ready(c)
  <2>1. c \in Conns /\ c \notin new
    BY <1>5
  <2> QED BY <1>4, <2>1 DEF Refresh, Up, Ready, rcVars
<1>10. HandlersAreSet'
  <2>1. \A c \in connections' : justConn'[c] \/ Ready(c)' => handlers # {}
    BY <1>0, <1>4, <1>8, <1>9 DEF HandlersAreSet
  <2> QED BY <1>0, <1>4, <2>1 DEF HandlersAreSet, opVars, rcVars
<1>11. OnlyConnections'
  BY <1>0, <1>4 DEF OnlyConnections, rcVars
<1>12. ASSUME NEW c \in connections' PROVE Tale(c)'
  <2>1. Agrees(justConn'[c], justDisc'[c], Up(c)', Ready(c)')
    <3>1. CASE c \in new
      BY <1>8, <3>1 DEF Agrees
    <3>2. CASE c \in connections
      <4>1. Agrees(justConn[c], justDisc[c], Up(c), Ready(c))
        BY <1>4, <3>2 DEF Coherent, Tales, Tale, AtRest, Opening, Closing
      <4> QED BY <1>9, <3>2, <4>1 DEF Agrees
    <3> QED BY <1>4, <3>1, <3>2
  <2> QED BY <1>4, <2>1 DEF Tale, AtRest, Opening, Closing, Afterwards, Agrees
<1> QED BY <1>2, <1>6, <1>7, <1>10, <1>11, <1>12 DEF Coherent, Tales

\* The other steps of a tick, for the connections themselves, ...
LEMMA LocalStep ==
    ASSUME Listening, TypeOK, RunsOnlyWhenAsked, Coherent, IoStep, ~AnyTick
    PROVE  TickIsLocal'
<1> USE IoFacts
<1>0. TickIsLocal /\ IoOK /\ InTick /\ UNCHANGED <<connections, initialized>>
  BY IoStepPc DEF Coherent, TypeOK
<1>1. CASE \E d \in Conns : OpenLater(d) \/ SkipClosed(d) \/ SendMessage(d)
  BY <1>0, <1>1 DEF OpenLater, SkipClosed, SendMessage, Take, Addressed, TickIsLocal, InTick, conns, Up
<1>2. CASE \E d \in Conns : OpenSendsHandshake(d) \/ OpenGetsReady(d) \/ StartReading(d)
  <2>1. PICK d \in Conns : OpenSendsHandshake(d) \/ OpenGetsReady(d) \/ StartReading(d)
    BY <1>2
  <2>2. /\ d \in connections /\ ioPc = "each" /\ ioTodo' \subseteq ioTodo /\ ioSnap' = ioSnap
        /\ \/ ioPc' = "each"
           \/ ioPc' \in {"handlers", "read"} /\ ioCur' = d /\ rpc'[d] = "Connected"
    BY <1>0, <2>1
       DEF OpenSendsHandshake, OpenGetsReady, StartReading, Take, TickIsLocal, InTick, conns
  <2> QED BY <1>0, <2>2 DEF TickIsLocal, InTick, Up
<1>3. CASE \/ \E d \in Conns : OpenLosesHandshake(d) \/ SendFails(d)
           \/ ReadFails \/ (WritePresenceFails /\ Reports(ioCur))
  <2>1. /\ ioPc' = "closing" /\ ioCur' \in connections
        /\ ioTodo' \subseteq ioTodo /\ ioSnap' = ioSnap
    BY <1>0, <1>3
       DEF OpenLosesHandshake, SendFails, ReadFails, WritePresenceFails, Lose, Take, Addressed,
           TickIsLocal, InTick, Up
  <2> QED BY <1>0, <2>1 DEF TickIsLocal, InTick
<1>4. CASE ConnectLocks \/ ConnectHandlers \/ ConnectPresence
  BY <1>0, <1>4
     DEF ConnectLocks, ConnectHandlers, ConnectPresence, TickIsLocal, InTick, conns, ioVars, Up
<1>5. CASE \/ \E u \in Users \cup {NoUser} : ConnectUser(u)
           \/ TakeUpdate \/ CopyPresence \/ WritePresence \/ Requeue
  BY <1>0, <1>5 DEF ConnectUser, TakeUpdate, CopyPresence, WritePresence, Requeue, TickIsLocal, InTick
<1>6. CASE Closed
  BY <1>0, <1>6 DEF Closed, IoOK, TickIsLocal, InTick
<1>7. CASE (\E s \in Incoming : ReadSignal(s)) \/ ReadRequest \/ ReadNothing
  BY <1>0, <1>7 DEF ReadSignal, ReadRequest, ReadNothing, TickIsLocal, InTick, conns, ioVars, Up
<1>8. CASE WritePresenceFails /\ ~Reports(ioCur)
  BY <1>0, <1>8 DEF WritePresenceFails, TickIsLocal, InTick, Up
<1>9. CASE TakeMessage \/ EndTick
  BY <1>0, <1>9 DEF TakeMessage, EndTick, AllServed, Stopped, Listening, TickIsLocal, InTick
<1> QED BY <1>1, <1>2, <1>3, <1>4, <1>5, <1>6, <1>7, <1>8, <1>9 DEF IoStep

\* ... and for what is to be told about them.
LEMMA RestStep ==
    ASSUME Listening, TypeOK, RunsOnlyWhenAsked, Coherent, IoStep, ~AnyTick,
           NEW c \in connections
    PROVE  AtRest(c)'
<1> USE IoFacts
<1>0. /\ TickIsLocal /\ InTick /\ UNCHANGED <<connections, initialized>> /\ c \in Conns
      /\ AtRest(c) /\ Ready(c)' = Ready(c) /\ ioPc' # "off"
      /\ ioCur \in Conns \cup {NoConn} /\ ioAfter \in {"each", "presence", "requeue", "send"}
  <2>1. TickIsLocal /\ InTick /\ UNCHANGED <<connections, initialized>> /\ c \in Conns
    BY DEF Coherent
  <2>2. AtRest(c)
    BY DEF Coherent, Tales, Tale
  <2>3. Ready(c)' = Ready(c)
    BY DEF Ready, rcVars
  <2>4. ioCur \in Conns \cup {NoConn} /\ ioAfter \in {"each", "presence", "requeue", "send"}
    BY DEF TypeOK, IoOK
  <2>5. ioPc' # "off"
    BY <2>1, <2>4, IoStepPc
       DEF InTick, IoStep, AnyTick, OpenLater, OpenSendsHandshake, OpenGetsReady, OpenLosesHandshake,
           StartReading, SendMessage, SendFails, SkipClosed, ConnectLocks, ConnectHandlers,
           ConnectPresence, ConnectUser, Closed, ReadSignal, ReadRequest, ReadNothing, ReadFails, TakeUpdate,
           CopyPresence, WritePresence, WritePresenceFails, Requeue, TakeMessage, EndTick, Lose,
           ioVars
  <2> QED BY <2>1, <2>2, <2>3, <2>4, <2>5
<1>1. CASE \/ \E d \in Conns : OpenLater(d) \/ SkipClosed(d) \/ SendMessage(d) \/ StartReading(d)
           \/ (\E s \in Incoming : ReadSignal(s)) \/ ReadRequest \/ ReadNothing
           \/ TakeUpdate \/ CopyPresence \/ WritePresence \/ Requeue
           \/ (WritePresenceFails /\ ~Reports(ioCur)) \/ TakeMessage \/ EndTick
  <2>1. /\ UNCHANGED <<rpc, justConn, justDisc>>
        /\ ioPc \notin {"handlers", "greet", "user", "closing"}
        /\ ioPc' \notin {"handlers", "greet", "user", "closing"}
    BY <1>1
       DEF OpenLater, SkipClosed, SendMessage, StartReading, ReadSignal, ReadRequest, ReadNothing,
           TakeUpdate, CopyPresence, WritePresence, Requeue, WritePresenceFails, TakeMessage,
           EndTick, AllServed, Take, Addressed, Up, conns, flags, ioVars
  <2> QED BY <1>0, <2>1 DEF AtRest, Opening, Closing, Agrees, Up
<1>2. ASSUME NEW d \in Conns, OpenSendsHandshake(d) PROVE AtRest(c)'
  <2>1. /\ rpc[d] = "Disconnected" /\ rpc' = [rpc EXCEPT ![d] = "SentHandshake"]
        /\ UNCHANGED <<justConn, justDisc>> /\ ioPc = "each" /\ ioPc' = "each"
    BY <1>2 DEF OpenSendsHandshake, Take, flags
  <2>2. Up(c)' = Up(c)
    BY <1>0, <2>1 DEF Up
  <2> QED BY <1>0, <2>1, <2>2 DEF AtRest, Opening, Closing, Agrees
<1>3. ASSUME NEW d \in Conns, OpenGetsReady(d) PROVE AtRest(c)'
  <2>1. /\ rpc' = [rpc EXCEPT ![d] = "Connected"]
        /\ UNCHANGED <<justConn, justDisc>> /\ ioPc = "each" /\ ioPc' = "handlers" /\ ioCur' = d
    BY <1>3 DEF OpenGetsReady, Take, flags
  <2>2. CASE c = d
    BY <1>0, <2>1, <2>2 DEF AtRest, Opening, Closing, Up
  <2>3. CASE c # d
    <3>1. Up(c)' = Up(c)
      BY <1>0, <2>1, <2>3 DEF Up
    <3> QED BY <1>0, <2>1, <2>3, <3>1 DEF AtRest, Opening, Closing, Agrees
  <2> QED BY <2>2, <2>3
<1>4. CASE \/ \E d \in Conns : OpenLosesHandshake(d) \/ SendFails(d)
           \/ ReadFails \/ (WritePresenceFails /\ Reports(ioCur))
  <2>1. PICK d \in Conns : /\ justDisc' = [justDisc EXCEPT ![d] = TRUE]
                           /\ ioPc' = "closing" /\ ioCur' = d
                           /\ UNCHANGED <<rpc, justConn>>
                           /\ ioPc \in {"each", "send", "read", "write"}
    <3>1. ioPc \in {"read", "write"} => ioCur \in Conns
      BY <1>0 DEF TickIsLocal, InTick
    <3> QED BY <1>4, <3>1
       DEF OpenLosesHandshake, SendFails, ReadFails, WritePresenceFails, Lose, Take, Addressed, Up
  <2>2. CASE c = d
    <3>1. justDisc'[c] = TRUE
      BY <2>1, <2>2
    <3> QED BY <2>1, <2>2, <3>1 DEF AtRest, Opening, Closing
  <2>3. CASE c # d
    <3>1. justDisc'[c] = justDisc[c]
      BY <1>0, <2>1, <2>3
    <3> QED BY <1>0, <2>1, <2>3, <3>1 DEF AtRest, Opening, Closing, Agrees, Up
  <2> QED BY <2>2, <2>3
<1>5. CASE ConnectLocks \/ ConnectHandlers \/ ConnectPresence
  BY <1>0, <1>5
     DEF ConnectLocks, ConnectHandlers, ConnectPresence, AtRest, Opening, Closing, Agrees, Up, conns,
         flags, ioVars
<1>6. ASSUME NEW u, ConnectUser(u) PROVE AtRest(c)'
  <2>1. /\ justConn' = [justConn EXCEPT ![ioCur] = TRUE] /\ ioPc = "user" /\ ioPc' = "each"
        /\ UNCHANGED <<rpc, justDisc>> /\ ioCur \in connections /\ Up(ioCur)
    BY <1>0, <1>6 DEF ConnectUser, TickIsLocal, InTick
  <2>2. CASE c = ioCur
    <3>1. justConn'[c] = TRUE /\ Up(c)'
      BY <2>1, <2>2 DEF Up
    <3> QED BY <2>1, <3>1 DEF AtRest, Opening, Closing, Agrees
  <2>3. CASE c # ioCur
    <3>1. justConn'[c] = justConn[c]
      BY <1>0, <2>1, <2>3
    <3> QED BY <1>0, <2>1, <2>3, <3>1 DEF AtRest, Opening, Closing, Agrees, Up
  <2> QED BY <2>2, <2>3
<1>7. CASE Closed
  <2>1. /\ rpc' = [rpc EXCEPT ![ioCur] = "Disconnected"] /\ ioPc = "closing" /\ ioPc' = ioAfter
        /\ UNCHANGED <<justConn, justDisc>>
    BY <1>7 DEF Closed, flags
  <2>2. CASE c = ioCur
    <3>1. ~Up(c)' /\ justDisc'[c]
      BY <1>0, <2>1, <2>2 DEF Up, AtRest, Closing
    <3> QED BY <1>0, <2>1, <3>1 DEF AtRest, Opening, Closing, Agrees
  <2>3. CASE c # ioCur
    <3>1. Up(c)' = Up(c)
      BY <1>0, <2>1, <2>3 DEF Up
    <3> QED BY <1>0, <2>1, <2>3, <3>1 DEF AtRest, Opening, Closing, Agrees
  <2> QED BY <2>2, <2>3
<1> QED BY <1>1, <1>2, <1>3, <1>4, <1>5, <1>6, <1>7 DEF IoStep

LEMMA IoCoherent ==
    ASSUME Listening, TypeOK, RunsOnlyWhenAsked, Coherent, IoStep
    PROVE  Coherent'
<1> USE IoFacts
<1>1. CASE AnyTick
  BY <1>1, TickStep
<1>2. CASE ~AnyTick
  <2>0. /\ PathsKnown /\ TickIsLocal /\ SnapshotIsCurrent /\ HandlersAreSet /\ OnlyConnections
        /\ InTick /\ UNCHANGED <<connections, cachedPaths, scanned, initialized, present>>
    BY <1>2 DEF Coherent
  <2>1. PathsKnown' /\ TickIsLocal'
    BY <1>2, <2>0, LocalStep DEF PathsKnown
  <2>2. SnapshotIsCurrent' /\ OnlyConnections'
    BY <2>0 DEF SnapshotIsCurrent, OnlyConnections, rcVars, opVars
  <2>3. Tales'
    <3>1. SUFFICES ASSUME NEW c \in connections PROVE Tale(c)'
      BY <2>0 DEF Tales
    <3>2. AtRest(c)'
      BY <1>2, RestStep
    <3> QED BY <3>2 DEF Tale, Afterwards
  <2>4. HandlersAreSet'
    <3>1. CASE ConnectHandlers
      <4>1. /\ handlers' = queuedHandlers /\ UNCHANGED <<queuedHandlers, justConn, opVars, told>>
            /\ ioPc' = "greet"
        BY <3>1 DEF ConnectHandlers, SetHandlers, New, conns, flags, rcVars
      <4>2. Bookends \subseteq queuedHandlers
        BY <2>0 DEF HandlersAreSet, TickIsLocal
      <4>3. handlers' # {}
        BY <4>1, <4>2 DEF Bookends
      <4> QED BY <2>0, <4>1, <4>2, <4>3 DEF HandlersAreSet, opVars, rcVars
    <3>2. ASSUME NEW u, ConnectUser(u) PROVE HandlersAreSet'
      <4>1. handlers # {} /\ ioPc' = "each" /\ UNCHANGED <<handling, opVars>>
        BY <2>0, <3>2 DEF ConnectUser, HandlersAreSet
      <4> QED BY <2>0, <4>1 DEF HandlersAreSet, opVars, rcVars, handling
    <3>3. CASE ~ConnectHandlers /\ ~\E u \in Users \cup {NoUser} : ConnectUser(u)
      <4>1. /\ UNCHANGED <<handlers, queuedHandlers, justConn, opPc, opArg, told>>
            /\ ioPc' \in {"greet", "user"} => ioPc \in {"greet", "user"}
        BY <1>2, <3>3
           DEF IoStep, OpenLater, OpenSendsHandshake, OpenGetsReady, OpenLosesHandshake,
               StartReading, SendMessage, SendFails, SkipClosed, ConnectLocks, ConnectPresence,
               Closed, ReadSignal, ReadRequest, ReadNothing, ReadFails, TakeUpdate, CopyPresence,
               WritePresence, WritePresenceFails, Requeue, TakeMessage, EndTick, Lose, Lock,
               handling, conns, flags, ioVars, opVars, rcVars, TypeOK, IoOK
      <4> QED BY <2>0, <4>1 DEF HandlersAreSet, Ready, rcVars
    <3> QED BY <3>1, <3>2, <3>3
  <2> QED BY <2>1, <2>2, <2>3, <2>4 DEF Coherent
<1> QED BY <1>1, <1>2

-----------------------------------------------------------------------------
(***************************************************************************)
(* The other calls.                                                        *)
(***************************************************************************)
\* A call that leaves the connections, the clients and the callbacks alone keeps
\* everything but what concerns the handlers.
LEMMA QuietCall ==
    ASSUME TypeOK, Coherent, HandlersAreSet',
           UNCHANGED <<connections, cachedPaths, scanned, present, rpc, justConn, justDisc,
                       ioVars, rcVars>>,
           initialized => initialized',
           handlers' = handlers \/ rcPc = "idle" \/ handlers' = {},
           opPc' = "idle" \/ rcPc \in {"idle", "callback"}
    PROVE  Coherent'
<1>1. PathsKnown' /\ TickIsLocal' /\ SnapshotIsCurrent' /\ OnlyConnections'
  BY DEF Coherent, PathsKnown, TickIsLocal, SnapshotIsCurrent, OnlyConnections, InTick, Up, ioVars,
         rcVars
<1>2. ASSUME NEW c \in connections
      PROVE  Tale(c)' = Tale(c)
  BY DEF Tale, AtRest, Collected, TookEnd, Announced, Dismissed, Opening, Closing, Agrees, Phase,
         Ready, Up, ioVars, rcVars
<1>3. Tales'
  BY <1>2 DEF Coherent, Tales
<1> QED BY <1>1, <1>3 DEF Coherent

LEMMA ApiCoherent ==
    ASSUME Listening, TypeOK, RunsOnlyWhenAsked, Coherent, ApiCall \/ ApiStep
    PROVE  Coherent'
<1>0. /\ HandlersAreSet /\ SnapshotIsCurrent /\ TickIsLocal /\ initialized \in BOOLEAN
      /\ ioPc \in {"greet", "user"} => AppIdle
  BY DEF Coherent, Listening, RunsOnlyWhenAsked, TypeOK, SharedOK
<1>1. CASE \/ \E p \in Presences : UpdatePresence(p) \/ \E u \in Users : UpdatePresenceForUser(u, p)
           \/ Respond
  <2>1. /\ UNCHANGED <<connections, cachedPaths, scanned, initialized, present, rpc, justConn,
                       justDisc, handlers, queuedHandlers, updater, ioVars, rcVars>>
        /\ opPc = "idle" /\ opPc' \in {"presence", "forUser", "respond"}
        /\ rcPc \in {"idle", "callback"}
    BY <1>1 DEF UpdatePresence, UpdatePresenceForUser, Respond, MayCall, Begin, ConnsUnchanged,
                globals, handling, registration, conns, flags, clients
  <2>2. HandlersAreSet'
    BY <1>0, <2>1 DEF HandlersAreSet, Ready, ioVars, rcVars
  <2> QED BY <2>1, <2>2, QuietCall
<1>2. CASE \/ \E c \in Conns : FindUser(c) \/ SetPresence(c) \/ PassOver(c)
           \/ SetPresenceForUser \/ PresenceSet \/ RespondReserves \/ RespondCommits
  <2>1. /\ UNCHANGED <<connections, cachedPaths, scanned, initialized, present, rpc, justConn,
                       justDisc, handlers, queuedHandlers, updater, ioVars, rcVars>>
        /\ opPc \in {"presence", "forUser", "store", "respond", "reserved"}
        /\ opPc' \in {"idle", "presence", "forUser", "store", "reserved"}
    BY <1>2 DEF FindUser, SetPresence, SetPresenceForUser, Store, PassOver, PresenceSet,
                RespondReserves, RespondCommits, End, Begin, ConnsUnchanged,
                globals, handling, registration, conns, flags, clients
  <2>2. HandlersAreSet'
    BY <1>0, <2>1 DEF HandlersAreSet, Ready, ioVars, rcVars
  <2>3. rcPc \in {"idle", "callback"}
    BY <1>0, <2>1 DEF SnapshotIsCurrent
  <2> QED BY <2>1, <2>2, <2>3, QuietCall
<1>3. ASSUME NEW new \in HandlerSets, UpdateHandlers(new) PROVE Coherent'
  <2>1. /\ UNCHANGED <<connections, cachedPaths, scanned, initialized, present, rpc, justConn,
                       justDisc, handlers, queuedHandlers, updater, ioVars, rcVars>>
        /\ opPc = "idle" /\ opPc' = "lock" /\ opArg' = new
        /\ rcPc \in {"idle", "callback"}
    BY <1>3 DEF UpdateHandlers, MayCall, Begin, ConnsUnchanged, globals, handling, registration,
                conns, flags, clients
  <2>2. HandlersAreSet'
    BY <1>0, <2>1 DEF HandlersAreSet, Listening, Ready, ioVars, rcVars
  <2> QED BY <2>1, <2>2, QuietCall
<1>4. CASE UpdateHandlersLocked
  <2>1. /\ UNCHANGED <<connections, cachedPaths, scanned, initialized, present, rpc, justConn,
                       justDisc, handlers, queuedHandlers, ioVars, rcVars, opPc, opArg>>
        /\ opPc = "lock" /\ rcPc # "callback"
    BY <1>4 DEF UpdateHandlersLocked, Lock, HandlerMutexFree, ConnsUnchanged, globals, conns, flags,
                clients, opVars
  <2>2. HandlersAreSet'
    BY <1>0, <2>1 DEF HandlersAreSet, Ready, ioVars, rcVars
  <2>3. rcPc = "idle"
    BY <1>0, <2>1 DEF SnapshotIsCurrent
  <2> QED BY <2>1, <2>2, <2>3, QuietCall
<1>10. CASE HandlersUpdated
  <2>1. /\ UNCHANGED <<connections, cachedPaths, scanned, initialized, present, rpc, justConn,
                       justDisc, queuedHandlers, ioVars, rcVars>>
        /\ updater = "app" /\ updater' = "nobody"
        /\ opPc = "lock" /\ opPc' = "idle" /\ handlers' = opArg
    BY <1>10 DEF HandlersUpdated, SetHandlers, New, End, Begin, ConnsUnchanged, globals, conns,
                 flags, clients
  <2>2. handlers' # {} /\ Bookends \subseteq handlers'
    BY <1>0, <2>1 DEF HandlersAreSet, Bookends
  <2>3. HandlersAreSet'
    BY <1>0, <2>1, <2>2 DEF HandlersAreSet, Ready, ioVars, rcVars
  <2>4. rcPc = "idle"
    BY <1>0, <2>1 DEF HandlersAreSet, SnapshotIsCurrent
  <2> QED BY <2>1, <2>3, <2>4, QuietCall
<1>5. ASSUME NEW new \in HandlerSets, Initialize(new) PROVE Coherent'
  <2>1. /\ UNCHANGED <<connections, cachedPaths, scanned, present, rpc, justConn, justDisc,
                       handlers, queuedHandlers, updater, ioVars, rcVars>>
        /\ ~initialized /\ initialized' = TRUE
        /\ opPc = "idle" /\ opPc' = "lockInit" /\ opArg' = new
        /\ rcPc \in {"idle", "callback"}
    BY <1>5 DEF Initialize, MayCall, Begin, ConnsUnchanged, handling, registration, conns, flags,
                clients
  <2>2. connections = {}
    BY <2>1 DEF RunsOnlyWhenAsked
  <2>3. HandlersAreSet'
    BY <1>0, <2>1, <2>2 DEF HandlersAreSet, Listening, ioVars, rcVars
  <2> QED BY <2>1, <2>3, QuietCall
<1>6. CASE InitializeLocked
  <2>1. /\ UNCHANGED <<connections, initialized, present, rpc, justConn, justDisc,
                       ioSnap, ioTodo, ioCur, rcVars>>
        /\ scanned' = FALSE /\ ioPc' = "tick" /\ queuedHandlers' = opArg /\ handlers' = {}
        /\ opPc = "lockInit" /\ opPc' = "idle" /\ rcPc # "callback"
    BY <1>6 DEF InitializeLocked, HandlerMutexFree, End, Begin, ConnsUnchanged, conns, flags, clients
  <2>2. connections = {} /\ Bookends \subseteq opArg /\ rcPc = "idle"
    BY <1>0, <2>1 DEF HandlersAreSet, SnapshotIsCurrent
  <2>3. HandlersAreSet' /\ Tales'
    BY <2>1, <2>2 DEF HandlersAreSet, Tales, rcVars
  <2>4. PathsKnown' /\ TickIsLocal' /\ SnapshotIsCurrent' /\ OnlyConnections'
    BY <1>0, <2>1, <2>2
       DEF Coherent, PathsKnown, TickIsLocal, SnapshotIsCurrent, OnlyConnections, InTick, rcVars
  <2> QED BY <2>3, <2>4 DEF Coherent
<1>7. CASE Shutdown
  <2>1. /\ UNCHANGED <<connections, cachedPaths, scanned, initialized, present, rpc, justConn,
                       justDisc, queuedHandlers, updater, ioVars, rcVars>>
        /\ opPc = "idle" /\ opPc' = "join" /\ handlers' = {}
        /\ rcPc \in {"idle", "callback"} /\ ioPc \in {"off", "tick"}
    BY <1>7 DEF Shutdown, MayCall, Begin, ConnsUnchanged, registration, conns, flags, clients, Listening
  <2>2. HandlersAreSet'
    BY <1>0, <2>1 DEF HandlersAreSet, ioVars, rcVars
  <2> QED BY <2>1, <2>2, QuietCall
<1>8. CASE ShutdownJoined
  <2>1. /\ connections' = {} /\ initialized' = FALSE /\ scanned' = FALSE
        /\ told' = [p \in Paths |-> "nothing"]
        /\ opPc = "join" /\ opPc' = "idle"
        /\ UNCHANGED <<handlers, queuedHandlers, updater, present, ioVars,
                       rcPc, rcSnap, rcTodo, rcCur, rcWas, rcOpen, rcBack>>
    BY <1>8 DEF ShutdownJoined, End, Begin, handling, registration
  <2>2. ioPc \in {"off", "tick"} /\ handlers = {}
    BY <1>0, <2>1 DEF RunsOnlyWhenAsked, Listening, AppIdle, HandlersAreSet
  <2>3. HandlersAreSet' /\ Tales' /\ OnlyConnections'
    BY <1>0, <2>1, <2>2 DEF HandlersAreSet, Tales, OnlyConnections, ioVars
  <2>4. PathsKnown' /\ TickIsLocal' /\ SnapshotIsCurrent'
    BY <1>0, <2>1, <2>2
       DEF Coherent, PathsKnown, TickIsLocal, SnapshotIsCurrent, InTick, ioVars
  <2> QED BY <2>3, <2>4 DEF Coherent
<1>9. CASE ClearHandlers
  BY <1>9 DEF ClearHandlers, MayCall, Listening
<1> QED BY <1>1, <1>2, <1>3, <1>4, <1>5, <1>6, <1>7, <1>8, <1>9, <1>10
    DEF ApiCall, ApiStep

LEMMA CoherentStep ==
    ASSUME Listening
    PROVE  TypeOK /\ RunsOnlyWhenAsked /\ Coherent /\ [Next]_vars => Coherent'
<1> SUFFICES ASSUME TypeOK, RunsOnlyWhenAsked, Coherent, [Next]_vars PROVE Coherent'
  OBVIOUS
<1>1. CASE Callbacks
  BY <1>1, CallbackStep
<1>2. CASE IoStep
  BY <1>2, IoCoherent
<1>3. CASE ApiCall \/ ApiStep
  BY <1>3, ApiCoherent
<1>4. CASE Client
  BY <1>4 DEF Client, ClientLeaves, ClientComes, Listening, Coherent, PathsKnown
<1>5. CASE UNCHANGED vars
  <2>1. HandlersAreSet'
    BY <1>5 DEF Coherent, HandlersAreSet, Ready, vars, globals, handling, registration, conns, flags, ioVars,
                rcVars, opVars
  <2> QED BY <1>5, <2>1, QuietCall DEF vars, globals, handling, conns, flags, clients, opVars, Coherent,
             SnapshotIsCurrent
<1>6. CASE RegistrationStep
  <2>1. UNCHANGED <<connections, cachedPaths, scanned, initialized, present, rpc, justConn, justDisc,
                    handlers, queuedHandlers, updater, ioVars, rcVars, opPc, opArg>>
    BY <1>6, RegistrationFrame DEF Registering, globals, conns, flags, clients, opVars
  <2>2. HandlersAreSet' /\ SnapshotIsCurrent
    BY <2>1 DEF Coherent, HandlersAreSet, Ready, ioVars, rcVars
  <2> QED BY <2>1, <2>2, QuietCall DEF SnapshotIsCurrent
<1> QED BY <1>1, <1>2, <1>3, <1>4, <1>5, <1>6 DEF Next, Callbacks

LEMMA CoherentInit == Init => Coherent
BY DEF Init, Coherent, PathsKnown, TickIsLocal, SnapshotIsCurrent, HandlersAreSet, OnlyConnections,
       Tales, InTick, Conns

\* In a build without an IO thread, once nothing is on its way, the last callback
\* about a connection was ready if and only if it is open: for any number of
\* clients, connections that come and go, and calls in between, Shutdown and
\* Initialize among them (discord_rpc.cpp:563-565, 582-604, 658-673).
THEOREM BeliefIsRight ==
    ASSUME Listening
    PROVE  Spec => []BeliefMatches
<1>1. Init => RunsOnlyWhenAsked
  BY DEF Init, RunsOnlyWhenAsked
<1>2. Coherent => BeliefMatches
  <2> SUFFICES ASSUME Coherent, NEW c \in connections, Settled(c)
               PROVE  rpc[c] = "Connected" <=> told[PathOf(c)] = "ready"
    BY DEF BeliefMatches
  <2>1. /\ rcPc = "idle" /\ ~justConn[c] /\ ~justDisc[c]
        /\ ~Opening(c) /\ ~Closing(c)
    BY DEF Settled, Opening, Closing
  <2>2. AtRest(c)
    BY <2>1 DEF Coherent, Tales, Tale, Phase
  <2> QED BY <2>1, <2>2 DEF AtRest, Agrees, Up, Ready
<1> QED BY <1>1, <1>2, CoherentInit, CoherentStep, TypeCorrect, RunsStep, PTL DEF Spec

-----------------------------------------------------------------------------
\* For the other signals the application also has to leave a library that it has
\* shut down alone: signals outlive Discord_Shutdown, and Discord_UpdateHandlers
\* before the next connection lets RunCallbacks tell them.
Patient ==
    /\ "Shutdown" \notin CallbackCalls
    /\ ~({"Shutdown", "UpdateHandlers"} \subseteq Calls \cup CallbackCalls)

Pending == raised \cap Subscribable # {} \/ asks > 0
SomeoneKnown == \E c \in connections : justConn[c] \/ Ready(c)

\* A signal that waits comes from a connection that is or will be known, or from
\* before a Shutdown, and then nobody listens until the next connection.
SignalsHaveSource ==
    Pending => \/ SomeoneKnown
               \/ /\ "Shutdown" \in Calls
                  /\ handlers = {} \/ ioPc \in {"greet", "user"}

\* The phases leave nothing behind.
SignalsAreSpent ==
    /\ Phase \in {"spectateGame", "joinRequest", "last"} => "joinGame" \notin raised
    /\ Phase \in {"joinRequest", "last"} => "spectateGame" \notin raised
    /\ Phase = "last" => asks = 0

SignalsInside ==
    /\ opPc = "join" => "Shutdown" \in Calls /\ rcPc = "idle"
    /\ opPc = "lock" => "UpdateHandlers" \in Calls \cup CallbackCalls
    /\ SignalsHaveSource
    /\ SignalsAreSpent
    /\ BookEnded

LEMMA SignalsInit == Init => SignalsInside
BY DEF Init, SignalsInside, SignalsHaveSource, SignalsAreSpent, Pending, BookEnded, Phase

LEMMA SignalsCallback ==
    ASSUME Listening, Patient, TypeOK, Coherent, SignalsInside, Callbacks
    PROVE  SignalsInside'
<1> USE CallbackFacts
<1>0. /\ SignalsHaveSource /\ SignalsAreSpent /\ SnapshotIsCurrent /\ HandlersAreSet
      /\ raised \subseteq Signals /\ asks \in Nat
      /\ rcPc = "callback" /\ rcWhat = "joinRequest" => asks > 0
  BY ConstantsAssumption DEF SignalsInside, Coherent, TypeOK, SharedOK, AppOK
<1>1. /\ opPc' = "join" => "Shutdown" \in Calls /\ rcPc' = "idle"
      /\ opPc' = "lock" => "UpdateHandlers" \in Calls \cup CallbackCalls
  <2>1. rcPc = "idle" => opPc = "idle"
    BY DEF Callbacks, RcStep, CallRunCallbacks, CallbackReturns, TakeDisconnected,
           TellDisconnected, TellReady, NotReady, LookIsOpen, EndFlags, EndFirst, EndReady,
           TellSignal, TellRequest, EndRequests, Return, AppIdle, Signals
  <2> QED BY <2>1 DEF SignalsInside
\* The phases only consume signals.
<1>2. raised' \subseteq raised /\ asks' \in Nat /\ asks' <= asks
  <2>1. raised' \subseteq raised
    BY DEF Callbacks, RcStep, CallRunCallbacks, CallbackReturns, TakeDisconnected,
           TellDisconnected, TellReady, NotReady, LookIsOpen, EndFlags, EndFirst, EndReady,
           TellSignal, TellRequest, EndRequests, Return, Go, Tell
  <2>2. asks' = asks \/ (asks > 0 /\ asks' = asks - 1)
    BY <1>0
       DEF Callbacks, RcStep, CallRunCallbacks, CallbackReturns, TakeDisconnected,
           TellDisconnected, TellReady, NotReady, LookIsOpen, EndFlags, EndFirst, EndReady,
           TellSignal, TellRequest, EndRequests, Return, Go, Tell
  <2> QED BY <1>0, <2>1, <2>2
<1>3. SignalsAreSpent'
  <2>1. CASE \E s \in Signals : TellSignal(s)
    <3>1. PICK s \in Signals : TellSignal(s)
      BY <2>1
    <3>2. /\ rcPc = s /\ raised' = raised \ {s} /\ Phase' = After(s)
          /\ Phase = s
      BY <3>1 DEF TellSignal, Fire, Phase, After, Signals
    <3> QED BY <1>0, <1>2, <3>2 DEF SignalsAreSpent, After, Signals
  <2>2. CASE EndRequests
    <3>1. Phase = "joinRequest" /\ Phase' = "last" /\ asks = 0
      BY <2>2 DEF EndRequests, Go, Phase
    <3> QED BY <1>0, <1>2, <3>1 DEF SignalsAreSpent
  <2>3. CASE ~EndRequests /\ ~\E s \in Signals : TellSignal(s)
    <3>1. Phase' = Phase \/ Phase' \in {"idle", "flags", "isOpen", "first", "ready", "errored"}
      BY <2>3
         DEF Callbacks, RcStep, CallRunCallbacks, CallbackReturns, TakeDisconnected,
             TellDisconnected, TellReady, NotReady, LookIsOpen, EndFlags, EndFirst, EndReady,
             TellRequest, Return, Go, Tell, Fire, Phase, SnapshotIsCurrent
    <3> QED BY <1>0, <1>2, <3>1 DEF SignalsAreSpent
  <2> QED BY <2>1, <2>2, <2>3
\* The source of a signal is dismissed after it has been told.
<1>4. ASSUME Pending, SomeoneKnown, Pending' PROVE SomeoneKnown'
  <2>1. PICK c \in connections : justConn[c] \/ Ready(c)
    BY <1>4 DEF SomeoneKnown
  <2>2. Tale(c) /\ c \in Conns
    BY <2>1 DEF Coherent, Tales
  <2>3. ASSUME NEW d \in Conns, TellDisconnected(d) PROVE justConn'[c] \/ Ready(c)'
    <3>1. /\ rcPc \in {"first", "last"} /\ d \in rcTodo /\ Tell(d, "disconnected")
          /\ justConn' = justConn /\ "disconnected" \in Bookends
      BY <2>3 DEF TellDisconnected, Bookends
    <3>2. rcPc = "first"
      <4>1. SUFFICES ASSUME rcPc = "last" PROVE FALSE
        BY <3>1
      <4>2. "joinGame" \notin raised /\ "spectateGame" \notin raised /\ asks = 0
        BY <1>0, <4>1 DEF SignalsAreSpent, Phase
      <4> QED BY <1>0, <1>4, <4>2 DEF Pending, Signals, Subscribable
    <3>3. c # d => Ready(c)' = Ready(c)
      BY <2>1, <3>1, TellFacts
    <3>4. c = d => justConn[c]
      BY <2>2, <3>1, <3>2 DEF Tale, Phase, Collected, TookEnd, Agrees
    <3> QED BY <2>1, <3>1, <3>3, <3>4
  <2>4. ASSUME NEW d \in Conns, TellReady(d) PROVE justConn'[c] \/ Ready(c)'
    <3>1. /\ rcPc = "ready" /\ d \in rcTodo /\ Tell(d, "ready") /\ justConn[d]
          /\ justConn' = [justConn EXCEPT ![d] = FALSE] /\ "ready" \in Bookends
      BY <2>4 DEF TellReady, Bookends
    <3>2. d \in connections
      BY <1>0, <2>1, <3>1 DEF SnapshotIsCurrent
    <3>3. handlers # {}
      BY <1>0, <3>1, <3>2 DEF HandlersAreSet, SnapshotIsCurrent
    <3>4. /\ c # d => Ready(c)' = Ready(c)
          /\ c = d => Ready(c)'
      BY <2>1, <3>1, <3>3, TellFacts
    <3>5. c # d => justConn'[c] = justConn[c]
      BY <2>2, <3>1
    <3> QED BY <2>1, <3>4, <3>5
  <2>5. ASSUME ~\E d \in Conns : TellDisconnected(d) \/ TellReady(d)
        PROVE  justConn'[c] \/ Ready(c)'
    <3>1. UNCHANGED <<told, justConn>>
      BY <2>5
         DEF Callbacks, RcStep, CallRunCallbacks, CallbackReturns, TakeDisconnected, NotReady,
             LookIsOpen, EndFlags, EndFirst, EndReady, TellSignal, TellRequest, EndRequests,
             Return, Go
    <3>2. Ready(c)' = Ready(c)
      BY <3>1 DEF Ready
    <3>3. justConn'[c] = justConn[c]
      BY <3>1
    <3> QED BY <2>1, <3>2, <3>3
  <2> QED BY <2>1, <2>3, <2>4, <2>5 DEF SomeoneKnown
<1>5. SignalsHaveSource'
  <2>1. Pending' => Pending
    BY <1>0, <1>2 DEF Pending
  <2> QED BY <1>0, <1>4, <2>1 DEF SignalsHaveSource
\* A signal is told after its source has been announced.
<1>6. BookEnded'
  <2>1. SUFFICES ASSUME rcPc' = "callback", rcWhat' \in Subscribable
                 PROVE  \E p \in Paths : told'[p] = "ready"
    BY DEF BookEnded
  <2>2. TellRequest \/ \E s \in Signals : TellSignal(s)
    BY <1>0, <2>1
       DEF Callbacks, RcStep, CallRunCallbacks, CallbackReturns, TakeDisconnected,
           TellDisconnected, TellReady, NotReady, LookIsOpen, EndFlags, EndFirst, EndReady,
           EndRequests, Return, Go, Tell, Fire, Subscribable, SnapshotIsCurrent, Afterwards
  <2>3. /\ Pending /\ handlers # {} /\ told' = told /\ rcPc \in Afterwards
    BY <2>1, <2>2 DEF TellRequest, TellSignal, Fire, After, Signals, Afterwards, Pending
  <2>4. SomeoneKnown
    BY <1>0, <2>3 DEF SignalsHaveSource, SnapshotIsCurrent, Afterwards
  <2>5. PICK c \in connections : justConn[c] \/ Ready(c)
    BY <2>4 DEF SomeoneKnown
  <2>6. Announced(c)
    BY <2>3 DEF Coherent, Tales, Tale, Phase, Afterwards
  <2> QED BY <2>3, <2>5, <2>6, PathType DEF Announced, Ready
<1> QED BY <1>1, <1>3, <1>5, <1>6 DEF SignalsInside

LEMMA SignalsIo ==
    ASSUME Listening, Patient, TypeOK, RunsOnlyWhenAsked, Coherent, SignalsInside, IoStep
    PROVE  SignalsInside'
<1> USE IoFacts
<1>0. SignalsHaveSource /\ TickIsLocal
  BY DEF SignalsInside, Coherent
<1>1. /\ opPc' # "join" /\ opPc' # "lock"
      /\ SignalsAreSpent' /\ BookEnded'
  BY DEF SignalsAreSpent, BookEnded, opVars, rcVars
<1>2. CASE AnyTick
  <2>1. /\ \A c \in connections : c \in connections' /\ justConn'[c] = justConn[c]
        /\ UNCHANGED <<raised, asks, handlers>> /\ ioPc = "tick"
    BY <1>2, TickFacts DEF Refresh, queues, handling
  <2>2. \A c \in connections : Ready(c)' = Ready(c)
    BY DEF Ready, rcVars
  <2> QED BY <1>0, <1>1, <2>1, <2>2 DEF SignalsInside, SignalsHaveSource, SomeoneKnown, Pending
<1>3. CASE (\E s \in Incoming : ReadSignal(s)) \/ ReadRequest
  <2>1. /\ ioPc = "read" /\ ioCur \in connections /\ Up(ioCur)
        /\ UNCHANGED <<connections, justConn, told>>
    BY <1>0, <1>3
       DEF ReadSignal, ReadRequest, TickIsLocal, InTick, globals, conns, flags, rcVars
  <2>2. AtRest(ioCur)
    BY <2>1 DEF Coherent, Tales, Tale
  <2>3. justConn[ioCur] \/ Ready(ioCur)
    BY <2>1, <2>2 DEF AtRest, Opening, Closing, Agrees
  <2>4. SomeoneKnown'
    BY <2>1, <2>3 DEF SomeoneKnown, Ready
  <2> QED BY <1>1, <2>4 DEF SignalsInside, SignalsHaveSource
<1>4. CASE ConnectHandlers
  <2>1. ioPc' = "greet" /\ UNCHANGED <<connections, justConn, told, raised, asks>>
    BY <1>4 DEF ConnectHandlers, globals, queues, conns, flags, rcVars
  <2> QED BY <1>0, <1>1, <2>1
          DEF SignalsInside, SignalsHaveSource, SomeoneKnown, Pending, Ready
<1>5. ASSUME NEW u, ConnectUser(u) PROVE SignalsInside'
  <2>1. /\ justConn' = [justConn EXCEPT ![ioCur] = TRUE] /\ ioCur \in connections
        /\ connections' = connections
    BY <1>0, <1>5 DEF ConnectUser, TickIsLocal, InTick, globals
  <2>2. SomeoneKnown'
    <3>1. justConn'[ioCur]
      BY <2>1
    <3> QED BY <2>1, <3>1 DEF SomeoneKnown
  <2> QED BY <1>1, <2>2 DEF SignalsInside, SignalsHaveSource
<1>6. CASE ~AnyTick /\ ~ConnectHandlers /\ ~ReadRequest
           /\ ~(\E s \in Incoming : ReadSignal(s)) /\ ~\E u \in Users \cup {NoUser} : ConnectUser(u)
  <2>1. /\ UNCHANGED <<connections, handlers, raised, asks, justConn, told>>
        /\ ioPc \in {"greet", "user"} => ioPc' = "user"
    BY <1>6
       DEF IoStep, OpenLater, OpenSendsHandshake, OpenGetsReady, OpenLosesHandshake,
           StartReading, SendMessage, SendFails, SkipClosed, ConnectLocks, Lock, ConnectPresence,
           Closed, ReadNothing, ReadFails, TakeUpdate, CopyPresence,
           WritePresence, WritePresenceFails, Requeue, TakeMessage, EndTick, AllServed, Lose,
           Take, Addressed, globals, handling, queues, conns, flags, ioVars, rcVars
  <2> QED BY <1>0, <1>1, <2>1
          DEF SignalsInside, SignalsHaveSource, SomeoneKnown, Pending, Ready
<1> QED BY <1>2, <1>3, <1>4, <1>5, <1>6

LEMMA SignalsApi ==
    ASSUME Listening, Patient, TypeOK, RunsOnlyWhenAsked, Coherent, SignalsInside, ApiCall \/ ApiStep
    PROVE  SignalsInside'
<1>0. SignalsHaveSource /\ HandlersAreSet /\ SignalsAreSpent /\ BookEnded /\ SnapshotIsCurrent
  BY DEF SignalsInside, Coherent
<1>1. UNCHANGED <<raised, asks, rcPc, rcBack, rcWhat>>
  BY DEF ApiCall, UpdatePresence, UpdatePresenceForUser, Respond, UpdateHandlers, ClearHandlers,
         Initialize, Shutdown, ApiStep, FindUser, SetPresence, SetPresenceForUser, Store, PassOver,
         PresenceSet, RespondReserves, RespondCommits, Lock, SetHandlers, HandlersUpdated,
         UpdateHandlersLocked, InitializeLocked, ShutdownJoined, queues, rcVars
<1>2. /\ opPc' = "join" => "Shutdown" \in Calls /\ rcPc' = "idle"
      /\ opPc' = "lock" => "UpdateHandlers" \in Calls \cup CallbackCalls
  <2>1. CASE Shutdown
    BY <2>1, <1>1 DEF Shutdown, MayCall, Begin, Patient
  <2>2. CASE \E new \in HandlerSets : UpdateHandlers(new)
    BY <2>2 DEF UpdateHandlers, MayCall, Begin
  <2>3. CASE ~Shutdown /\ ~\E new \in HandlerSets : UpdateHandlers(new)
    BY <2>3
       DEF ApiCall, UpdatePresence, UpdatePresenceForUser, Respond, ClearHandlers, Initialize,
           ApiStep, FindUser, SetPresence, SetPresenceForUser, Store, PassOver,
           PresenceSet, RespondReserves, RespondCommits, Lock, SetHandlers, HandlersUpdated,
           UpdateHandlersLocked, InitializeLocked, ShutdownJoined, MayCall, End, Begin, opVars,
           SignalsInside, Listening
  <2> QED BY <2>1, <2>2, <2>3
<1>3. SignalsAreSpent'
  BY <1>0, <1>1 DEF SignalsAreSpent, Phase
<1>4. CASE ShutdownJoined
  <2>1. rcPc = "idle" /\ "Shutdown" \in Calls /\ handlers' = {}
    BY <1>0, <1>4 DEF ShutdownJoined, SignalsInside, HandlersAreSet, handling
  <2> QED BY <1>1, <1>2, <1>3, <2>1 DEF SignalsInside, SignalsHaveSource, BookEnded
<1>5. CASE ~ShutdownJoined
  <2>1. UNCHANGED <<connections, justConn, told>>
    BY <1>5
       DEF ApiCall, UpdatePresence, UpdatePresenceForUser, Respond, UpdateHandlers, ClearHandlers,
           Initialize, Shutdown, ApiStep, FindUser, SetPresence, SetPresenceForUser, Store, PassOver,
           PresenceSet, RespondReserves, RespondCommits, Lock, SetHandlers, HandlersUpdated,
           UpdateHandlersLocked, InitializeLocked, ConnsUnchanged, globals, conns, flags, rcVars
  <2>2. SomeoneKnown' = SomeoneKnown /\ Pending' = Pending /\ BookEnded'
    BY <1>0, <1>1, <2>1 DEF SomeoneKnown, Ready, Pending, BookEnded
  <2>3. SignalsHaveSource'
    <3>1. CASE HandlersUpdated
      <4>1. "Shutdown" \notin Calls
        BY <3>1 DEF HandlersUpdated, SignalsInside, Patient
      <4> QED BY <1>0, <2>2, <4>1 DEF SignalsHaveSource
    <3>2. CASE InitializeLocked
      <4>1. handlers' = {} /\ connections = {}
        BY <1>0, <3>2 DEF InitializeLocked, HandlersAreSet
      <4> QED BY <1>0, <2>2, <4>1 DEF SignalsHaveSource, SomeoneKnown
    <3>3. CASE Shutdown
      <4>1. handlers' = {} /\ "Shutdown" \in Calls
        BY <3>3 DEF Shutdown, MayCall, Patient
      <4> QED BY <4>1 DEF SignalsHaveSource
    <3>4. CASE ~HandlersUpdated /\ ~InitializeLocked /\ ~Shutdown
      <4>1. UNCHANGED <<handlers, ioPc>>
        BY <1>5, <3>4
           DEF ApiCall, UpdatePresence, UpdatePresenceForUser, Respond, UpdateHandlers, ClearHandlers,
               Initialize, ApiStep, FindUser, SetPresence, SetPresenceForUser, Store, PassOver,
               PresenceSet, RespondReserves, RespondCommits, Lock, SetHandlers, HandlersUpdated,
               UpdateHandlersLocked, MayCall, Listening, handling, ioVars
      <4> QED BY <1>0, <2>2, <4>1 DEF SignalsHaveSource
    <3> QED BY <3>1, <3>2, <3>3, <3>4
  <2> QED BY <1>2, <1>3, <2>2, <2>3 DEF SignalsInside
<1> QED BY <1>4, <1>5

LEMMA SignalsStep ==
    ASSUME Listening, Patient
    PROVE  TypeOK /\ RunsOnlyWhenAsked /\ Coherent /\ SignalsInside /\ [Next]_vars
             => SignalsInside'
<1> SUFFICES ASSUME TypeOK, RunsOnlyWhenAsked, Coherent, SignalsInside, [Next]_vars
             PROVE  SignalsInside'
  OBVIOUS
<1>1. CASE Callbacks
  BY <1>1, SignalsCallback
<1>2. CASE IoStep
  BY <1>2, SignalsIo
<1>3. CASE ApiCall \/ ApiStep
  BY <1>3, SignalsApi
<1>4. CASE Client
  BY <1>4 DEF Client, ClientLeaves, ClientComes, Listening, Coherent, PathsKnown
<1>5. CASE UNCHANGED vars
  BY <1>5 DEF SignalsInside, SignalsHaveSource, SignalsAreSpent, BookEnded, SomeoneKnown, Pending,
              Ready, Phase, vars, globals, handling, queues, conns, flags, ioVars, rcVars, opVars
<1>6. CASE RegistrationStep
  BY <1>6, RegistrationFrame
     DEF Registering, SignalsInside, SignalsHaveSource, SignalsAreSpent, BookEnded, SomeoneKnown,
         Pending, Ready, Phase, globals, conns, flags, ioVars, rcVars, opVars
<1> QED BY <1>1, <1>2, <1>3, <1>4, <1>5, <1>6 DEF Next, Callbacks

\* In a build without an IO thread a join, spectate or join request callback
\* comes while some client is known to be ready: it is told after the ready of
\* the client it came from and before its disconnected, whatever number of
\* clients come and go and however full the queue of requests is
\* (discord_rpc.cpp:565, 607-673).
THEOREM SignalsAreBookEnded ==
    ASSUME Listening, Patient
    PROVE  Spec => []BookEnded
<1>1. Init => RunsOnlyWhenAsked
  BY DEF Init, RunsOnlyWhenAsked
<1>2. SignalsInside => BookEnded
  BY DEF SignalsInside
<1> QED BY <1>1, <1>2, CoherentInit, CoherentStep, SignalsInit, SignalsStep, TypeCorrect, RunsStep,
           PTL DEF Spec
=============================================================================
