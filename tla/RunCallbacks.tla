---------------------------- MODULE RunCallbacks ----------------------------
(***************************************************************************)
(* Discord_RunCallbacks, called again and again by the application.        *)
(*                                                                         *)
(* rcPc: "flags" and "isOpen" read two facts of each connection, one after *)
(* the other; "first", "ready", "errored", "joinGame", "spectateGame",     *)
(* "joinRequest" and "last" are the phases that follow, each of which      *)
(* calls a handler zero or more times; "callback" is a handler running,    *)
(* with HandlerMutex held, before the phase rcBack goes on.                *)
(***************************************************************************)
EXTENDS DiscordState

\* Leave the IO thread and its clients alone.
IoUnchanged == UNCHANGED <<globals, handling, sendQueue, rpc, upd, queued, user, clients,
                           ioVars, opVars>>

CallRunCallbacks ==
    /\ "RunCallbacks" \in Calls
    /\ AppIdle
    /\ Threaded \/ ioPc = "tick"
    /\ initialized
    /\ connections # {}
    /\ rcSnap' = connections
    /\ rcTodo' = connections
    /\ rcPc' = "flags"
    /\ IoUnchanged
    /\ UNCHANGED <<raised, asks, justConn, justDisc, rcCur, rcWas, rcOpen, rcBack, rcWhat, told>>

\* Mutant of TakeDisconnected: the other flag is cleared with it.
TakeBothFlags(c) ==
    /\ rcPc = "flags"
    /\ c \in rcTodo
    /\ rcWas' = IF justDisc[c] THEN rcWas \cup {c} ELSE rcWas
    /\ justDisc' = [justDisc EXCEPT ![c] = FALSE]
    /\ justConn' = [justConn EXCEPT ![c] = @ /\ ~justDisc[c]]
    /\ rcCur' = c
    /\ rcPc' = "isOpen"
    /\ IoUnchanged
    /\ UNCHANGED <<raised, asks, rcSnap, rcTodo, rcOpen, rcBack, rcWhat, told>>

TakeDisconnected(c) ==
    /\ rcPc = "flags"
    /\ c \in rcTodo
    /\ rcWas' = IF justDisc[c] THEN rcWas \cup {c} ELSE rcWas
    /\ justDisc' = [justDisc EXCEPT ![c] = FALSE]
    /\ rcCur' = c
    /\ rcPc' = "isOpen"
    /\ IoUnchanged
    /\ UNCHANGED <<raised, asks, justConn, rcSnap, rcTodo, rcOpen, rcBack, rcWhat, told>>

LookIsOpen ==
    /\ rcPc = "isOpen"
    /\ rcOpen' = IF rpc[rcCur] = "Connected" THEN rcOpen \cup {rcCur} ELSE rcOpen
    /\ rcTodo' = rcTodo \ {rcCur}
    /\ rcCur' = NoConn
    /\ rcPc' = "flags"
    /\ IoUnchanged
    /\ UNCHANGED <<raised, asks, justConn, justDisc, rcSnap, rcWas, rcBack, rcWhat, told>>

-----------------------------------------------------------------------------
\* A phase ends and the next one begins, over the connections `todo`.
Go(phase, todo) ==
    /\ rcPc' = phase
    /\ rcTodo' = todo
    /\ IoUnchanged
    /\ UNCHANGED <<raised, asks, justConn, justDisc, rcSnap, rcCur, rcBack, rcWhat, told>>

\* Mutants of ToldFirst: every end is told first, or last.
ToldFirstAll == rcWas
ToldFirstNone == {}
\* Whose end is told before its new beginning; the others' is told last.
ToldFirst == rcWas \cap rcOpen

EndFlags == rcPc = "flags" /\ rcTodo = {} /\ Go("first", ToldFirst) /\ UNCHANGED <<rcWas, rcOpen>>

EndFirst == rcPc = "first" /\ rcTodo = {} /\ Go("ready", rcSnap) /\ UNCHANGED <<rcWas, rcOpen>>

EndReady == rcPc = "ready" /\ rcTodo = {} /\ Go("errored", {}) /\ UNCHANGED <<rcWas, rcOpen>>

EndRequests ==
    /\ rcPc = "joinRequest"
    /\ asks = 0
    /\ Go("last", rcWas \ ToldFirst)
    /\ UNCHANGED <<rcWas, rcOpen>>

Return ==
    /\ rcPc = "last"
    /\ rcTodo = {}
    /\ rcPc' = "idle"
    /\ rcSnap' = {}
    /\ rcWas' = {}
    /\ rcOpen' = {}
    /\ IoUnchanged
    /\ UNCHANGED <<raised, asks, justConn, justDisc, rcTodo, rcCur, rcBack, rcWhat, told>>

-----------------------------------------------------------------------------
\* With HandlerMutex, call a handler, if it is set, and continue with phase `back`.
Fire(what, back) ==
    /\ HandlerMutexFree
    /\ IF what \in handlers
       THEN rcPc' = "callback" /\ rcBack' = back /\ rcWhat' = what
       ELSE rcPc' = back /\ UNCHANGED <<rcBack, rcWhat>>

Tell(c, what) ==
    /\ Fire(what, rcPc)
    /\ rcTodo' = rcTodo \ {c}
    /\ told' = IF what \in handlers THEN [told EXCEPT ![PathOf(c)] = what] ELSE told
    /\ IoUnchanged
    /\ UNCHANGED <<raised, asks, justDisc, rcSnap, rcCur, rcWas, rcOpen>>

TellDisconnected(c) ==
    /\ rcPc \in {"first", "last"}
    /\ c \in rcTodo
    /\ Tell(c, "disconnected")
    /\ UNCHANGED justConn

TellReady(c) ==
    /\ rcPc = "ready"
    /\ c \in rcTodo
    /\ justConn[c]
    /\ justConn' = [justConn EXCEPT ![c] = FALSE]
    /\ Tell(c, "ready")

NotReady(c) ==
    /\ rcPc = "ready"
    /\ c \in rcTodo
    /\ ~justConn[c]
    /\ rcTodo' = rcTodo \ {c}
    /\ IoUnchanged
    /\ UNCHANGED <<raised, asks, justConn, justDisc,
                   rcPc, rcSnap, rcCur, rcWas, rcOpen, rcBack, rcWhat, told>>

After(signal) ==
    CASE signal = "errored" -> "joinGame"
      [] signal = "joinGame" -> "spectateGame"
      [] signal = "spectateGame" -> "joinRequest"

TellSignal(s) ==
    /\ rcPc = s
    /\ IF s \in raised THEN Fire(s, After(s))
                       ELSE rcPc' = After(s) /\ UNCHANGED <<rcBack, rcWhat>>
    /\ raised' = raised \ {s}
    /\ IoUnchanged
    /\ UNCHANGED <<asks, justConn, justDisc, rcSnap, rcTodo, rcCur, rcWas, rcOpen, told>>

\* The request stays in JoinAskQueue while its handler runs.
TellRequest ==
    /\ rcPc = "joinRequest"
    /\ asks > 0
    /\ Fire("joinRequest", "joinRequest")
    /\ asks' = IF "joinRequest" \in handlers THEN asks ELSE asks - 1
    /\ IoUnchanged
    /\ UNCHANGED <<raised, justConn, justDisc, rcSnap, rcTodo, rcCur, rcWas, rcOpen, told>>

\* Mutant of CallbackReturns: JoinAskQueue.CommitSend is forgotten.
CallbackReturnsUncommitted ==
    /\ rcPc = "callback"
    /\ opPc = "idle"
    /\ rcPc' = rcBack
    /\ rcBack' = "idle"
    /\ rcWhat' = "ready"
    /\ IoUnchanged
    /\ UNCHANGED <<raised, asks, justConn, justDisc, rcSnap, rcTodo, rcCur, rcWas, rcOpen, told>>

CallbackReturns ==
    /\ rcPc = "callback"
    /\ opPc = "idle"
    /\ rcPc' = rcBack
    /\ rcBack' = "idle"
    /\ asks' = IF rcWhat = "joinRequest" THEN asks - 1 ELSE asks
    /\ rcWhat' = "ready"
    /\ IoUnchanged
    /\ UNCHANGED <<raised, justConn, justDisc, rcSnap, rcTodo, rcCur, rcWas, rcOpen, told>>

-----------------------------------------------------------------------------
RcStep ==
    \/ \E c \in Conns : TakeDisconnected(c) \/ TellDisconnected(c) \/ TellReady(c) \/ NotReady(c)
    \/ LookIsOpen
    \/ EndFlags
    \/ EndFirst
    \/ EndReady
    \/ \E s \in Signals : TellSignal(s)
    \/ TellRequest
    \/ EndRequests
    \/ Return
=============================================================================
