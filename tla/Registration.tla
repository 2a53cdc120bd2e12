---------------------------- MODULE Registration ----------------------------
(***************************************************************************)
(* Discord_UpdateHandlers, once its caller holds HandlerMutex: the         *)
(* application, or the IO thread in onConnect.  It looks at one event      *)
(* after the other; where a handler appears or disappears it reserves a    *)
(* slot of SendQueue, writes the command there and commits it, or drops    *)
(* the command when there is no room.                                      *)
(*                                                                         *)
(* HandlerMutex keeps other callers of Discord_UpdateHandlers out.  It     *)
(* does not keep out Discord_Respond, the other producer of SendQueue, nor *)
(* Discord_Shutdown, which clears Handlers, nor the thread that sends.     *)
(***************************************************************************)
EXTENDS DiscordState

Lock(who) ==
    /\ HandlerMutexFree
    /\ updater' = who
    /\ UNCHANGED <<handlers, queuedHandlers, regPc, regNext>>

New == IF updater = "io" THEN queuedHandlers ELSE opArg

\* The event it has come to has a handler on one side only.
Changes == (Events[regNext] \in handlers) # (Events[regNext] \in New)

Registering ==
    /\ updater # "nobody"
    /\ UNCHANGED <<globals, handlers, queuedHandlers, updater, raised, asks, conns, clients,
                   ioVars, rcVars, opVars>>

\* GetNextAddMessage, or on to the next event.
LookAtEvent ==
    /\ Registering
    /\ regPc = "look" /\ regNext <= Len(Events)
    /\ IF Changes /\ Room THEN regPc' = "commit" /\ UNCHANGED regNext
                          ELSE regNext' = regNext + 1 /\ UNCHANGED regPc
    /\ UNCHANGED sendQueue

\* CommitAdd.
CommitEvent ==
    /\ Registering
    /\ regPc = "commit"
    /\ sendQueue' = sendQueue + 1
    /\ regPc' = "look"
    /\ regNext' = regNext + 1

\* Every event has been looked at: Handlers is set and HandlerMutex released.
SetHandlers(who) ==
    /\ updater = who
    /\ regPc = "look" /\ regNext > Len(Events)
    /\ handlers' = New
    /\ updater' = "nobody"
    /\ regNext' = 1
    /\ UNCHANGED <<queuedHandlers, regPc>>

RegistrationStep == LookAtEvent \/ CommitEvent
=============================================================================
