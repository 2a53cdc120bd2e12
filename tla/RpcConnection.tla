--------------------------- MODULE RpcConnection ----------------------------
(***************************************************************************)
(* RpcConnection (rpc_connection.cpp) on top of a BaseConnection: the      *)
(* handshake, the frame loop of Read, Write, Close and Destroy, against a  *)
(* Discord client that sends frames, may send the header of a frame before *)
(* its body, and may close the pipe at any moment.                         *)
(*                                                                         *)
(* Read is a loop and runs step by step, frame by frame: the client acts   *)
(* between two frames, and so does a failing pong.  Everything here runs   *)
(* on the IO thread, one call at a time; `reading` says which call of Read *)
(* is under way.  Header bytes are taken as arriving together.             *)
(***************************************************************************)
EXTENDS Naturals, Sequences

CONSTANT MaxInbox   \* bound on the frames that wait in the pipe
ASSUME InboxAssumption == MaxInbox \in Nat

VARIABLES
    state,          \* RpcConnection::state
    isOpen,         \* BaseConnection::isOpen
    lastErrorCode,  \* RpcConnection::lastErrorCode
    reading,        \* "no", or who called Read: "Open" or the "owner"
    inbox,          \* frames the client sent on this pipe and Read has not taken
    peer,           \* the client's end of the pipe: "none", "open" or "gone"
    readies,        \* calls of onConnect since the pipe was opened
    notices,        \* calls of onDisconnect since the pipe was opened
    used            \* a handshake was sent since Create

events == <<readies, notices, used>>
vars == <<state, isOpen, lastErrorCode, reading, inbox, peer, events>>

States == {"Disconnected", "SentHandshake", "Connected"}
ErrorCodes == {"Success", "PipeClosed", "ReadCorrupt", "CloseFrame"}

\* What Read distinguishes: the opcodes, and READY among the Frame messages.
Kinds == {"READY", "Frame", "Close", "Ping", "Pong", "Bad"}
Frames == [kind : Kinds, whole : BOOLEAN]

Fresh ==
    /\ state = "Disconnected"
    /\ isOpen = FALSE
    /\ lastErrorCode = "Success"
    /\ reading = "no"
    /\ inbox = <<>>
    /\ peer = "none"
    /\ readies = 0
    /\ notices = 0
    /\ used = FALSE

Init == Fresh

-----------------------------------------------------------------------------
\* Mutant of Notified: Close does not look at the state.
NotifiedAlways == notices' = notices + 1

\* Close reports the end of a session, never of an idle connection.
Notified ==
    notices' = IF state \in {"Connected", "SentHandshake"} THEN notices + 1 ELSE notices

\* Mutant of Close: the state is not reset.
CloseKeepsState ==
    /\ Notified
    /\ isOpen' = FALSE
    /\ inbox' = <<>>
    /\ peer' = "none"
    /\ UNCHANGED <<state, readies, used>>

\* RpcConnection::Close: the pipe goes, and the frames in it.
Close ==
    /\ Notified
    /\ state' = "Disconnected"
    /\ isOpen' = FALSE
    /\ inbox' = <<>>
    /\ peer' = "none"
    /\ UNCHANGED <<readies, used>>

\* Open on a disconnected connection: the pipe opens and the handshake is
\* written.  (If either fails, Open leaves no trace.)
OpenSendsHandshake ==
    /\ reading = "no"
    /\ state = "Disconnected"
    /\ state' = "SentHandshake"
    /\ isOpen' = TRUE
    /\ peer' = "open"
    /\ readies' = 0
    /\ notices' = 0
    /\ used' = TRUE
    /\ UNCHANGED <<lastErrorCode, reading, inbox>>

\* Open while the handshake is out: look for the answer.
OpenReads ==
    /\ reading = "no"
    /\ state = "SentHandshake"
    /\ reading' = "Open"
    /\ UNCHANGED <<state, isOpen, lastErrorCode, inbox, peer, events>>

\* The owner reads when IsOpen.
OwnerReads ==
    /\ reading = "no"
    /\ state = "Connected"
    /\ reading' = "owner"
    /\ UNCHANGED <<state, isOpen, lastErrorCode, inbox, peer, events>>

-----------------------------------------------------------------------------
(***************************************************************************)
(* The loop of Read.                                                       *)
(***************************************************************************)
Fails(code) ==
    /\ lastErrorCode' = code
    /\ Close
    /\ reading' = "no"

Top == Head(inbox)
Reads(kind) ==
    /\ reading # "no"
    /\ inbox # <<>>
    /\ Top.whole
    /\ Top.kind = kind

\* Mutant of EndOfPipe: end of file is taken for "nothing yet".
EndOfPipeUnseen == ~isOpen
EndOfPipe == peer = "gone" \/ ~isOpen

\* Nothing to read yet.
ReadNothing ==
    /\ reading # "no"
    /\ inbox = <<>> /\ ~EndOfPipe
    /\ reading' = "no"
    /\ UNCHANGED <<state, isOpen, lastErrorCode, inbox, peer, events>>

\* The client is gone, or the loop comes back after a pong that failed.
ReadOnClosed ==
    /\ reading # "no"
    /\ inbox = <<>> /\ EndOfPipe
    /\ Fails("PipeClosed")

\* A header without its body.
ReadPartialFrame ==
    /\ reading # "no"
    /\ inbox # <<>> /\ ~Top.whole
    /\ Fails("ReadCorrupt")

ReadClose == Reads("Close") /\ Fails("CloseFrame")

ReadBad == Reads("Bad") /\ Fails("ReadCorrupt")

ReadPong ==
    /\ Reads("Pong")
    /\ inbox' = Tail(inbox)
    /\ UNCHANGED <<state, isOpen, lastErrorCode, reading, peer, events>>

ReadPing ==
    /\ Reads("Ping")
    /\ inbox' = Tail(inbox)
    /\ UNCHANGED <<state, isOpen, lastErrorCode, reading, peer, events>>

\* The pong cannot be written: Close, and the loop goes on.
ReadPingPongFails ==
    /\ Reads("Ping")
    /\ Close
    /\ UNCHANGED <<lastErrorCode, reading>>

\* Mutant of Answers: strcmp taken the wrong way round.
AnswersOther(kind) == kind = "Frame"
Answers(kind) == kind = "READY"

\* A message for Open: READY completes the handshake, any other is dropped.
ReadAnswer ==
    /\ reading = "Open"
    /\ \E kind \in {"READY", "Frame"} :
        /\ Reads(kind)
        /\ state' = IF Answers(kind) THEN "Connected" ELSE state
        /\ readies' = IF Answers(kind) THEN readies + 1 ELSE readies
    /\ inbox' = Tail(inbox)
    /\ reading' = "no"
    /\ UNCHANGED <<isOpen, lastErrorCode, peer, notices, used>>

\* A message for the owner.
ReadMessage ==
    /\ reading = "owner"
    /\ Reads("READY") \/ Reads("Frame")
    /\ inbox' = Tail(inbox)
    /\ reading' = "no"
    /\ UNCHANGED <<state, isOpen, lastErrorCode, peer, events>>

ReadStep ==
    \/ ReadNothing
    \/ ReadOnClosed
    \/ ReadPartialFrame
    \/ ReadClose
    \/ ReadBad
    \/ ReadPong
    \/ ReadPing
    \/ ReadPingPongFails
    \/ ReadAnswer
    \/ ReadMessage

-----------------------------------------------------------------------------
\* A Write that fails closes the session; one that succeeds leaves no trace.
WriteFails ==
    /\ reading = "no"
    /\ state = "Connected"
    /\ Close
    /\ UNCHANGED <<lastErrorCode, reading>>

\* ~PerConnectionState clears the callbacks, then Destroy closes without a
\* notice; a later AddConnection creates the connection anew.
DestroyAndCreate ==
    /\ reading = "no"
    /\ state' = "Disconnected"
    /\ isOpen' = FALSE
    /\ lastErrorCode' = "Success"
    /\ inbox' = <<>>
    /\ peer' = "none"
    /\ readies' = 0
    /\ notices' = 0
    /\ used' = FALSE
    /\ UNCHANGED reading

-----------------------------------------------------------------------------
(***************************************************************************)
(* The client at the other end.  A frame whose body has not arrived is the *)
(* last thing in the pipe.                                                 *)
(***************************************************************************)
LastIsWhole == inbox # <<>> => inbox[Len(inbox)].whole

ClientSends(f) ==
    /\ peer = "open"
    /\ Len(inbox) < MaxInbox
    /\ LastIsWhole
    /\ inbox' = Append(inbox, f)
    /\ UNCHANGED <<state, isOpen, lastErrorCode, reading, peer, events>>

ClientSendsRest ==
    /\ peer = "open"
    /\ ~LastIsWhole
    /\ inbox' = [inbox EXCEPT ![Len(inbox)].whole = TRUE]
    /\ UNCHANGED <<state, isOpen, lastErrorCode, reading, peer, events>>

ClientCloses ==
    /\ peer = "open"
    /\ peer' = "gone"
    /\ UNCHANGED <<state, isOpen, lastErrorCode, reading, inbox, events>>

Client ==
    \/ \E f \in Frames : ClientSends(f)
    \/ ClientSendsRest
    \/ ClientCloses

Next ==
    \/ OpenSendsHandshake
    \/ OpenReads
    \/ OwnerReads
    \/ ReadStep
    \/ WriteFails
    \/ DestroyAndCreate
    \/ Client

\* The IO thread calls Open or Read on every connection in every tick, at the
\* latest 500 ms after the last one, and a call of Read runs on.
Fairness ==
    /\ WF_vars(OpenReads)
    /\ WF_vars(OwnerReads)
    /\ WF_vars(ReadStep)

Spec == Init /\ [][Next]_vars /\ Fairness

-----------------------------------------------------------------------------
TypeOK ==
    /\ state \in States
    /\ isOpen \in BOOLEAN
    /\ lastErrorCode \in ErrorCodes
    /\ reading \in {"no", "Open", "owner"}
    /\ inbox \in Seq(Frames)
    /\ peer \in {"none", "open", "gone"}
    /\ readies \in 0 .. 1
    /\ notices \in 0 .. 1
    /\ used \in BOOLEAN

\* The pipe is open exactly during a session, and a Read that goes on without
\* a session is the one whose pong failed; Open never reads on a connection
\* that is already ready (rpc_connection.cpp:22-46, 82-137).
SessionMatchesPipe ==
    /\ isOpen <=> state # "Disconnected"
    /\ isOpen <=> peer # "none"
    /\ ~isOpen => inbox = <<>>
    /\ reading = "Open" => state \in {"SentHandshake", "Disconnected"}
    /\ reading = "owner" => state \in {"Connected", "Disconnected"}

\* The connection implements the abstract session: one onConnect per session,
\* and never before READY was asked for; exactly one onDisconnect per session
\* that ends, whatever ends it, a pong that fails in the middle of Read
\* included; no onDisconnect without a session (rpc_connection.cpp:61-68).
Status ==
    CASE state = "SentHandshake" -> "handshaking"
      [] state = "Connected" -> "up"
      [] state = "Disconnected" -> IF used THEN "down" ELSE "none"
Session == INSTANCE RpcSession WITH status <- Status
IsSession == Session!Spec

\* A client that closes its end is noticed: the session ends, with its notice
\* (rpc_connection.cpp:89-97).
GoneIsNoticed == (peer = "gone") ~> (peer # "gone")

\* The answer to the handshake is heard: once READY is first in the pipe the
\* session becomes ready, or ends (rpc_connection.cpp:34-46).
ReadyIsHeard ==
    (state = "SentHandshake" /\ inbox # <<>> /\ Top = [kind |-> "READY", whole |-> TRUE])
        ~> (state # "SentHandshake")
=============================================================================
