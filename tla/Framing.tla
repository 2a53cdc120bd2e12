------------------------------ MODULE Framing -------------------------------
(***************************************************************************)
(* RpcConnection with the bytes under it: BaseConnection::Read and Write   *)
(* of connection_unix.cpp and connection_win.cpp.  Read takes the header   *)
(* of a frame and then its body, each with one call of the system, while   *)
(* the client writes its frames in pieces.  A socket hands out what there  *)
(* is, a pipe on Windows is asked first how much that is.                  *)
(*                                                                         *)
(* RpcConnection takes a pipe as a queue of frames, the last of which may  *)
(* lack its body.  Here frames are bytes, and the module is shown to       *)
(* implement RpcConnection.                                                *)
(***************************************************************************)
EXTENDS Naturals, Sequences, FiniteSets

CONSTANTS
    HeaderSize,     \* sizeof(MessageFrameHeader)
    BodySize,       \* of a frame of each kind
    SplitsHeaders,  \* platforms on which clients may write a header in pieces
    MaxFrames       \* bound on the frames in the pipe

VARIABLES
    platform,       \* which of the two implementations was built
    state, isOpen, lastErrorCode, reading, peer, readies, notices, used,
                    \* as in RpcConnection
    wire,           \* bytes in the pipe
    unsent,         \* the bytes of its last frame the client has not written yet
    header,         \* the kind of frame whose header Read has, or NoHeader
    torn            \* the client got a part of a frame

session == <<state, isOpen, lastErrorCode, reading, peer, readies, notices, used>>
vars == <<platform, session, wire, unsent, header, torn>>

Kinds == {"READY", "Frame", "Close", "Ping", "Pong", "Bad"}
NoHeader == "none"
Platforms == {"unix", "windows"}

ASSUME FramingAssumption ==
    /\ HeaderSize \in Nat \ {0}
    /\ BodySize \in [Kinds -> Nat]
    /\ SplitsHeaders \subseteq Platforms
    /\ MaxFrames \in Nat

Size(kind) == HeaderSize + BodySize[kind]

\* Byte i of a frame.
Bytes(kind) == [i \in 1 .. Size(kind) |-> [kind |-> kind, at |-> i]]

\* What the bytes of a header say; anything when they are not those of one.
Says(bytes) ==
    LET kind == bytes[1].kind
    IN  IF bytes = SubSeq(Bytes(kind), 1, HeaderSize) THEN {kind} ELSE Kinds

Fresh ==
    /\ state = "Disconnected"
    /\ isOpen = FALSE
    /\ lastErrorCode = "Success"
    /\ reading = "no"
    /\ peer = "none"
    /\ readies = 0 /\ notices = 0
    /\ used = FALSE

Init ==
    /\ Fresh
    /\ platform \in Platforms
    /\ wire = <<>> /\ unsent = <<>>
    /\ header = NoHeader
    /\ torn = FALSE

-----------------------------------------------------------------------------
PipeGone ==
    /\ isOpen' = FALSE
    /\ peer' = "none"
    /\ wire' = <<>> /\ unsent' = <<>>
    /\ header' = NoHeader

\* Mutant of Notified: Close does not look at the state.
NotifiedAlways == notices' = notices + 1
Notified ==
    notices' = IF state \in {"Connected", "SentHandshake"} THEN notices + 1 ELSE notices

\* RpcConnection::Close
Close ==
    /\ PipeGone
    /\ Notified
    /\ state' = "Disconnected"
    /\ UNCHANGED <<platform, readies, used>>

Fails(code) ==
    /\ Close
    /\ lastErrorCode' = code
    /\ reading' = "no"
    /\ UNCHANGED torn

Open ==
    /\ reading = "no" /\ state = "Disconnected"
    /\ state' = "SentHandshake"
    /\ isOpen' = TRUE
    /\ peer' = "open"
    /\ readies' = 0 /\ notices' = 0
    /\ used' = TRUE
    /\ torn' = FALSE
    /\ UNCHANGED <<platform, lastErrorCode, reading, wire, unsent, header>>

\* Open and the owner call Read.
BeginRead ==
    /\ reading = "no"
    /\ \/ state = "SentHandshake" /\ reading' = "Open"
       \/ state = "Connected" /\ reading' = "owner"
    /\ UNCHANGED <<platform, state, isOpen, lastErrorCode, peer, readies, notices, used,
                   wire, unsent, header, torn>>

-----------------------------------------------------------------------------
(***************************************************************************)
(* BaseConnection::Read(length).                                           *)
(***************************************************************************)
Has(length) == isOpen /\ Len(wire) >= length

\* Mutant of Left: what was there is dropped on Windows too.
LeftNothing(length) == <<>>
\* What a Read that found too little leaves in the pipe: recv has taken it all,
\* PeekNamedPipe nothing.
Left(length) == IF platform = "unix" THEN <<>> ELSE wire

\* Mutant of EndSeen: recv returning 0 is taken for EAGAIN.
EndSeenNever == ~isOpen
\* The end shows when the pipe has been read empty.
EndSeen == ~isOpen \/ (peer = "gone" /\ wire = <<>>)

-----------------------------------------------------------------------------
(***************************************************************************)
(* RpcConnection::Read.                                                    *)
(***************************************************************************)
ReadsHeader ==
    /\ reading # "no" /\ header = NoHeader
    /\ Has(HeaderSize)
    /\ header' \in Says(SubSeq(wire, 1, HeaderSize))
    /\ wire' = SubSeq(wire, HeaderSize + 1, Len(wire))
    /\ UNCHANGED <<platform, session, unsent, torn>>

FindsNoHeader ==
    /\ reading # "no" /\ header = NoHeader
    /\ ~Has(HeaderSize) /\ ~EndSeen
    /\ wire' = Left(HeaderSize)
    /\ reading' = "no"
    /\ UNCHANGED <<platform, state, isOpen, lastErrorCode, peer, readies, notices, used,
                   unsent, header, torn>>

FindsEnd ==
    /\ reading # "no" /\ header = NoHeader
    /\ ~Has(HeaderSize) /\ EndSeen
    /\ Fails("PipeClosed")

HasBody == Has(BodySize[header])

FindsNoBody ==
    /\ header # NoHeader
    /\ ~HasBody
    /\ Fails("ReadCorrupt")

ReadsBody ==
    /\ header # NoHeader
    /\ HasBody
    /\ header' = NoHeader
    /\ wire' = SubSeq(wire, BodySize[header] + 1, Len(wire))

\* What the frame does.
GetsMessage ==
    /\ ReadsBody
    /\ header \in {"READY", "Frame"}
    /\ reading' = "no"
    /\ IF reading = "Open" /\ header = "READY"
         THEN state' = "Connected" /\ readies' = readies + 1
         ELSE UNCHANGED <<state, readies>>
    /\ UNCHANGED <<platform, isOpen, lastErrorCode, peer, notices, used, unsent, torn>>

GetsPong ==
    /\ ReadsBody
    /\ header = "Pong"
    /\ UNCHANGED <<platform, session, unsent, torn>>

GetsEnd ==
    /\ header # NoHeader
    /\ HasBody
    /\ \/ header = "Close" /\ Fails("CloseFrame")
       \/ header = "Bad" /\ Fails("ReadCorrupt")

-----------------------------------------------------------------------------
(***************************************************************************)
(* BaseConnection::Write: send may take a part of the frame, WriteFile     *)
(* takes all of it or fails.                                               *)
(***************************************************************************)
Sent == {"all", "nothing"} \cup (IF platform = "unix" THEN {"part"} ELSE {})

\* Mutant of Succeeds: any number of bytes sent will do.
SucceedsPartly(sent) == sent # "nothing"
\* sentBytes == length
Succeeds(sent) == sent = "all"

\* Write, and Close if it fails.
Writes(sent) == torn' = (torn \/ sent = "part")

GetsPing ==
    /\ header = "Ping"
    /\ \E sent \in Sent :
        /\ Writes(sent)
        /\ IF Succeeds(sent)
             THEN ReadsBody /\ UNCHANGED <<platform, session, unsent>>
             ELSE HasBody /\ Close /\ UNCHANGED <<lastErrorCode, reading>>

Write ==
    /\ reading = "no" /\ state = "Connected"
    /\ \E sent \in Sent :
        /\ Writes(sent)
        /\ IF Succeeds(sent)
             THEN UNCHANGED <<platform, session, wire, unsent, header>>
             ELSE Close /\ UNCHANGED <<lastErrorCode, reading>>

\* The owner destroys the connection and makes it anew.
Replace ==
    /\ reading = "no"
    /\ PipeGone
    /\ state' = "Disconnected"
    /\ lastErrorCode' = "Success"
    /\ readies' = 0 /\ notices' = 0
    /\ used' = FALSE
    /\ UNCHANGED <<platform, reading, torn>>

ReadStep ==
    \/ ReadsHeader \/ FindsNoHeader \/ FindsEnd \/ FindsNoBody
    \/ GetsMessage \/ GetsPong \/ GetsPing \/ GetsEnd

-----------------------------------------------------------------------------
(***************************************************************************)
(* The client.                                                             *)
(***************************************************************************)
MidHeader == unsent # <<>> /\ unsent[1].at \in 2 .. HeaderSize

\* What has come of the frames Read is not done with: the header it has, and
\* the bytes in the pipe.
Arrived ==
    (IF header = NoHeader THEN <<>> ELSE SubSeq(Bytes(header), 1, HeaderSize)) \o wire

\* Where headers end there: as many frames can be told.
HeadEnds == {i \in DOMAIN Arrived : Arrived[i].at = HeaderSize}

\* A piece of what it has to write, and the rest later.
Sends(bytes) ==
    \E n \in 1 .. Len(bytes) :
        /\ wire' = wire \o SubSeq(bytes, 1, n)
        /\ unsent' = SubSeq(bytes, n + 1, Len(bytes))
        /\ MidHeader' => platform \in SplitsHeaders
        /\ UNCHANGED <<platform, session, header, torn>>

ClientSends(kind) ==
    /\ peer = "open"
    /\ unsent = <<>>
    /\ Cardinality(HeadEnds) < MaxFrames
    /\ Sends(Bytes(kind))

ClientSendsRest ==
    /\ peer = "open"
    /\ unsent # <<>>
    /\ Sends(unsent)

ClientCloses ==
    /\ peer = "open"
    /\ peer' = "gone"
    /\ UNCHANGED <<platform, state, isOpen, lastErrorCode, reading, readies, notices, used,
                   wire, unsent, header, torn>>

Client == (\E kind \in Kinds : ClientSends(kind)) \/ ClientSendsRest \/ ClientCloses

Next == Open \/ BeginRead \/ ReadStep \/ Write \/ Replace \/ Client

Fairness == WF_vars(BeginRead) /\ WF_vars(ReadStep)

Spec == Init /\ [][Next]_vars /\ Fairness

-----------------------------------------------------------------------------
\* The k-th smallest of a set of numbers.
Nth(P, k) == CHOOSE i \in P : Cardinality({j \in P : j <= i}) = k

\* The frames that can be told, in order.  All but the last are whole; so is the
\* last unless some of its body has not been written.
Inbox ==
    [k \in 1 .. Cardinality(HeadEnds) |->
        [kind |-> Arrived[Nth(HeadEnds, k)].kind,
         whole |-> k < Cardinality(HeadEnds) \/ unsent = <<>> \/ unsent[1].at <= HeaderSize]]

\* The client, as the connection can tell.  Of one that has left within a header
\* Windows keeps the bytes and says that they are too few: it might still be there.
PeerSeen == IF peer = "gone" /\ MidHeader THEN "open" ELSE peer

Rpc == INSTANCE RpcConnection WITH MaxInbox <- MaxFrames, inbox <- Inbox, peer <- PeerSeen

\* Byte by byte the connection is the RpcConnection of whole frames: no frame is
\* lost, cut, joined with another or read from its middle, wherever the client's
\* writes are cut and wherever in a frame it leaves, but for headers, which only
\* on the platforms of SplitsHeaders come in pieces: on unix part of a header is
\* dropped, and what follows is not told (connection_unix.cpp:293-312,
\* connection_win.cpp:116-150, rpc_connection.cpp:88-108).
IsRpcConnection == Rpc!Init /\ [][Rpc!Next]_(Rpc!vars)

\* The session alone does not depend on how headers are cut: where bytes of one are
\* lost, and what follows is read as something else, there is still one onConnect
\* at most and exactly one onDisconnect for every session that ends
\* (rpc_connection.cpp:61-138).
Session == INSTANCE RpcSession WITH status <- Rpc!Status
IsSession == Session!Spec

\* A frame of which the client got a part is the last of its session
\* (connection_unix.cpp:279-290, rpc_connection.cpp:75-78, 123-125).
TornIsLast == torn => ~isOpen

\* A client that closes its end between frames, or within the body of one, is
\* noticed, on either platform.  One that leaves within a header is not, on
\* Windows, before a write fails: the pipe never reads empty
\* (connection_win.cpp:132-149).
GoneIsNoticed == (peer = "gone" /\ ~MidHeader) ~> (peer # "gone")

TypeOK ==
    /\ Rpc!TypeOK
    /\ platform \in Platforms
    /\ \A i \in DOMAIN wire : wire[i].kind \in Kinds
    /\ \E kind \in Kinds : \E from \in 2 .. Size(kind) + 1 :
           unsent = SubSeq(Bytes(kind), from, Size(kind))
    /\ header \in Kinds \cup {NoHeader}
    /\ header # NoHeader => isOpen /\ reading # "no"
    /\ torn \in BOOLEAN
=============================================================================
