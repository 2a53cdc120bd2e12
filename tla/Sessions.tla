------------------------------ MODULE Sessions ------------------------------
(***************************************************************************)
(* DiscordRpc with the calls of onConnect and onDisconnect counted, and    *)
(* each of its connections as module RpcSession describes one.             *)
(*                                                                         *)
(* The counts are history: they follow from the steps of the IO thread and *)
(* no step depends on them.                                                *)
(***************************************************************************)
EXTENDS DiscordRpc

VARIABLES
    readies,    \* calls of onConnect in the last session of each connection
    notices     \* calls of onDisconnect in the last session of each connection

counts == <<readies, notices>>

\* The IO thread enters onConnect, or onDisconnect, of c.
ConnectCalled(c) == ioPc # "handlers" /\ ioPc' = "handlers" /\ ioCur' = c
DisconnectCalled(c) == ioPc # "closing" /\ ioPc' = "closing" /\ ioCur' = c

\* AddConnection makes c, or nobody refers to it any more.
Remade(c) ==
    \/ c \in connections' \ connections
    \/ c \in connections \ (connections' \cup Held)

\* What is counted begins anew, with a session or with the connection itself.
Renewed(c) == Remade(c) \/ (rpc[c] = "Disconnected" /\ rpc'[c] = "SentHandshake")

Count ==
    /\ readies' = [c \in Conns |-> IF Renewed(c) THEN 0
                                   ELSE IF ConnectCalled(c) THEN readies[c] + 1 ELSE readies[c]]
    /\ notices' = [c \in Conns |-> IF Renewed(c) THEN 0
                                   ELSE IF DisconnectCalled(c) THEN notices[c] + 1 ELSE notices[c]]

CountingInit ==
    /\ Init
    /\ readies = [c \in Conns |-> 0]
    /\ notices = [c \in Conns |-> 0]

CountingNext == Next /\ Count

CountingSpec == CountingInit /\ [][CountingNext]_<<vars, counts>> /\ Fairness

-----------------------------------------------------------------------------
\* Close has called onDisconnect and has not set the state yet.
InClose(c) == ioPc = "closing" /\ ioCur = c

Status(c) ==
    CASE InClose(c) -> "down"
      [] rpc[c] = "SentHandshake" /\ ~InClose(c) -> "handshaking"
      [] rpc[c] = "Connected" /\ ~InClose(c) -> "up"
      [] rpc[c] = "Disconnected" /\ ~InClose(c) -> IF notices[c] = 0 THEN "none" ELSE "down"

Session(c) ==
    INSTANCE RpcSession WITH status <- Status(c), readies <- readies[c], notices <- notices[c]

\* Discord_UpdateConnection and its callbacks see each connection as RpcSession
\* promises it: they are told once, at most, that a session is ready and exactly
\* once that it has ended, also when a presence is written to a connection that
\* its own read loop has lost, and whatever is scanned, erased, made again or shut
\* down meanwhile (discord_rpc.cpp:51-62, 302-413, rpc_connection.cpp:61-68).
AreSessions ==
    /\ \A c \in Conns : Session(c)!Init
    /\ [][\A c \in Conns : [Session(c)!Next]_(Session(c)!vars)]_<<vars, counts>>
=============================================================================
