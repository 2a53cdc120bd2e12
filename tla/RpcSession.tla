----------------------------- MODULE RpcSession -----------------------------
(***************************************************************************)
(* What an RpcConnection promises the code that owns it (discord_rpc.cpp): *)
(* a session begins when the handshake has been sent; it may become ready  *)
(* once, with one call of onConnect; and it ends either with exactly one   *)
(* call of onDisconnect, or silently because its owner destroys it.        *)
(***************************************************************************)
EXTENDS Naturals

VARIABLES
    status,     \* "none" before the first session, "handshaking", "up", "down"
    readies,    \* calls of onConnect in the last session
    notices     \* calls of onDisconnect in the last session

vars == <<status, readies, notices>>

Init ==
    /\ status = "none"
    /\ readies = 0
    /\ notices = 0

Begin ==
    /\ status \in {"none", "down"}
    /\ status' = "handshaking"
    /\ readies' = 0
    /\ notices' = 0

Ready ==
    /\ status = "handshaking"
    /\ status' = "up"
    /\ readies' = readies + 1
    /\ UNCHANGED notices

Drop ==
    /\ status \in {"handshaking", "up"}
    /\ status' = "down"
    /\ notices' = notices + 1
    /\ UNCHANGED readies

\* The owner replaces the connection by a fresh one.
Replace ==
    /\ status' = "none"
    /\ readies' = 0
    /\ notices' = 0

Next == Begin \/ Ready \/ Drop \/ Replace

Spec == Init /\ [][Next]_vars
=============================================================================
