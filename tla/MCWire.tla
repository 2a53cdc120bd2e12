------------------------------- MODULE MCWire -------------------------------
(***************************************************************************)
(* What goes over the wire: frames, byte by byte, and the messages in      *)
(* them.                                                                   *)
(***************************************************************************)
EXTENDS Framing, Serialization, TLC

MCBodySize == [kind \in Kinds |-> CASE kind = "Ping" -> 0 [] kind = "Frame" -> 2 [] OTHER -> 1]

\* A null pointer, an empty text, and one of the length that is documented.
Text128 == {Null, 0, 128}
Url == {Null, 0, 256}
NoButton == [label |-> Null, url |-> Null]

Nothing ==
    [type |-> 0, status_display_type |-> 0, instance |-> 0,
     state |-> Null, stateUrl |-> Null, details |-> Null, detailsUrl |-> Null,
     startTimestamp |-> 0, endTimestamp |-> 0,
     largeImageKey |-> Null, largeImageText |-> Null, largeImageUrl |-> Null,
     smallImageKey |-> Null, smallImageText |-> Null, smallImageUrl |-> Null,
     partyId |-> Null, partySize |-> 0, partyMax |-> 0, partyPrivacy |-> 0,
     matchSecret |-> Null, joinSecret |-> Null, spectateSecret |-> Null,
     buttons |-> <<NoButton, NoButton>>]

\* Everything, as long as it may be.
Everything ==
    [type |-> 5, status_display_type |-> 2, instance |-> 1,
     state |-> 128, stateUrl |-> 256, details |-> 128, detailsUrl |-> 256,
     startTimestamp |-> 1, endTimestamp |-> 1,
     largeImageKey |-> 256, largeImageText |-> 128, largeImageUrl |-> 256,
     smallImageKey |-> 256, smallImageText |-> 128, smallImageUrl |-> 256,
     partyId |-> 128, partySize |-> 1, partyMax |-> 1, partyPrivacy |-> 1,
     matchSecret |-> 128, joinSecret |-> 128, spectateSecret |-> 128,
     buttons |-> <<[label |-> 32, url |-> 256], [label |-> 32, url |-> 256]>>]

\* The groups are written one after the other and share no condition: each is
\* varied on its own, with everything else absent, and present.
Varied(p) ==
    {[p EXCEPT !.state = a, !.stateUrl = b, !.details = c, !.detailsUrl = d] :
        a \in Text128, b \in Url, c \in Text128, d \in Url}
    \cup
    {[p EXCEPT !.startTimestamp = a, !.endTimestamp = b] : a \in 0 .. 1, b \in 0 .. 1}
    \cup
    {[p EXCEPT !.largeImageKey = a, !.largeImageText = b, !.largeImageUrl = c,
               !.smallImageKey = d, !.smallImageText = e, !.smallImageUrl = f] :
        a \in Url, b \in Text128, c \in {Null, 256}, d \in Url, e \in Text128, f \in {Null, 256}}
    \cup
    {[p EXCEPT !.partyId = a, !.partySize = b, !.partyMax = c, !.partyPrivacy = d] :
        a \in Text128, b \in 0 .. 1, c \in 0 .. 1, d \in 0 .. 1}
    \cup
    {[p EXCEPT !.buttons = <<[label |-> a, url |-> b], [label |-> c, url |-> d]>>,
               !.matchSecret = e, !.joinSecret = f] :
        a \in {Null, 0, 32}, b \in {Null, 256}, c \in {Null, 0, 32}, d \in {Null, 256},
        e \in Text128, f \in {Null, 128}}

MCPresences == Varied(Nothing) \cup Varied(Everything)

\* The calls do not depend on the connection: they are looked at once, before it
\* is first used, on one platform.
MCInit == Init /\ CallInit
MCNext ==
    \/ Next /\ call = NoCall /\ UNCHANGED <<call, heap>>
    \/ CallNext /\ ~used /\ platform = "unix" /\ UNCHANGED vars
MCSpec == MCInit /\ [][MCNext]_<<vars, call, heap>> /\ Fairness
=============================================================================
