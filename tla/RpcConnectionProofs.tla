------------------------ MODULE RpcConnectionProofs -------------------------
(***************************************************************************)
(* The proof that an RpcConnection is a session, for pipes of every size.  *)
(***************************************************************************)
EXTENDS RpcConnection, TLAPS

\* A session that runs has been begun by a handshake and has not been reported
\* as ended; one that waits for READY has not been reported as ready.
Books ==
    /\ state # "Disconnected" => used /\ notices = 0
    /\ state = "SentHandshake" => readies = 0

IInv == TypeOK /\ SessionMatchesPipe /\ Books

LEMMA EmptyInbox == <<>> \in Seq(Frames)
  OBVIOUS

LEMMA InitIInv == Init => IInv
  <1> SUFFICES ASSUME Init PROVE IInv
    OBVIOUS
  <1>1. TypeOK
    <2>1. inbox \in Seq(Frames)
      BY EmptyInbox DEF Init, Fresh
    <2>2. /\ state \in States /\ isOpen \in BOOLEAN
          /\ lastErrorCode \in ErrorCodes /\ used \in BOOLEAN /\ peer \in {"none", "open", "gone"}
      BY DEF Init, Fresh, States, ErrorCodes
    <2>3. /\ reading \in {"no", "Open", "owner"}
          /\ readies \in 0 .. 1 /\ notices \in 0 .. 1
      BY DEF Init, Fresh
    <2> QED
      BY <2>1, <2>2, <2>3 DEF TypeOK
  <1>2. SessionMatchesPipe /\ Books
    BY DEF Init, Fresh, SessionMatchesPipe, Books
  <1> QED
    BY <1>1, <1>2 DEF IInv

\* Close ends the session with one notice, or does nothing to an idle one.
LEMMA CloseIInv ==
    ASSUME IInv, Close, lastErrorCode' \in ErrorCodes, reading' \in {"no", reading}
    PROVE  IInv'
  <1>1. notices' \in 0 .. 1
    BY DEF IInv, TypeOK, Books, Close, Notified, States
  <1> QED
    BY <1>1, EmptyInbox DEF IInv, TypeOK, SessionMatchesPipe, Books, Close, States

LEMMA InboxType ==
    ASSUME TypeOK
    PROVE  /\ inbox # <<>> => Tail(inbox) \in Seq(Frames) /\ Top \in Frames
           /\ \A f \in Frames : Append(inbox, f) \in Seq(Frames)
  BY DEF TypeOK, Top

LEMMA ReadIInv ==
    ASSUME IInv, ReadStep
    PROVE  IInv'
  <1> USE InboxType DEF Reads
  <1>1. CASE ReadNothing
    BY <1>1 DEF ReadNothing, IInv, TypeOK, SessionMatchesPipe, Books, events
  <1>2. CASE ReadOnClosed
    BY <1>2, CloseIInv DEF ReadOnClosed, Fails, ErrorCodes
  <1>3. CASE ReadPartialFrame
    BY <1>3, CloseIInv DEF ReadPartialFrame, Fails, ErrorCodes
  <1>4. CASE ReadClose
    BY <1>4, CloseIInv DEF ReadClose, Fails, ErrorCodes
  <1>5. CASE ReadBad
    BY <1>5, CloseIInv DEF ReadBad, Fails, ErrorCodes
  <1>6. CASE ReadPong
    BY <1>6 DEF ReadPong, IInv, TypeOK, SessionMatchesPipe, Books, events
  <1>7. CASE ReadPing
    BY <1>7 DEF ReadPing, IInv, TypeOK, SessionMatchesPipe, Books, events
  <1>8. CASE ReadPingPongFails
    BY <1>8, CloseIInv DEF ReadPingPongFails, IInv, TypeOK
  <1>9. CASE ReadAnswer
    <2>1. inbox # <<>> /\ isOpen
      BY <1>9 DEF ReadAnswer, IInv, SessionMatchesPipe
    <2>2. state = "SentHandshake" /\ readies = 0
      BY <1>9, <2>1 DEF ReadAnswer, IInv, SessionMatchesPipe, Books
    <2>3. state' \in {"SentHandshake", "Connected"} /\ readies' \in 0 .. 1
      BY <1>9, <2>2 DEF ReadAnswer
    <2>4. state' = "SentHandshake" => readies' = 0
      BY <1>9, <2>2 DEF ReadAnswer
    <2> QED
      BY <1>9, <2>1, <2>2, <2>3, <2>4
      DEF ReadAnswer, IInv, TypeOK, SessionMatchesPipe, Books, States
  <1>10. CASE ReadMessage
    BY <1>10 DEF ReadMessage, IInv, TypeOK, SessionMatchesPipe, Books, events
  <1> QED
    BY <1>1, <1>2, <1>3, <1>4, <1>5, <1>6, <1>7, <1>8, <1>9, <1>10 DEF ReadStep

LEMMA ClientIInv ==
    ASSUME IInv, Client
    PROVE  IInv'
  <1> USE InboxType DEF IInv, TypeOK, SessionMatchesPipe, Books, events
  <1>1. ASSUME NEW f \in Frames, ClientSends(f) PROVE IInv'
    BY <1>1 DEF ClientSends
  <1>2. CASE ClientSendsRest
    <2>1. inbox # <<>> /\ Len(inbox) \in DOMAIN inbox
      BY <1>2 DEF ClientSendsRest, LastIsWhole
    <2>2. [inbox EXCEPT ![Len(inbox)].whole = TRUE] \in Seq(Frames)
      <3> DEFINE f == [inbox[Len(inbox)] EXCEPT !.whole = TRUE]
      <3>1. inbox[Len(inbox)] \in Frames
        BY <2>1
      <3>2. f \in Frames
        BY <3>1 DEF Frames
      <3>3. [inbox EXCEPT ![Len(inbox)] = f] \in Seq(Frames)
        BY <2>1, <3>2
      <3> QED
        BY <3>3
    <2> QED
      BY <1>2, <2>2 DEF ClientSendsRest
  <1>3. CASE ClientCloses
    BY <1>3 DEF ClientCloses
  <1> QED
    BY <1>1, <1>2, <1>3 DEF Client

LEMMA NextIInv ==
    ASSUME IInv, [Next]_vars
    PROVE  IInv'
  <1> USE DEF events
  <1>1. CASE OpenSendsHandshake
    BY <1>1 DEF OpenSendsHandshake, IInv, TypeOK, SessionMatchesPipe, Books, States
  <1>2. CASE OpenReads
    BY <1>2 DEF OpenReads, IInv, TypeOK, SessionMatchesPipe, Books
  <1>3. CASE OwnerReads
    BY <1>3 DEF OwnerReads, IInv, TypeOK, SessionMatchesPipe, Books
  <1>4. CASE ReadStep
    BY <1>4, ReadIInv
  <1>5. CASE WriteFails
    BY <1>5, CloseIInv DEF WriteFails, IInv, TypeOK
  <1>6. CASE DestroyAndCreate
    <2>1. TypeOK'
      <3>1. inbox' \in Seq(Frames)
        BY <1>6, EmptyInbox DEF DestroyAndCreate
      <3>2. /\ state' \in States /\ isOpen' \in BOOLEAN
            /\ lastErrorCode' \in ErrorCodes /\ used' \in BOOLEAN /\ peer' \in {"none", "open", "gone"}
        BY <1>6 DEF DestroyAndCreate, States, ErrorCodes
      <3>3. /\ reading' \in {"no", "Open", "owner"}
            /\ readies' \in 0 .. 1 /\ notices' \in 0 .. 1
        BY <1>6 DEF DestroyAndCreate, IInv, TypeOK
      <3> QED
        BY <3>1, <3>2, <3>3 DEF TypeOK
    <2>2. SessionMatchesPipe' /\ Books'
      BY <1>6 DEF DestroyAndCreate, SessionMatchesPipe, Books
    <2> QED
      BY <2>1, <2>2 DEF IInv
  <1>7. CASE Client
    BY <1>7, ClientIInv
  <1>8. CASE UNCHANGED vars
    BY <1>8 DEF vars, IInv, TypeOK, SessionMatchesPipe, Books
  <1> QED
    BY <1>1, <1>2, <1>3, <1>4, <1>5, <1>6, <1>7, <1>8 DEF Next

\* The pipe is open exactly while a session runs, and no Read runs on without
\* one except after a failed pong (rpc_connection.cpp:22-138).
THEOREM PipeMatchesSession == Spec => [](TypeOK /\ SessionMatchesPipe)
  <1>1. Spec => []IInv
    BY InitIInv, NextIInv, PTL DEF Spec
  <1> QED
    BY <1>1, PTL DEF IInv

\* The fields keep their types, for pipes of every size (rpc_connection.h:36-50).
COROLLARY ConnectionTypes == Spec => []TypeOK
  BY PipeMatchesSession, PTL

\* The connection implements the abstract session: every step of the frame
\* loop, of Open, Write, Destroy and of the client is a step of the session or
\* leaves it alone, so that a session is reported ready at most once and its end
\* exactly once, for pipes of every size (rpc_connection.cpp:14-138).
THEOREM ImplementsSession == Spec => IsSession
  <1>1. Init => Session!Init
    BY DEF Init, Fresh, Session!Init, Status
  <1>2. ASSUME IInv, [Next]_vars PROVE [Session!Next]_(Session!vars)
    <2> USE DEF Session!vars, events
    <2>0. ASSUME UNCHANGED <<state, readies, notices, used>>
          PROVE  UNCHANGED Session!vars
      BY <2>0 DEF Status
    <2>1. ASSUME Close PROVE [Session!Next]_(Session!vars)
      <3>1. CASE state = "Disconnected"
        BY <2>1, <3>1 DEF Close, Notified, Status
      <3>2. CASE state # "Disconnected"
        <4>1. state \in {"SentHandshake", "Connected"}
          BY <1>2, <3>2 DEF IInv, TypeOK, States
        <4>2. used
          BY <1>2, <3>2 DEF IInv, Books
        <4> QED
          BY <2>1, <4>1, <4>2 DEF Close, Notified, Status, Session!Next, Session!Drop
      <3> QED
        BY <3>1, <3>2
    <2>2. CASE OpenSendsHandshake
      BY <2>2 DEF OpenSendsHandshake, Status, Session!Next, Session!Begin
    <2>3. CASE OpenReads \/ OwnerReads
      BY <2>0, <2>3 DEF OpenReads, OwnerReads
    <2>4. CASE ReadStep
      <3>1. CASE ReadNothing \/ ReadPong \/ ReadPing \/ ReadMessage
        BY <2>0, <3>1 DEF ReadNothing, ReadPong, ReadPing, ReadMessage
      <3>2. CASE ReadOnClosed \/ ReadPartialFrame \/ ReadClose \/ ReadBad \/ ReadPingPongFails
        BY <2>1, <3>2
        DEF ReadOnClosed, ReadPartialFrame, ReadClose, ReadBad, ReadPingPongFails, Fails
      <3>3. CASE ReadAnswer
        <4>1. inbox # <<>> /\ reading = "Open"
          BY <3>3 DEF ReadAnswer, Reads
        <4>2. state = "SentHandshake"
          BY <1>2, <4>1 DEF IInv, SessionMatchesPipe
        <4> QED
          BY <3>3, <4>2 DEF ReadAnswer, Status, Session!Next, Session!Ready
      <3> QED
        BY <2>4, <3>1, <3>2, <3>3 DEF ReadStep
    <2>5. CASE WriteFails
      BY <2>1, <2>5 DEF WriteFails
    <2>6. CASE DestroyAndCreate
      BY <2>6 DEF DestroyAndCreate, Status, Session!Next, Session!Replace
    <2>7. CASE Client
      BY <2>0, <2>7 DEF Client, ClientSends, ClientSendsRest, ClientCloses
    <2>8. CASE UNCHANGED vars
      BY <2>0, <2>8 DEF vars
    <2> QED
      BY <1>2, <2>2, <2>3, <2>4, <2>5, <2>6, <2>7, <2>8 DEF Next
  <1>3. Spec => []IInv
    BY InitIInv, NextIInv, PTL DEF Spec
  <1> QED
    BY <1>1, <1>2, <1>3, PTL DEF Spec, IsSession, Session!Spec
=============================================================================
