--------------------------- MODULE MsgQueueProofs ---------------------------
(***************************************************************************)
(* With one producer thread and another thread as the consumer, MsgQueue   *)
(* keeps its promise for every queue size and every width of the counters  *)
(* that is a multiple of it.                                               *)
(***************************************************************************)
EXTENDS MsgQueue, SequenceTheorems, TLAPS

Succ(k) == IF k = QueueSize - 1 THEN 0 ELSE k + 1
Fold(n) == IF n < QueueSize THEN n ELSE n - QueueSize

Reserved(p) == IF Holds(p) THEN 1 ELSE 0
Taken == IF sendPc = "idle" THEN 0 ELSE 1

\* The ring as p and the consumer see it: between the slot of the next send and
\* the slot of the next add lie the messages that are committed and not taken
\* and the slot p has reserved; a slot is torn only while p fills it.
Ring(p) ==
    /\ Taken <= pendingSends
    /\ pendingSends + Reserved(p) <= QueueSize
    /\ addPc[p] = "room" => pendingSends < QueueSize
    /\ nextAdd % QueueSize
         = Fold((nextSend % QueueSize) + pendingSends - Taken + Reserved(p))
    /\ sendPc # "idle" => nextSend % QueueSize = Succ(sendSlot)
    /\ Holds(p) => nextAdd % QueueSize = Succ(addSlot[p])
    /\ \A k \in Index : slots[k] = Torn => addPc[p] = "filling" /\ addSlot[p] = k
    /\ local \in Data

-----------------------------------------------------------------------------
\* Division with remainder, in the form the solver uses it.
LEMMA Division ==
    ASSUME NEW a \in Int, NEW n \in Nat \ {0}
    PROVE  /\ a % n \in 0 .. n - 1
           /\ a \div n \in Int
           /\ a = n * (a \div n) + (a % n)
  BY Z3

\* The remainder is the only one.
LEMMA Remainder ==
    ASSUME NEW n \in Nat \ {0}, NEW q \in Int, NEW r \in 0 .. n - 1
    PROVE  (n * q + r) % n = r
  <1> DEFINE a == n * q + r
             e == a \div n
             s == a % n
  <1>1. a \in Int
    OBVIOUS
  <1>2. s \in 0 .. n - 1 /\ e \in Int /\ n * q + r = n * e + s
    BY <1>1, Division
  <1> HIDE DEF e, s
  <1>3. n * (q - e) = s - r
    BY <1>2
  <1>4. q - e < 1
    <2>1. SUFFICES ASSUME q - e >= 1 PROVE FALSE
      BY <1>2
    <2>2. n * (q - e) >= n
      BY <2>1, <1>2
    <2> QED
      BY <2>2, <1>2, <1>3
  <1>5. q - e > -1
    <2>1. SUFFICES ASSUME q - e <= -1 PROVE FALSE
      BY <1>2
    <2>2. n * (q - e) <= -n
      BY <2>1, <1>2
    <2> QED
      BY <2>2, <1>2, <1>3
  <1>6. q = e
    BY <1>2, <1>4, <1>5
  <1> QED
    BY <1>2, <1>6 DEF s

\* A counter's slot advances by one round the ring when the counter is bumped,
\* also when the counter wraps: this is where QueueSize has to divide Wrap.
LEMMA NextSlot ==
    ASSUME NEW c \in 0 .. Wrap - 1
    PROVE  /\ (c + 1) % Wrap \in 0 .. Wrap - 1
           /\ c % QueueSize \in Index
           /\ ((c + 1) % Wrap) % QueueSize = Succ(c % QueueSize)
  <1> DEFINE N == QueueSize
             q == c \div N
             r == c % N
             k == Wrap \div N
  <1>1. N \in Nat \ {0} /\ Wrap \in Nat \ {0} /\ Wrap % N = 0
    BY SizeAssumption, WrapAssumption
  <1>2. r \in 0 .. N - 1 /\ q \in Int /\ c = N * q + r
    BY <1>1, Division
  <1>3. k \in Int /\ Wrap = N * k
    BY <1>1, Division
  <1>4. (c + 1) % Wrap = IF c + 1 = Wrap THEN 0 ELSE c + 1
    <2>1. CASE c + 1 = Wrap
      <3>1. (Wrap * 1 + 0) % Wrap = 0
        BY <1>1, Remainder
      <3> QED
        BY <2>1, <3>1, <1>1
    <2>2. CASE c + 1 # Wrap
      <3>1. c + 1 \in 0 .. Wrap - 1
        BY <2>2, <1>1
      <3>2. (Wrap * 0 + (c + 1)) % Wrap = c + 1
        BY <3>1, <1>1, Remainder
      <3>3. Wrap * 0 + (c + 1) = c + 1
        BY <1>1
      <3> QED
        BY <2>2, <3>2, <3>3
    <2> QED
      BY <2>1, <2>2
  <1>5. CASE c + 1 = Wrap
    <2>1. (N * 0 + 0) % N = 0
      BY <1>1, Remainder
    <2>2. (N * (k - 1) + (N - 1)) % N = N - 1
      <3>1. k - 1 \in Int /\ N - 1 \in 0 .. N - 1
        BY <1>1, <1>3
      <3> HIDE DEF k
      <3> QED
        BY <3>1, <1>1, Remainder
    <2>3. c = N * (k - 1) + (N - 1)
      BY <1>1, <1>3, <1>5
    <2>4. r = N - 1
      BY <2>2, <2>3
    <2>5. 0 % N = 0
      BY <2>1, <1>1
    <2> QED
      BY <1>1, <1>2, <1>4, <1>5, <2>4, <2>5 DEF Succ, Index
  <1>6. CASE c + 1 # Wrap /\ r = N - 1
    <2>1. (N * (q + 1) + 0) % N = 0
      BY <1>1, <1>2, Remainder
    <2>2. c + 1 = N * (q + 1) + 0
      BY <1>1, <1>2, <1>6
    <2>3. (c + 1) % N = 0
      BY <2>1, <2>2
    <2> QED
      BY <1>1, <1>2, <1>4, <1>6, <2>3 DEF Succ, Index
  <1>7. CASE c + 1 # Wrap /\ r # N - 1
    <2>1. r + 1 \in 0 .. N - 1
      BY <1>1, <1>2, <1>7
    <2>2. (N * q + (r + 1)) % N = r + 1
      BY <2>1, <1>1, <1>2, Remainder
    <2>3. c + 1 = N * q + (r + 1)
      BY <1>1, <1>2
    <2>4. (c + 1) % N = r + 1
      BY <2>2, <2>3
    <2> QED
      BY <1>1, <1>2, <1>4, <1>7, <2>4 DEF Succ, Index
  <1> QED
    BY <1>5, <1>6, <1>7

-----------------------------------------------------------------------------
\* What the induction steps need of a counter and of a slot.
LEMMA Slots ==
    /\ QueueSize \in Nat \ {0}
    /\ Wrap \in Nat /\ Wrap > QueueSize
    /\ \A k \in Index : Succ(k) \in Index
    /\ \A n \in 0 .. QueueSize - 1 : (n + 1) % Wrap = n + 1
    /\ \A n \in 1 .. QueueSize : (n - 1) % Wrap = n - 1
  <1>1. QueueSize \in Nat \ {0} /\ Wrap \in Nat \ {0} /\ Wrap > QueueSize
    BY SizeAssumption, WrapAssumption
  <1>2. \A m \in 0 .. Wrap - 1 : m % Wrap = m
    <2>1. TAKE m \in 0 .. Wrap - 1
    <2>2. (Wrap * 0 + m) % Wrap = m
      BY <1>1, Remainder
    <2> QED
      BY <1>1, <2>2
  <1>3. ASSUME NEW n \in 0 .. QueueSize - 1 PROVE (n + 1) % Wrap = n + 1
    <2>1. n + 1 \in 0 .. Wrap - 1
      BY <1>1
    <2> QED
      BY <2>1, <1>2
  <1>4. ASSUME NEW n \in 1 .. QueueSize PROVE (n - 1) % Wrap = n - 1
    <2>1. n - 1 \in 0 .. Wrap - 1
      BY <1>1
    <2> QED
      BY <2>1, <1>2
  <1> QED
    BY <1>1, <1>3, <1>4 DEF Index, Succ

\* Positions counted from a slot s, folded back into the ring.
LEMMA Folding ==
    ASSUME NEW s \in Index, NEW m \in 0 .. QueueSize
    PROVE  /\ m < QueueSize => Fold(s + m + 1) = Succ(Fold(s + m))
           /\ m > 0 => Fold(s + m) = Fold(Succ(s) + m - 1)
           /\ Fold(s + m) = s => m \in {0, QueueSize}
  BY Slots DEF Fold, Succ, Index

\* The slot p fills is not the slot the consumer reads: if it were, the ring
\* would be empty or full, and it is neither.
LEMMA Apart ==
    ASSUME NEW p, Producers = {p}, TypeOK, Ring(p), Holds(p), sendPc # "idle"
    PROVE  addSlot[p] # sendSlot
  <1>1. SUFFICES ASSUME addSlot[p] = sendSlot PROVE FALSE
    OBVIOUS
  <1>2. nextAdd % QueueSize = nextSend % QueueSize
    BY <1>1 DEF Ring
  <1>3. Taken = 1 /\ Reserved(p) = 1
    BY DEF Taken, Reserved
  <1>4. nextSend % QueueSize \in Index
    BY NextSlot DEF TypeOK
  <1>5. pendingSends \in 1 .. QueueSize - 1
    BY <1>3, Slots DEF Ring, TypeOK
  <1>6. Fold((nextSend % QueueSize) + pendingSends) = nextSend % QueueSize
    <2>1. nextAdd % QueueSize = Fold((nextSend % QueueSize) + pendingSends - 1 + 1)
      BY <1>3 DEF Ring
    <2> QED
      BY <1>2, <1>4, <1>5, <2>1, Slots DEF Index
  <1> QED
    BY <1>4, <1>5, <1>6, Slots, Folding

LEMMA InitRing ==
    ASSUME NEW p, Producers = {p}, Init
    PROVE  TypeOK /\ Ring(p)
  <1>1. 0 % QueueSize = 0
    <2>1. (QueueSize * 0 + 0) % QueueSize = 0
      BY Slots, Remainder
    <2> QED
      BY <2>1, Slots
  <1> QED
    BY <1>1, Slots, DataAssumption
    DEF Init, TypeOK, Ring, Taken, Reserved, Holds, Fold, Index, Steps

LEMMA AddRing ==
    ASSUME NEW p, Producers = {p}, TypeOK, Ring(p), Add(p)
    PROVE  TypeOK' /\ Ring(p)'
  <1> USE Slots
  <1>1. CASE FindRoom(p)
    BY <1>1 DEF FindRoom, Room, TypeOK, Ring, Taken, Reserved, Holds, sending, Steps
  <1>2. CASE GetNextAddMessage(p)
    <2>1. /\ (nextAdd + 1) % Wrap \in 0 .. Wrap - 1
          /\ nextAdd % QueueSize \in Index
          /\ ((nextAdd + 1) % Wrap) % QueueSize = Succ(nextAdd % QueueSize)
      BY NextSlot DEF TypeOK
    <2>2. nextSend % QueueSize \in Index
      BY NextSlot DEF TypeOK
    <2>3. TypeOK'
      BY <1>2, <2>1 DEF GetNextAddMessage, TypeOK, sending, Steps
    <2>4. /\ nextAdd' % QueueSize = Succ(nextAdd % QueueSize)
          /\ addSlot'[p] = nextAdd % QueueSize
          /\ addPc[p] = "room" /\ addPc'[p] = "reserved"
          /\ UNCHANGED <<slots, pendingSends, nextSend, sendPc, sendSlot, local>>
      BY <1>2, <2>1 DEF GetNextAddMessage, TypeOK, sending
    <2>5. Reserved(p) = 0 /\ Reserved(p)' = 1 /\ Taken' = Taken /\ Taken \in {0, 1}
      BY <2>4 DEF Reserved, Holds, Taken
    <2>6. nextAdd' % QueueSize
            = Fold((nextSend % QueueSize) + (pendingSends - Taken) + 1)
      <3>1. pendingSends - Taken \in 0 .. QueueSize - 1
        BY <2>4, <2>5 DEF Ring, TypeOK
      <3>2. nextAdd % QueueSize = Fold((nextSend % QueueSize) + (pendingSends - Taken))
        BY <2>2, <2>5, <3>1 DEF Ring, TypeOK, Index
      <3> QED
        BY <2>2, <2>4, <3>1, <3>2, Folding
    <2>7. Ring(p)'
      <3>1. pendingSends + 1 <= QueueSize /\ Taken <= pendingSends
        BY <2>4 DEF Ring, TypeOK
      <3>2. nextAdd' % QueueSize
              = Fold((nextSend' % QueueSize) + pendingSends' - Taken' + Reserved(p)')
        BY <2>2, <2>4, <2>5, <2>6 DEF TypeOK, Index
      <3>3. sendPc # "idle" => nextSend % QueueSize = Succ(sendSlot)
        BY DEF Ring
      <3> QED
        BY <2>4, <2>5, <3>1, <3>2, <3>3 DEF Ring, Holds
    <2> QED
      BY <2>3, <2>7
  <1>3. CASE BeginFill(p)
    BY <1>3 DEF BeginFill, TypeOK, Ring, Taken, Reserved, Holds, sending, Steps, Index
  <1>4. ASSUME NEW d \in Data, EndFill(p, d) PROVE TypeOK' /\ Ring(p)'
    <2>1. /\ addPc[p] = "filling" /\ addPc'[p] = "filled"
          /\ slots' = [slots EXCEPT ![addSlot[p]] = d]
          /\ UNCHANGED <<nextAdd, pendingSends, addSlot, nextSend, sendPc, sendSlot, local>>
      BY <1>4 DEF EndFill, TypeOK, sending
    <2>2. TypeOK'
      BY <1>4 DEF EndFill, TypeOK, sending, Steps
    <2>3. \A k \in Index : slots'[k] # Torn
      BY <2>1, DataAssumption DEF Ring, TypeOK
    <2>4. Reserved(p) = 1 /\ Reserved(p)' = 1 /\ Taken' = Taken
      BY <2>1 DEF Reserved, Holds, Taken
    <2>5. Ring(p)'
      BY <2>1, <2>3, <2>4 DEF Ring, Holds
    <2> QED
      BY <2>2, <2>5
  <1>5. CASE CommitAdd(p)
    <2>1. /\ addPc[p] = "filled" /\ addPc'[p] = "idle"
          /\ UNCHANGED <<slots, nextAdd, addSlot, nextSend, sendPc, sendSlot, local>>
      BY <1>5 DEF CommitAdd, TypeOK, sending
    <2>2. Reserved(p) = 1 /\ Reserved(p)' = 0 /\ Taken' = Taken /\ Taken \in {0, 1}
      BY <2>1 DEF Reserved, Holds, Taken
    <2>3. pendingSends' = pendingSends + 1
      BY <1>5, <2>2 DEF CommitAdd, Ring, TypeOK
    <2>4. TypeOK'
      BY <1>5, <2>2, <2>3 DEF CommitAdd, TypeOK, Ring, sending, Steps
    <2>5. nextSend % QueueSize \in Index
      BY NextSlot DEF TypeOK
    <2>6. Ring(p)'
      BY <2>1, <2>2, <2>3, <2>5 DEF Ring, TypeOK, Holds, Index
    <2> QED
      BY <2>4, <2>6
  <1> QED
    BY <1>1, <1>2, <1>3, <1>4, <1>5 DEF Add

LEMMA SendRing ==
    ASSUME NEW p, Producers = {p}, TypeOK, Ring(p), Send
    PROVE  TypeOK' /\ Ring(p)' /\ (CopyMessage => local' \in Data)
  <1> USE Slots
  <1>1. CASE GetNextSendMessage
    <2>1. /\ (nextSend + 1) % Wrap \in 0 .. Wrap - 1
          /\ nextSend % QueueSize \in Index
          /\ ((nextSend + 1) % Wrap) % QueueSize = Succ(nextSend % QueueSize)
      BY NextSlot DEF TypeOK
    <2>2. TypeOK'
      BY <1>1, <2>1 DEF GetNextSendMessage, TypeOK, adding
    <2>3. /\ nextSend' % QueueSize = Succ(nextSend % QueueSize)
          /\ sendSlot' = nextSend % QueueSize
          /\ sendPc = "idle" /\ sendPc' = "reading" /\ pendingSends # 0
          /\ UNCHANGED <<slots, pendingSends, nextAdd, addPc, addSlot, local>>
      BY <1>1, <2>1 DEF GetNextSendMessage, HavePendingSends, adding
    <2>4. /\ Taken = 0 /\ Taken' = 1
          /\ Reserved(p)' = Reserved(p) /\ Reserved(p) \in {0, 1}
      BY <2>3 DEF Reserved, Holds, Taken
    <2>5. nextAdd % QueueSize
            = Fold((nextSend' % QueueSize) + pendingSends - 1 + Reserved(p))
      <3>1. pendingSends + Reserved(p) \in 1 .. QueueSize /\ pendingSends \in Nat
        BY <2>3, <2>4 DEF Ring, TypeOK
      <3>2. nextAdd % QueueSize = Fold((nextSend % QueueSize) + (pendingSends + Reserved(p)))
        BY <2>1, <2>4, <3>1 DEF Ring, Index
      <3>3. nextAdd % QueueSize
              = Fold(Succ(nextSend % QueueSize) + (pendingSends + Reserved(p)) - 1)
        BY <2>1, <3>1, <3>2, Folding
      <3>4. Succ(nextSend % QueueSize) \in Index
        BY <2>1
      <3>5. \A x \in Index, r \in {0, 1} :
                x + (pendingSends + r) - 1 = x + pendingSends - 1 + r
        BY <3>1 DEF Index
      <3>6. Reserved(p) \in {0, 1}
        BY <2>4
      <3>7. Succ(nextSend % QueueSize) + (pendingSends + Reserved(p)) - 1
              = Succ(nextSend % QueueSize) + pendingSends - 1 + Reserved(p)
        BY <3>4, <3>5, <3>6
      <3> QED
        BY <2>3, <3>3, <3>7
    <2>6. Ring(p)'
      BY <2>3, <2>4, <2>5 DEF Ring, TypeOK, Holds
    <2> QED
      BY <1>1, <2>2, <2>6 DEF GetNextSendMessage, CopyMessage
  <1>2. CASE CopyMessage
    <2>1. slots[sendSlot] # Torn
      <3>1. SUFFICES ASSUME slots[sendSlot] = Torn PROVE FALSE
        OBVIOUS
      <3>2. addPc[p] = "filling" /\ addSlot[p] = sendSlot
        BY <3>1 DEF Ring, TypeOK
      <3> QED
        BY <1>2, <3>2, Apart DEF CopyMessage, Holds
    <2>2. local' \in Data
      BY <1>2, <2>1 DEF CopyMessage, TypeOK
    <2>3. TypeOK'
      BY <1>2, <2>2 DEF CopyMessage, TypeOK, adding
    <2>4. Ring(p)'
      BY <1>2, <2>2 DEF CopyMessage, Ring, Taken, Reserved, Holds, adding
    <2> QED
      BY <2>2, <2>3, <2>4
  <1>3. CASE CommitSend
    <2>1. /\ sendPc = "read" /\ sendPc' = "idle"
          /\ UNCHANGED <<slots, nextSend, nextAdd, addPc, addSlot, sendSlot, local>>
      BY <1>3 DEF CommitSend, adding
    <2>2. Taken = 1 /\ Taken' = 0 /\ Reserved(p)' = Reserved(p)
      BY <2>1 DEF Reserved, Holds, Taken
    <2>3. pendingSends' = pendingSends - 1 /\ pendingSends \in 1 .. QueueSize
      BY <1>3, <2>2 DEF CommitSend, Ring, TypeOK
    <2>4. TypeOK'
      BY <1>3, <2>3 DEF CommitSend, TypeOK, adding
    <2>5. nextSend % QueueSize \in Index /\ Reserved(p) \in {0, 1}
      BY NextSlot DEF TypeOK, Reserved
    <2>6. Ring(p)'
      <3>1. /\ pendingSends + Reserved(p) <= QueueSize
            /\ addPc[p] = "room" => pendingSends < QueueSize
            /\ Holds(p) => nextAdd % QueueSize = Succ(addSlot[p])
            /\ \A k \in Index : slots[k] = Torn => addPc[p] = "filling" /\ addSlot[p] = k
            /\ local \in Data
        BY DEF Ring
      <3>2. nextAdd % QueueSize
              = Fold((nextSend % QueueSize) + pendingSends - 1 + Reserved(p))
        BY <2>2 DEF Ring
      <3>3. nextAdd' % QueueSize
              = Fold((nextSend' % QueueSize) + pendingSends' - Taken' + Reserved(p)')
        BY <2>1, <2>2, <2>3, <2>5, <3>2 DEF Index
      <3> QED
        BY <2>1, <2>2, <2>3, <2>5, <3>1, <3>3 DEF Ring, Holds
    <2> QED
      BY <1>3, <2>4, <2>6 DEF CommitSend, CopyMessage
  <1> QED
    BY <1>1, <1>2, <1>3 DEF Send

-----------------------------------------------------------------------------
LEMMA RingHolds ==
    ASSUME NEW p, Producers = {p}
    PROVE  Spec => [](TypeOK /\ Ring(p))
  <1>1. Init => TypeOK /\ Ring(p)
    BY InitRing
  <1>2. TypeOK /\ Ring(p) /\ [Next]_vars => (TypeOK /\ Ring(p))'
    <2> SUFFICES ASSUME TypeOK, Ring(p), [Next]_vars PROVE (TypeOK /\ Ring(p))'
      OBVIOUS
    <2>1. CASE Send
      BY <2>1, SendRing
    <2>2. CASE \E q \in Producers : Add(q)
      BY <2>2, AddRing
    <2>3. CASE UNCHANGED vars
      BY <2>3 DEF vars, adding, sending, TypeOK, Ring, Taken, Reserved, Holds
    <2> QED
      BY <2>1, <2>2, <2>3 DEF Next
  <1> QED
    BY <1>1, <1>2, PTL DEF Spec

\* No data race on the slots: with a single producer, the slot being written is
\* never the slot being read, whatever QueueSize and however often the counters
\* wrap (msg_queue.h:5-6).
THEOREM SingleProducerIsSafe ==
    ASSUME NEW p, Producers = {p}
    PROVE  Spec => [](TypeOK /\ NoSharedSlot)
  <1>1. TypeOK /\ Ring(p) => NoSharedSlot
    <2> SUFFICES ASSUME TypeOK, Ring(p), NEW q \in Producers, Holds(q), sendPc # "idle"
                 PROVE  addSlot[q] # sendSlot
      BY DEF NoSharedSlot
    <2> QED
      BY Apart
  <1>2. Spec => [](TypeOK /\ Ring(p))
    BY RingHolds
  <1> QED
    BY <1>1, <1>2, PTL

\* The counters and slots keep their ranges, for every queue size and counter
\* width (msg_queue.h:8-36).
COROLLARY QueueTypes ==
    ASSUME NEW p, Producers = {p}
    PROVE  Spec => []TypeOK
  <1>1. Spec => [](TypeOK /\ NoSharedSlot)
    BY SingleProducerIsSafe
  <1> QED
    BY <1>1, PTL

-----------------------------------------------------------------------------
\* The abstract queue in terms of the ring: its messages lie one after the other
\* from slot First on, and the slot p has reserved is the one behind them.
LEMMA Position ==
    ASSUME NEW s \in Index, NEW m \in 0 .. QueueSize
    PROVE  (s + m) % QueueSize = Fold(s + m) /\ Fold(s + m) \in Index
  <1>0. /\ QueueSize \in Nat \ {0} /\ s \in 0 .. QueueSize - 1
        /\ s + m \in 0 .. 2 * QueueSize - 1
    BY Slots DEF Index
  <1>1. CASE s + m < QueueSize
    <2>1. s + m \in 0 .. QueueSize - 1
      BY <1>0, <1>1
    <2>2. (QueueSize * 0 + (s + m)) % QueueSize = s + m
      BY <1>0, <2>1, Remainder
    <2>3. QueueSize * 0 + (s + m) = s + m
      BY <1>0
    <2> QED
      BY <1>0, <1>1, <2>1, <2>2, <2>3 DEF Fold, Index
  <1>2. CASE s + m >= QueueSize
    <2> DEFINE r == s + m - QueueSize
    <2>1. r \in 0 .. QueueSize - 1
      BY <1>0, <1>2
    <2>2. (QueueSize * 1 + r) % QueueSize = r
      <3> HIDE DEF r
      <3> QED
        BY <1>0, <2>1, Remainder
    <2>3. QueueSize * 1 + r = s + m
      BY <1>0
    <2> QED
      BY <1>0, <1>2, <2>1, <2>2, <2>3 DEF Fold, Index
  <1> QED
    BY <1>0, <1>1, <1>2

LEMMA Distinct ==
    ASSUME NEW s \in Index, NEW m \in 0 .. QueueSize - 1, NEW n \in 0 .. QueueSize - 1,
           Fold(s + m) = Fold(s + n)
    PROVE  m = n
  BY Slots DEF Fold, Index

LEMMA FirstAndUnread ==
    ASSUME NEW p, Producers = {p}, TypeOK, Ring(p)
    PROVE  First \in Index /\ Unread \in 0 .. QueueSize
  <1>1. nextSend % QueueSize \in Index
    BY NextSlot DEF TypeOK
  <1> QED
    BY <1>1, Slots DEF First, Unread, TypeOK, Ring, Taken

LEMMA ReservedSlot ==
    ASSUME NEW p, Producers = {p}, TypeOK, Ring(p), Holds(p)
    PROVE  Unread < QueueSize /\ addSlot[p] = Fold(First + Unread)
  <1> DEFINE S == nextSend % QueueSize
             A == addSlot[p]
  <1>1. S \in Index /\ A \in Index /\ pendingSends \in 0 .. QueueSize - 1
    <2>1. S \in Index /\ A \in Index
      BY NextSlot DEF TypeOK
    <2>2. pendingSends \in Nat /\ pendingSends + 1 <= QueueSize
      BY Slots DEF TypeOK, Ring, Reserved
    <2> QED
      BY <2>1, <2>2, Slots
  <1>2. Succ(A) = Fold(S + pendingSends - Taken + 1)
    BY DEF Ring, Reserved
  <1>3. \A x, y \in Index : Succ(x) = Succ(y) => x = y
    BY Slots DEF Succ, Index
  <1>4. CASE sendPc = "idle"
    <2>1. Fold(S + pendingSends + 1) = Succ(Fold(S + pendingSends))
      BY <1>1, Slots, Folding
    <2>2. Taken = 0 /\ First = S /\ Unread = pendingSends
      BY <1>4 DEF Taken, First, Unread
    <2>3. Succ(A) = Succ(Fold(S + pendingSends))
      BY <1>1, <1>2, <2>1, <2>2 DEF Index
    <2> QED
      BY <1>1, <1>3, <2>2, <2>3, Position, Slots
  <1>5. CASE sendPc = "reading"
    <2>1. /\ Taken = 1 /\ First = sendSlot /\ Unread = pendingSends
          /\ S = Succ(sendSlot) /\ sendSlot \in Index
      BY <1>5 DEF Taken, First, Unread, Ring, TypeOK
    <2>2. Fold(sendSlot + (pendingSends + 1)) = Fold(S + (pendingSends + 1) - 1)
      BY <1>1, <2>1, Slots, Folding
    <2>3. Fold(sendSlot + pendingSends + 1) = Succ(Fold(sendSlot + pendingSends))
      BY <1>1, <2>1, Slots, Folding
    <2>4. Succ(A) = Succ(Fold(sendSlot + pendingSends))
      <3>1. S + pendingSends - Taken + 1 = S + (pendingSends + 1) - 1
        BY <1>1, <2>1 DEF Index
      <3>2. sendSlot + (pendingSends + 1) = sendSlot + pendingSends + 1
        BY <1>1, <2>1 DEF Index
      <3> QED
        BY <1>2, <2>2, <2>3, <3>1, <3>2
    <2> QED
      BY <1>1, <1>3, <2>1, <2>4, Position, Slots
  <1>6. CASE sendPc = "read"
    <2>1. Taken = 1 /\ First = S /\ Unread = pendingSends - 1 /\ pendingSends >= 1
      BY <1>6 DEF Taken, First, Unread, Ring
    <2>2. Unread \in 0 .. QueueSize - 1
      BY <1>1, <2>1, Slots
    <2>3. Fold(S + Unread + 1) = Succ(Fold(S + Unread))
      BY <1>1, <2>2, Slots, Folding
    <2>4. Succ(A) = Succ(Fold(S + Unread))
      <3>1. S + pendingSends - Taken + 1 = S + Unread + 1
        BY <1>1, <2>1 DEF Index
      <3> QED
        BY <1>2, <2>3, <3>1
    <2> QED
      BY <1>1, <1>3, <2>1, <2>2, <2>4, Position, Slots
  <1> QED
    BY <1>4, <1>5, <1>6 DEF TypeOK

LEMMA QueueView ==
    ASSUME NEW p, Producers = {p}, TypeOK, Ring(p)
    PROVE  /\ Queue \in Seq(Data)
           /\ Len(Queue) = Unread
           /\ \A i \in 1 .. Unread : Queue[i] = slots[Fold(First + i - 1)]
           /\ \A i \in 1 .. Unread : Fold(First + i - 1) \in Index
  <1>1. First \in Index /\ Unread \in 0 .. QueueSize
    BY FirstAndUnread
  <1>2. ASSUME NEW i \in 1 .. Unread
        PROVE  /\ (First + i - 1) % QueueSize = Fold(First + i - 1)
               /\ Fold(First + i - 1) \in Index
               /\ slots[Fold(First + i - 1)] \in Data
    <2>1. i - 1 \in 0 .. QueueSize - 1 /\ i - 1 \in 0 .. QueueSize /\ i - 1 < Unread
      BY <1>1, Slots
    <2>2. First + (i - 1) = First + i - 1
      BY <1>1, <2>1 DEF Index
    <2>3. /\ (First + i - 1) % QueueSize = Fold(First + i - 1)
          /\ Fold(First + i - 1) \in Index
      BY <1>1, <2>1, <2>2, Position
    <2>4. slots[Fold(First + i - 1)] # Torn
      <3>1. SUFFICES ASSUME slots[Fold(First + i - 1)] = Torn PROVE FALSE
        OBVIOUS
      <3>2. addPc[p] = "filling" /\ addSlot[p] = Fold(First + i - 1)
        BY <2>3, <3>1 DEF Ring
      <3>3. Unread \in 0 .. QueueSize - 1 /\ Fold(First + (i - 1)) = Fold(First + Unread)
        BY <1>1, <2>2, <3>2, ReservedSlot, Slots DEF Holds
      <3>4. i - 1 = Unread
        BY <1>1, <2>1, <3>3, Distinct
      <3> QED
        BY <1>1, <2>1, <3>4
    <2> QED
      BY <2>3, <2>4 DEF TypeOK
  <1>3. \A i \in 1 .. Unread : slots[(First + i - 1) % QueueSize] \in Data
    BY <1>2
  <1>4. Queue \in Seq(Data)
    BY <1>1, <1>3, IsASeq, Slots DEF Queue
  <1>5. Len(Queue) = Unread
    BY <1>1, Slots DEF Queue
  <1> QED
    BY <1>2, <1>4, <1>5 DEF Queue

-----------------------------------------------------------------------------
\* The steps that keep First, Unread, the slots of the queue and the message
\* read last are stutters of the FIFO.
LEMMA SameQueue ==
    ASSUME NEW p, Producers = {p}, TypeOK, Ring(p),
           First' = First, Unread' = Unread, local' = local,
           \A k \in Index : slots'[k] # slots[k] => Holds(p) /\ k = addSlot[p]
    PROVE  UNCHANGED <<Queue, local>>
  <1>1. First \in Index /\ Unread \in 0 .. QueueSize
    BY FirstAndUnread
  <1>2. ASSUME NEW i \in 1 .. Unread
        PROVE  slots'[(First + i - 1) % QueueSize] = slots[(First + i - 1) % QueueSize]
    <2>1. i - 1 \in 0 .. QueueSize - 1 /\ i - 1 \in 0 .. QueueSize /\ i - 1 < Unread
      BY <1>1, Slots
    <2>2. First + (i - 1) = First + i - 1
      BY <1>1, <2>1 DEF Index
    <2>3. /\ (First + i - 1) % QueueSize = Fold(First + (i - 1))
          /\ Fold(First + (i - 1)) \in Index
      BY <1>1, <2>1, <2>2, Position
    <2>4. SUFFICES ASSUME Holds(p), Fold(First + (i - 1)) = addSlot[p] PROVE FALSE
      BY <2>3
    <2>5. Unread \in 0 .. QueueSize - 1 /\ Fold(First + (i - 1)) = Fold(First + Unread)
      BY <1>1, <2>4, ReservedSlot, Slots
    <2>6. i - 1 = Unread
      BY <1>1, <2>1, <2>5, Distinct
    <2> QED
      BY <1>1, <2>1, <2>6
  <1>3. Queue' = Queue
    BY <1>2 DEF Queue
  <1> QED
    BY <1>3

LEMMA InitFifo ==
    ASSUME Init
    PROVE  Fifo!Init
  <1>1. Unread = 0
    BY DEF Init, Unread
  <1>2. Queue = <<>>
    BY <1>1 DEF Queue
  <1> QED
    BY <1>2 DEF Init, Fifo!Init

LEMMA AddFifo ==
    ASSUME NEW p, Producers = {p}, TypeOK, Ring(p), Add(p)
    PROVE  [Fifo!Next]_(Fifo!vars)
  <1> USE DEF Fifo!vars
  <1>1. CASE FindRoom(p) \/ GetNextAddMessage(p) \/ BeginFill(p)
    <2>1. /\ First' = First /\ Unread' = Unread /\ local' = local
          /\ \A k \in Index : slots'[k] # slots[k] => Holds(p) /\ k = addSlot[p]
      BY <1>1 DEF FindRoom, GetNextAddMessage, BeginFill, First, Unread, sending, Holds,
                  TypeOK
    <2> QED
      BY <2>1, SameQueue
  <1>2. ASSUME NEW d \in Data, EndFill(p, d) PROVE [Fifo!Next]_(Fifo!vars)
    <2>1. /\ First' = First /\ Unread' = Unread /\ local' = local
          /\ \A k \in Index : slots'[k] # slots[k] => Holds(p) /\ k = addSlot[p]
      BY <1>2 DEF EndFill, First, Unread, sending, Holds, TypeOK
    <2> QED
      BY <2>1, SameQueue
  <1>3. CASE CommitAdd(p)
    <2> DEFINE d == slots[addSlot[p]]
    <2>1. /\ Holds(p) /\ addPc[p] = "filled"
          /\ UNCHANGED <<slots, nextSend, sendPc, sendSlot, local>>
          /\ pendingSends' = (pendingSends + 1) % Wrap
      BY <1>3 DEF CommitAdd, Holds, sending
    <2>2. Unread \in 0 .. QueueSize - 1 /\ addSlot[p] = Fold(First + Unread)
      BY <2>1, FirstAndUnread, ReservedSlot, Slots
    <2>3. pendingSends' = pendingSends + 1
      BY <2>1, Slots DEF Ring, Reserved, TypeOK
    <2>4. Unread' = Unread + 1 /\ First' = First
      BY <2>1, <2>3 DEF Unread, First, TypeOK
    <2>5. TypeOK' /\ Ring(p)'
      BY AddRing
    <2>6. d \in Data
      <3>1. addSlot[p] \in Index
        BY DEF TypeOK
      <3> QED
        BY <2>1, <3>1 DEF Ring, TypeOK
    <2>7. Queue \in Seq(Data) /\ Len(Queue) = Unread
      BY QueueView
    <2>8. First \in Index
      BY FirstAndUnread
    <2>9. (First + (Unread + 1) - 1) % QueueSize = addSlot[p]
      <3>1. (First + Unread) % QueueSize = Fold(First + Unread)
        BY <2>2, <2>8, Position, Slots
      <3>2. First + (Unread + 1) - 1 = First + Unread
        BY <2>2, <2>8 DEF Index
      <3> QED
        BY <2>2, <3>1, <3>2
    <2>10. Queue' = Append(Queue, d)
      <3>1. Queue' = [i \in 1 .. Unread + 1 |-> slots[(First + i - 1) % QueueSize]]
        BY <2>1, <2>4 DEF Queue
      <3>2. Append(Queue, d)
              = [i \in 1 .. Unread + 1 |-> IF i \in 1 .. Unread THEN Queue[i] ELSE d]
        BY <2>7
      <3>3. \A i \in 1 .. Unread + 1 :
                slots[(First + i - 1) % QueueSize]
                  = IF i \in 1 .. Unread THEN Queue[i] ELSE d
        <4>1. \A i \in 1 .. Unread : Queue[i] = slots[(First + i - 1) % QueueSize]
          BY DEF Queue
        <4>2. \A i \in 1 .. Unread + 1 : i \notin 1 .. Unread => i = Unread + 1
          BY <2>2
        <4> HIDE DEF d
        <4> QED
          BY <2>9, <4>1, <4>2 DEF d
      <3> QED
        BY <3>1, <3>2, <3>3
    <2>11. Fifo!Put(d)
      BY <2>1, <2>2, <2>7, <2>10, Slots DEF Fifo!Put
    <2> QED
      BY <2>6, <2>11 DEF Fifo!Next
  <1> QED
    BY <1>1, <1>2, <1>3 DEF Add

LEMMA SendFifo ==
    ASSUME NEW p, Producers = {p}, TypeOK, Ring(p), Send
    PROVE  [Fifo!Next]_(Fifo!vars)
  <1> USE DEF Fifo!vars
  <1>1. CASE GetNextSendMessage
    <2>1. /\ First' = First /\ Unread' = Unread /\ local' = local /\ slots' = slots
      BY <1>1 DEF GetNextSendMessage, First, Unread, adding
    <2> QED
      BY <2>1, SameQueue
  <1>2. CASE CopyMessage
    <2>1. /\ sendPc = "reading" /\ sendPc' = "read" /\ local' = slots[sendSlot]
          /\ UNCHANGED <<slots, nextSend, pendingSends, sendSlot>>
      BY <1>2 DEF CopyMessage
    <2>2. /\ Unread = pendingSends /\ Unread' = Unread - 1 /\ Unread \in 1 .. QueueSize
          /\ First = sendSlot /\ First' = Succ(First) /\ First \in Index
      BY <2>1, Slots DEF Unread, First, Ring, Taken, TypeOK
    <2>3. /\ Queue \in Seq(Data) /\ Len(Queue) = Unread
          /\ \A i \in 1 .. Unread : Queue[i] = slots[Fold(First + i - 1)]
      BY QueueView
    <2>4. ASSUME NEW i \in 1 .. Unread - 1
          PROVE  slots[(Succ(First) + i - 1) % QueueSize] = Queue[i + 1]
      <3>1. /\ i \in 0 .. QueueSize /\ i > 0 /\ i - 1 \in 0 .. QueueSize
            /\ i + 1 \in 1 .. Unread /\ Succ(First) \in Index
        BY <2>2, Slots
      <3>2. (Succ(First) + (i - 1)) % QueueSize = Fold(Succ(First) + (i - 1))
        BY <3>1, Position
      <3>3. Fold(First + i) = Fold(Succ(First) + i - 1)
        BY <2>2, <3>1, Folding
      <3>4. Succ(First) + (i - 1) = Succ(First) + i - 1 /\ First + (i + 1) - 1 = First + i
        BY <2>2, <3>1 DEF Index
      <3> QED
        BY <2>3, <3>1, <3>2, <3>3, <3>4
    <2>5. Queue' = [i \in 1 .. Unread - 1 |-> slots[(Succ(First) + i - 1) % QueueSize]]
      BY <2>1, <2>2 DEF Queue
    <2>6. Queue # <<>> /\ Head(Queue) = Queue[1]
      BY <2>2, <2>3
    <2>7. Queue' = Tail(Queue)
      <3>1. /\ Tail(Queue) \in Seq(Data) /\ Len(Tail(Queue)) = Unread - 1
            /\ \A i \in 1 .. Unread - 1 : Tail(Queue)[i] = Queue[i + 1]
        BY <2>3, <2>6, HeadTailProperties
      <3>2. Tail(Queue) = [i \in 1 .. Unread - 1 |-> Queue[i + 1]]
        BY <3>1, LenProperties
      <3> QED
        BY <2>4, <2>5, <3>2
    <2>8. local' = Head(Queue)
      <3>1. Queue[1] = slots[Fold(First + 1 - 1)] /\ First + 1 - 1 = First
        BY <2>2, <2>3 DEF Index
      <3>2. Fold(First) = First
        BY <2>2, Slots DEF Fold, Index
      <3> QED
        BY <2>1, <2>2, <2>6, <3>1, <3>2
    <2> QED
      BY <2>6, <2>7, <2>8 DEF Fifo!Take, Fifo!Next
  <1>3. CASE CommitSend
    <2>1. /\ First' = First /\ Unread' = Unread /\ local' = local /\ slots' = slots
      <3>1. sendPc = "read" /\ pendingSends \in 1 .. QueueSize
        BY <1>3 DEF CommitSend, Ring, Taken, TypeOK
      <3> QED
        BY <1>3, <3>1, Slots DEF CommitSend, First, Unread
    <2> QED
      BY <2>1, SameQueue
  <1> QED
    BY <1>1, <1>2, <1>3 DEF Send

\* MsgQueue implements BoundedFifo for one producer thread and another thread as
\* the consumer: nothing is lost, duplicated, torn or reordered, for every queue
\* size and every counter width it divides (msg_queue.h:5-36).
THEOREM ImplementsFifo ==
    ASSUME NEW p, Producers = {p}
    PROVE  Spec => IsFifo
  <1>1. Init => Fifo!Init
    BY InitFifo
  <1>2. TypeOK /\ Ring(p) /\ [Next]_vars => [Fifo!Next]_(Fifo!vars)
    <2> SUFFICES ASSUME TypeOK, Ring(p), [Next]_vars PROVE [Fifo!Next]_(Fifo!vars)
      OBVIOUS
    <2>1. CASE Send
      BY <2>1, SendFifo
    <2>2. CASE \E q \in Producers : Add(q)
      BY <2>2, AddFifo
    <2>3. CASE UNCHANGED vars
      BY <2>3, SameQueue DEF vars, adding, sending, First, Unread, Fifo!vars
    <2> QED
      BY <2>1, <2>2, <2>3 DEF Next
  <1>3. Spec => [](TypeOK /\ Ring(p))
    BY RingHolds
  <1> QED
    BY <1>1, <1>2, <1>3, PTL DEF Spec, IsFifo, Fifo!Spec
=============================================================================
