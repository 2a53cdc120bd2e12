------------------------------ MODULE MsgQueue ------------------------------
(***************************************************************************)
(* MsgQueue of msg_queue.h, one atomic operation per step.                 *)
(*                                                                         *)
(* A producer reserves a slot (GetNextAddMessage), fills it in place and   *)
(* publishes it (CommitAdd); the consumer takes the slot at nextSend_      *)
(* (GetNextSendMessage), reads it and releases it (CommitSend).  SendQueue *)
(* copies the message out before CommitSend, JoinAskQueue uses it in place *)
(* until CommitSend.  The three counters are atomic_uint and wrap: the     *)
(* slot index is the counter modulo QueueSize, which is only continuous    *)
(* across the wrap because QueueSize divides 2^32.                         *)
(*                                                                         *)
(* The header promises a working queue for one producer thread and one     *)
(* consumer thread.  Producers and Consumer name the threads, so that the  *)
(* same module also describes what happens when there are two producers;   *)
(* a thread that produces and consumes does one at a time.                 *)
(***************************************************************************)
EXTENDS Integers

CONSTANTS
    QueueSize,  \* the template parameter
    Wrap,       \* the counters are kept modulo Wrap (2^32 in the code)
    Data,       \* complete messages
    Torn,       \* a slot that is being written
    Producers,  \* the threads that add
    Consumer    \* the thread that sends

ASSUME SizeAssumption == QueueSize \in Nat \ {0}
ASSUME WrapAssumption == Wrap \in Nat /\ Wrap > QueueSize /\ Wrap % QueueSize = 0
ASSUME DataAssumption == Data # {} /\ Torn \notin Data

VARIABLES
    slots,          \* queue_
    nextAdd,        \* nextAdd_
    nextSend,       \* nextSend_
    pendingSends,   \* pendingSends_
    addPc,          \* how far each producer is
    addSlot,        \* the slot each producer got from GetNextAddMessage
    sendPc,         \* how far the consumer is
    sendSlot,       \* the slot it got from GetNextSendMessage
    local           \* the message it read last

adding == <<nextAdd, addPc, addSlot>>
sending == <<nextSend, sendPc, sendSlot, local>>
vars == <<slots, pendingSends, adding, sending>>

Index == 0 .. QueueSize - 1

Init ==
    /\ slots \in [Index -> Data]
    /\ nextAdd = 0
    /\ nextSend = 0
    /\ pendingSends = 0
    /\ addPc = [p \in Producers |-> "idle"]
    /\ addSlot = [p \in Producers |-> 0]
    /\ sendPc = "idle"
    /\ sendSlot = 0
    /\ local \in Data

(***************************************************************************)
(* GetNextAddMessage is two steps: the load of pendingSends_ and the       *)
(* increment of nextAdd_.                                                  *)
(***************************************************************************)
RoomOffByOne == pendingSends <= QueueSize       \* mutant of Room
Room == pendingSends < QueueSize

FindRoom(p) ==
    /\ addPc[p] = "idle"
    /\ p = Consumer => sendPc = "idle"
    /\ Room
    /\ addPc' = [addPc EXCEPT ![p] = "room"]
    /\ UNCHANGED <<slots, nextAdd, pendingSends, addSlot, sending>>

GetNextAddMessage(p) ==
    /\ addPc[p] = "room"
    /\ addPc' = [addPc EXCEPT ![p] = "reserved"]
    /\ addSlot' = [addSlot EXCEPT ![p] = nextAdd % QueueSize]
    /\ nextAdd' = (nextAdd + 1) % Wrap
    /\ UNCHANGED <<slots, pendingSends, sending>>

\* The caller writes its message into the slot, which takes time.
BeginFill(p) ==
    /\ addPc[p] = "reserved"
    /\ addPc' = [addPc EXCEPT ![p] = "filling"]
    /\ slots' = [slots EXCEPT ![addSlot[p]] = Torn]
    /\ UNCHANGED <<nextAdd, pendingSends, addSlot, sending>>

EndFill(p, d) ==
    /\ addPc[p] = "filling"
    /\ addPc' = [addPc EXCEPT ![p] = "filled"]
    /\ slots' = [slots EXCEPT ![addSlot[p]] = d]
    /\ UNCHANGED <<nextAdd, pendingSends, addSlot, sending>>

\* Mutant of CommitAdd: publish first, fill later.
CommitAddEarly(p) ==
    /\ addPc[p] = "filling"
    /\ addPc' = [addPc EXCEPT ![p] = "idle"]
    /\ pendingSends' = (pendingSends + 1) % Wrap
    /\ UNCHANGED <<slots, nextAdd, addSlot, sending>>

CommitAdd(p) ==
    /\ addPc[p] = "filled"
    /\ addPc' = [addPc EXCEPT ![p] = "idle"]
    /\ pendingSends' = (pendingSends + 1) % Wrap
    /\ UNCHANGED <<slots, nextAdd, addSlot, sending>>

(***************************************************************************)
(* The consumer calls GetNextSendMessage only when HavePendingSends.  One  *)
(* step: between the two, producers can only raise pendingSends_.          *)
(***************************************************************************)
HavePendingSendsSlow == pendingSends > 1         \* mutant of HavePendingSends
HavePendingSends == pendingSends # 0

GetNextSendMessage ==
    /\ sendPc = "idle"
    /\ Consumer \in Producers => addPc[Consumer] = "idle"
    /\ HavePendingSends
    /\ sendPc' = "reading"
    /\ sendSlot' = nextSend % QueueSize
    /\ nextSend' = (nextSend + 1) % Wrap
    /\ UNCHANGED <<slots, pendingSends, adding, local>>

CopyMessage ==
    /\ sendPc = "reading"
    /\ sendPc' = "read"
    /\ local' = slots[sendSlot]
    /\ UNCHANGED <<slots, nextSend, pendingSends, adding, sendSlot>>

CommitSend ==
    /\ sendPc = "read"
    /\ sendPc' = "idle"
    /\ pendingSends' = (pendingSends - 1) % Wrap
    /\ UNCHANGED <<slots, nextSend, adding, sendSlot, local>>

Add(p) ==
    \/ FindRoom(p)
    \/ GetNextAddMessage(p)
    \/ BeginFill(p)
    \/ \E d \in Data : EndFill(p, d)
    \/ CommitAdd(p)

Send == GetNextSendMessage \/ CopyMessage \/ CommitSend

Next == Send \/ \E p \in Producers : Add(p)

\* The consumer polls: both consumers are loops that run again and again.
Spec == Init /\ [][Next]_vars /\ WF_vars(Send)

-----------------------------------------------------------------------------
Steps == {"idle", "room", "reserved", "filling", "filled"}

\* The counters keep their width, the slots hold messages or one in the
\* making, and every thread is at a step of its operation.
TypeOK ==
    /\ slots \in [Index -> Data \cup {Torn}]
    /\ nextAdd \in 0 .. Wrap - 1
    /\ nextSend \in 0 .. Wrap - 1
    /\ pendingSends \in 0 .. QueueSize
    /\ addPc \in [Producers -> Steps]
    /\ addSlot \in [Producers -> Index]
    /\ sendPc \in {"idle", "reading", "read"}
    /\ sendSlot \in Index
    /\ local \in Data \cup {Torn}

Holds(p) == addPc[p] \in {"reserved", "filling", "filled"}

\* The slot a producer is between GetNextAddMessage and CommitAdd with is never
\* the slot the consumer is between GetNextSendMessage and CommitSend with: the
\* two threads write and read it without a lock (msg_queue.h:5-6).
NoSharedSlot ==
    \A p \in Producers : Holds(p) /\ sendPc # "idle" => addSlot[p] # sendSlot

\* The queue of the abstract specification: the slots from the one the consumer
\* reads next, as many as are committed and not yet read.
Unread == IF sendPc = "read" THEN pendingSends - 1 ELSE pendingSends
First == IF sendPc = "reading" THEN sendSlot ELSE nextSend % QueueSize
Queue == [i \in 1 .. Unread |-> slots[(First + i - 1) % QueueSize]]
Fifo == INSTANCE BoundedFifo WITH Capacity <- QueueSize, queue <- Queue, taken <- local

\* The ring is a bounded FIFO: messages come out complete, once, in the order of
\* their CommitAdd, also after the counters wrap.
IsFifo == Fifo!Spec

\* A consumer that keeps polling takes the committed messages: weak fairness of
\* Fifo!Take, whose guard is that the queue is not empty.
IsServed == []<>(Queue = <<>>) \/ []<><<Fifo!Take>>_(Fifo!vars)

=============================================================================
