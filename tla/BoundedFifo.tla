---------------------------- MODULE BoundedFifo ----------------------------
(***************************************************************************)
(* What MsgQueue<ElementType, QueueSize> promises its two users: a FIFO    *)
(* of at most Capacity messages, each message put once, complete, and      *)
(* taken once, in the order of the puts.                                   *)
(***************************************************************************)
EXTENDS Naturals, Sequences

CONSTANTS
    Data,       \* the messages
    Capacity    \* QueueSize of the C++ template

VARIABLES
    queue,      \* the committed messages nobody has taken yet
    taken       \* the message the consumer took last

vars == <<queue, taken>>

Init ==
    /\ queue = <<>>
    /\ taken \in Data

Put(d) ==
    /\ Len(queue) < Capacity
    /\ queue' = Append(queue, d)
    /\ UNCHANGED taken

Take ==
    /\ queue # <<>>
    /\ taken' = Head(queue)
    /\ queue' = Tail(queue)

Next == Take \/ \E d \in Data : Put(d)

Spec == Init /\ [][Next]_vars
=============================================================================
