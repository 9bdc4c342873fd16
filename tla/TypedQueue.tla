----------------------------- MODULE TypedQueue -----------------------------
(***************************************************************************)
(* What a message queue promises its users: a bounded queue from which a   *)
(* receiver takes the oldest message, or the oldest of one type, and that  *)
(* tells a receiver "none" only when there is none of that type.           *)
(***************************************************************************)
EXTENDS Naturals, Sequences, SequencesExt

CONSTANTS Capacity, Messages, Types, NoMessage

AnyType == 0    \* msgtyp of a receiver that takes whatever is oldest

VARIABLES
    queue,      \* the messages sent and not received, oldest first
    received    \* the result of the latest receive

absVars == <<queue, received>>

Init ==
    /\ queue = <<>>
    /\ received = NoMessage

Matching(t) == {i \in DOMAIN queue : t \in {AnyType, queue[i].type}}

Send(m) ==
    /\ Len(queue) < Capacity
    /\ queue' = Append(queue, m)
    /\ UNCHANGED received

Receive(t) ==
    \E i \in Matching(t) :
        /\ \A j \in Matching(t) : i <= j
        /\ received' = queue[i]
        /\ queue' = RemoveAt(queue, i)

ReceiveNothing(t) ==
    /\ Matching(t) = {}
    /\ received' = NoMessage
    /\ UNCHANGED queue

Next ==
    \/ \E m \in Messages : Send(m)
    \/ \E t \in Types : Receive(t) \/ ReceiveNothing(t)

Spec == Init /\ [][Next]_absVars
=============================================================================
