----------------------------- MODULE MCMsgQueue -----------------------------
(* Three processes and a ring of three, with messages of two types. *)
EXTENDS MsgQueue

CONSTANTS MaxVruntime, MaxListed, MaxQueued

MCMessages == {[type |-> 1, body |-> "a"], [type |-> 1, body |-> "b"], [type |-> 2, body |-> "a"]}

Bound ==
    /\ \A p \in Processes : sched.vruntime[p] <= MaxVruntime
    /\ Len(waiting_senders) <= MaxListed
    /\ Len(waiting_receivers) <= MaxListed
    /\ Len(sched.rq) <= MaxQueued
=============================================================================
