------------------------------ MODULE MsgQueue ------------------------------
(***************************************************************************)
(* One message queue of src/src/kernel/ipc.c, in use, and the processes    *)
(* that send to it and receive from it: msgsnd, msgrcv and, since it wakes *)
(* a process out of the wait it is in, signal_send, over the scheduler of  *)
(* SchedOps.                                                               *)
(*                                                                         *)
(* As in Semaphore, the code between two calls of schedule() is one step   *)
(* of the current process.  pc[p] is "user" outside of the calls and       *)
(* "sending" or "receiving" behind schedule() in a call's wait loop;       *)
(* arg[p] is then what the call was given: the message, or the type.       *)
(***************************************************************************)
EXTENDS SchedOps

CONSTANTS
    MSG_QUEUE_SIZE,
    Messages,       \* records with a type and what else tells them apart
    Types,          \* the msgtyp receivers ask for; 0 asks for any
    Deltas,         \* as in Scheduler
    NoMessage       \* the slots of the ring nothing was stored in

Processes == Slots \ {Idle}
Ring      == 0 .. (MSG_QUEUE_SIZE - 1)

ASSUME MsgQueueAssumption ==
    /\ MSG_QUEUE_SIZE \in Nat \ {0}
    /\ \A m \in Messages : m.type \in Nat \ {0}
    /\ Types \subseteq Nat /\ Types # {}
    /\ Deltas \subseteq Nat
    /\ NoMessage \notin Messages

VARIABLES
    sched,
    messages, head, tail, count,        \* of struct message_queue
    waiting_senders, waiting_receivers,
    pc, arg,
    received    \* what the latest msgrcv of all put in its caller's buffer

ringVars == <<messages, head, tail, count>>
vars == <<sched, ringVars, waiting_senders, waiting_receivers, pc, arg, received>>

TypeOK ==
    /\ sched.current \in Slots
    /\ messages \in [Ring -> Messages \cup {NoMessage}]
    /\ head \in Ring
    /\ tail \in Ring
    /\ count \in 0 .. MSG_QUEUE_SIZE
    /\ waiting_senders \in Seq(Processes)
    /\ waiting_receivers \in Seq(Processes)
    /\ pc \in [Processes -> {"user", "sending", "receiving"}]
    /\ \A p \in Processes :
           arg[p] \in CASE pc[p] = "user"      -> {NoMessage}
                        [] pc[p] = "sending"   -> Messages
                        [] pc[p] = "receiving" -> Types
    /\ received \in Messages \cup {NoMessage}
-----------------------------------------------------------------------------
(* scheduler_init, process_create for each process, msgget, and the first  *)
(* schedule().                                                             *)
Created[p \in Slots] ==
    IF p = Idle THEN SchedInit ELSE ProcessCreate(Created[p - 1], p, "NORMAL")

Init ==
    /\ sched = Schedule(Created[MAX_PROCESSES - 1], 0)
    /\ messages = [i \in Ring |-> NoMessage]
    /\ head = 0 /\ tail = 0 /\ count = 0
    /\ waiting_senders = <<>>
    /\ waiting_receivers = <<>>
    /\ pc = [p \in Processes |-> "user"]
    /\ arg = [p \in Processes |-> NoMessage]
    /\ received = NoMessage

(* Seeded fault: one process is woken, and the list forgotten. *)
WakeOne(s, list) == IF list = <<>> THEN s ELSE CfsEnqueue(s, Head(list))

(* The loops that end a call: everyone listed, in order, becomes ready. *)
WakeAll(s, list) == FoldLeft(CfsEnqueue, s, list)

Return(p) ==
    /\ pc' = [pc EXCEPT ![p] = "user"]
    /\ arg' = [arg EXCEPT ![p] = NoMessage]

Stay(p, where, what, d) ==
    /\ sched' = Schedule(Block(sched), d)
    /\ pc' = [pc EXCEPT ![p] = where]
    /\ arg' = [arg EXCEPT ![p] = what]
    /\ UNCHANGED <<ringVars, received>>

(* Seeded faults: an index that does not wrap, and a tail that stays. *)
NoWrap(i)   == i + 1
TailKept(i) == i

Next1(i) == (i + 1) % MSG_QUEUE_SIZE
Prev1(i) == (i - 1 + MSG_QUEUE_SIZE) % MSG_QUEUE_SIZE

(* Seeded fault: one slot of the ring is never used. *)
FullTooSoon == count >= MSG_QUEUE_SIZE - 1

Full == count >= MSG_QUEUE_SIZE

(* msgsnd from its loop's test on: p waits, or stores m at the tail and    *)
(* wakes the receivers.                                                    *)
SendOrWait(p, m, d) ==
    \/ /\ Full
       /\ waiting_senders' = Append(waiting_senders, p)
       /\ Stay(p, "sending", m, d)
       /\ UNCHANGED waiting_receivers
    \/ /\ ~Full
       /\ messages' = [messages EXCEPT ![tail] = m]
       /\ tail' = Next1(tail)
       /\ count' = count + 1
       /\ sched' = WakeAll(sched, waiting_receivers)
       /\ waiting_receivers' = <<>>
       /\ Return(p)
       /\ UNCHANGED <<head, waiting_senders, received>>

(* How far behind the head the messages of type t lie. *)
Matches(t) ==
    {i \in 0 .. (count - 1) : t \in {0, messages[(head + i) % MSG_QUEUE_SIZE].type}}

(* Seeded fault: the last message behind the hole does not move. *)
CloseHoleShort(at) ==
    LET moved == (tail - at - 2 + 2 * MSG_QUEUE_SIZE) % MSG_QUEUE_SIZE
    IN  [i \in Ring |->
            IF (i - at + MSG_QUEUE_SIZE) % MSG_QUEUE_SIZE < moved
              THEN messages[Next1(i)] ELSE messages[i]]

(* A message that is not at the head leaves a hole; what lies behind it,   *)
(* up to and with the slot the tail is at, moves up by one.                *)
CloseHole(at) ==
    LET moved == (tail - at + MSG_QUEUE_SIZE) % MSG_QUEUE_SIZE
    IN  [i \in Ring |->
            IF (i - at + MSG_QUEUE_SIZE) % MSG_QUEUE_SIZE < moved
              THEN messages[Next1(i)] ELSE messages[i]]

Take(p, at) ==
    /\ received' = messages[at]
    /\ IF at = head
         THEN head' = Next1(head) /\ UNCHANGED <<messages, tail>>
         ELSE messages' = CloseHole(at) /\ tail' = Prev1(tail) /\ UNCHANGED head
    /\ count' = count - 1
    /\ sched' = WakeAll(sched, waiting_senders)
    /\ waiting_senders' = <<>>
    /\ Return(p)
    /\ UNCHANGED waiting_receivers

(* msgrcv's -1. *)
Nothing(p) ==
    /\ received' = NoMessage
    /\ Return(p)
    /\ UNCHANGED <<sched, ringVars, waiting_senders, waiting_receivers>>

(* msgrcv from its loop's test on: p waits, or takes the first message of  *)
(* its type and wakes the senders, or fails for want of one.               *)
ReceiveOrWait(p, t, d) ==
    \/ /\ count = 0
       /\ waiting_receivers' = Append(waiting_receivers, p)
       /\ Stay(p, "receiving", t, d)
       /\ UNCHANGED waiting_senders
    \/ \E i \in Matches(t) :
           /\ \A j \in Matches(t) : i <= j
           /\ Take(p, (head + i) % MSG_QUEUE_SIZE)
    \/ /\ count > 0 /\ Matches(t) = {}
       /\ Nothing(p)

Running(p, where) == sched.current = p /\ pc[p] = where

Msgsnd(p, m, d)   == Running(p, "user") /\ SendOrWait(p, m, d)
MsgsndResume(p, d) == Running(p, "sending") /\ SendOrWait(p, arg[p], d)
Msgrcv(p, t, d)   == Running(p, "user") /\ ReceiveOrWait(p, t, d)
(* Seeded fault: a receiver that finds nothing when it wakes returns. *)
MsgrcvGivesUp(p, d) ==
    /\ Running(p, "receiving")
    /\ IF count = 0 THEN Nothing(p) ELSE ReceiveOrWait(p, arg[p], d)

MsgrcvResume(p, d) == Running(p, "receiving") /\ ReceiveOrWait(p, arg[p], d)

(* With IPC_NOWAIT, where the calls above would wait. *)
MsgrcvNoWait(p) == Running(p, "user") /\ count = 0 /\ Nothing(p)

(* sys_kill, of any process but the idle one, by one that is in no call. *)
SignalSent(p, q) ==
    /\ Running(p, "user")
    /\ sched' = SignalSend(sched, q)
    /\ UNCHANGED <<ringVars, waiting_senders, waiting_receivers, pc, arg, received>>

(* sys_exit, of a process that is in no call.  Nobody here has a parent.   *)
(* Should process_exit's schedule() ever come back, sys_exit returns and   *)
(* the process goes on as before.                                          *)
Exit(p, d) ==
    /\ Running(p, "user")
    /\ sched' = ProcessExit(sched, d)
    /\ UNCHANGED <<ringVars, waiting_senders, waiting_receivers, pc, arg, received>>

(* sys_sched_yield; the idle process does nothing else. *)
Yield(d) ==
    /\ sched.current # Idle => pc[sched.current] = "user"
    /\ sched' = Schedule(sched, d)
    /\ UNCHANGED <<ringVars, waiting_senders, waiting_receivers, pc, arg, received>>

Next ==
    \/ \E p \in Processes, m \in Messages, d \in Deltas : Msgsnd(p, m, d)
    \/ \E p \in Processes, d \in Deltas : MsgsndResume(p, d)
    \/ \E p \in Processes, t \in Types, d \in Deltas : Msgrcv(p, t, d)
    \/ \E p \in Processes, d \in Deltas : MsgrcvResume(p, d)
    \/ \E p \in Processes : MsgrcvNoWait(p)
    \/ \E p, q \in Processes : SignalSent(p, q)
    \/ \E p \in Processes, d \in Deltas : Exit(p, d)
    \/ \E d \in Deltas : Yield(d)

Spec == Init /\ [][Next]_vars
-----------------------------------------------------------------------------
Content == [i \in 1 .. count |-> messages[(head + i - 1) % MSG_QUEUE_SIZE]]

(* The ring, with messages taken out of its middle and with whoever is     *)
(* woken, overtaken or signalled in between, is a bounded queue: nothing   *)
(* is lost, doubled or reordered, a typed receive gets the oldest message  *)
(* of its type, and it fails only when there is none.                      *)
Abstract == INSTANCE TypedQueue WITH
    Capacity <- MSG_QUEUE_SIZE, queue <- Content

QueueSpec == Abstract!Spec

(* The tail is where head and count put it, whichever of the three a call  *)
(* moved: the next msgsnd overwrites no message that is still queued.      *)
RingConsistent == tail = (head + count) % MSG_QUEUE_SIZE

(* Nobody stays listed as waiting for what has come: receivers are listed  *)
(* only while the queue is empty, senders only while it is full.           *)
NobodyWaitsInVain ==
    /\ waiting_receivers # <<>> => count = 0
    /\ waiting_senders # <<>> => count = MSG_QUEUE_SIZE

(* No wake-up is lost: who is blocked is on the list that the next msgsnd  *)
(* or msgrcv will go through, even after a signal woke it in between.      *)
BlockedIsListed ==
    \A p \in Processes :
        sched.state[p] = "BLOCKED" =>
            \/ pc[p] = "receiving" /\ Contains(waiting_receivers, p)
            \/ pc[p] = "sending" /\ Contains(waiting_senders, p)

(* And nobody is listed who has left the call: no later msgsnd or msgrcv   *)
(* makes a process ready that waits for something else.                    *)
ListedIsInCall ==
    /\ \A i \in DOMAIN waiting_receivers : pc[waiting_receivers[i]] = "receiving"
    /\ \A i \in DOMAIN waiting_senders : pc[waiting_senders[i]] = "sending"

(* "Should not return" (syscalls.c:229): a process that has exited does    *)
(* not run again, however often the queue it waited on has woken it.       *)
ExitIsFinal ==
    [][\A p \in Processes : sched.state[p] = "ZOMBIE" => sched'.state[p] = "ZOMBIE"]_vars
=============================================================================
