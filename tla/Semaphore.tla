----------------------------- MODULE Semaphore -----------------------------
(***************************************************************************)
(* A semaphore of src/src/kernel/ipc.c and the processes that use it as a  *)
(* lock: sem_wait_timeout, sem_signal and the tick handler that is to end  *)
(* timed waits, over the scheduler of SchedOps.                            *)
(*                                                                         *)
(* schedule() switches only where it is called, so the code between two of *)
(* its calls is one step of the process that is current.  pc[p] is where p *)
(* will go on: "user" outside of any call, "waiting" behind schedule() in  *)
(* the wait loop of sem_wait_timeout, "critical" once it has the lock.     *)
(* A timer interrupt is taken between two such steps.                      *)
(***************************************************************************)
EXTENDS SchedOps

CONSTANTS
    PriorityOf,     \* of each process: how sem_wait_timeout compares them
    Timeouts,       \* the timeout_ms processes pass; 0 is no timeout
    Deltas          \* as in Scheduler

Processes == Slots \ {Idle}

ASSUME SemaphoreAssumption ==
    /\ PriorityOf \in [Processes -> Priorities]
    /\ Timeouts \subseteq Nat
    /\ Deltas \subseteq Nat

(* process_priority_t: a lower number is a higher priority. *)
Rank == [HIGH |-> 1, NORMAL |-> 2, LOW |-> 3]

VARIABLES
    sched,
    value,              \* of the semaphore
    waiting,            \* waiting_processes
    priority,           \* of each process, with what it inherited
    active_timeouts,    \* entries of rtos_add_timeout, in array order
    rt_ready_queue,
    system_ticks,
    pc,
    deadline            \* of the wait p is in; 0 for none

ipcVars == <<active_timeouts, rt_ready_queue, system_ticks>>
vars == <<sched, value, waiting, priority, ipcVars, pc, deadline>>

TypeOK ==
    /\ sched.current \in Slots
    /\ value \in Nat
    /\ waiting \in Seq(Processes)
    /\ priority \in [Processes -> 1 .. 3]
    /\ active_timeouts \in Seq([proc: Processes, at: Nat])
    /\ Len(active_timeouts) <= MAX_PROCESSES
    /\ rt_ready_queue \in Seq(Processes)
    /\ Len(rt_ready_queue) <= MAX_PROCESSES
    /\ system_ticks \in Nat
    /\ pc \in [Processes -> {"user", "waiting", "critical"}]
    /\ deadline \in [Processes -> Nat]
-----------------------------------------------------------------------------
(* scheduler_init, a process_create for each user, semget, and the first   *)
(* schedule().                                                             *)
Created[p \in Slots] ==
    IF p = Idle THEN SchedInit ELSE ProcessCreate(Created[p - 1], p, PriorityOf[p])

Init ==
    /\ sched = Schedule(Created[MAX_PROCESSES - 1], 0)
    /\ value = 1
    /\ waiting = <<>>
    /\ priority = [p \in Processes |-> Rank[PriorityOf[p]]]
    /\ active_timeouts = <<>>
    /\ rt_ready_queue = <<>>
    /\ system_ticks = 0
    /\ pc = [p \in Processes |-> "user"]
    /\ deadline = [p \in Processes |-> 0]

(* "Find highest priority waiting process": the lowest number.  It is the  *)
(* process about to wait that inherits it.                                 *)
Inherited(p) ==
    LET ranks == {priority[waiting[i]] : i \in DOMAIN waiting} \cup {priority[p]}
    IN  CHOOSE r \in ranks : \A q \in ranks : r <= q

(* Seeded fault: first come, first served. *)
InsertLast(prio) == Len(waiting) + 1

(* "in priority order": ahead of the first one with a lower priority. *)
InsertPos(prio) ==
    LET behind == {i \in DOMAIN waiting : prio < priority[waiting[i]]}
    IN  IF behind = {} THEN Len(waiting) + 1 ELSE CHOOSE i \in behind : \A j \in behind : i <= j

Enqueued(p, t) ==
    /\ priority' = [priority EXCEPT ![p] = Inherited(p)]
    /\ waiting' = InsertAt(waiting, InsertPos(Inherited(p)), p)
    /\ active_timeouts' =
         IF t > 0 /\ Len(active_timeouts) < MAX_PROCESSES
           THEN Append(active_timeouts, [proc |-> p, at |-> system_ticks + t])
           ELSE active_timeouts
    /\ deadline' = [deadline EXCEPT ![p] = IF t > 0 THEN system_ticks + t ELSE 0]

(* Seeded fault: a woken process takes the lock without a second look. *)
AvailableUnchecked == TRUE

(* The test of the wait loop. *)
Available == value > 0

(* sem_wait_timeout up to its return or its first schedule(). *)
SemWait(p, t, d) ==
    /\ sched.current = p /\ pc[p] = "user"
    /\ IF value > 0
         THEN /\ value' = value - 1
              /\ pc' = [pc EXCEPT ![p] = "critical"]
              /\ UNCHANGED <<sched, waiting, priority, active_timeouts, deadline>>
         ELSE /\ Enqueued(p, t)
              /\ sched' = Schedule(Block(sched), d)
              /\ pc' = [pc EXCEPT ![p] = "waiting"]
              /\ UNCHANGED value
    /\ UNCHANGED <<rt_ready_queue, system_ticks>>

(* rtos_check_timeouts: in array order, an entry that has expired goes, and *)
(* its process is put on the real-time queue if it is blocked, behind those *)
(* of the same priority.                                                    *)
RtInsert(q, p) ==
    LET ahead == {i \in DOMAIN q : priority[q[i]] <= priority[p]}
        pos   == IF ahead = {} THEN 1 ELSE 1 + CHOOSE i \in ahead : \A j \in ahead : j <= i
    IN  IF Len(q) >= MAX_PROCESSES THEN q ELSE InsertAt(q, pos, p)

Expire(acc, e) ==
    IF acc.now < e.at
      THEN [acc EXCEPT !.left = Append(@, e)]
    ELSE IF acc.s.state[e.proc] = "BLOCKED"
      THEN [acc EXCEPT !.s = [@ EXCEPT !.state[e.proc] = "READY"], !.q = RtInsert(@, e.proc)]
    ELSE acc

CheckTimeouts(s, now) ==
    FoldLeft(Expire, [s |-> s, q |-> rt_ready_queue, left |-> <<>>, now |-> now],
             active_timeouts)

(* Seeded fault: it goes on as if it had got the lock. *)
GiveUpUnnoticed(p, s) ==
    /\ waiting' = RemoveFirst(waiting, p)
    /\ sched' = [s EXCEPT !.state[p] = "READY"]
    /\ pc' = [pc EXCEPT ![p] = "critical"]
    /\ deadline' = [deadline EXCEPT ![p] = 0]
    /\ UNCHANGED value

GiveUp(p, s) ==
    /\ waiting' = RemoveFirst(waiting, p)
    /\ sched' = [s EXCEPT !.state[p] = "READY"]
    /\ pc' = [pc EXCEPT ![p] = "user"]
    /\ deadline' = [deadline EXCEPT ![p] = 0]
    /\ UNCHANGED value

(* Behind schedule() in the wait loop: the timeouts are checked, and then  *)
(* the lock is taken, the wait given up, or schedule() called again.       *)
SemResume(p, d) ==
    LET checked == CheckTimeouts(sched, system_ticks)
    IN  /\ sched.current = p /\ pc[p] = "waiting"
        /\ rt_ready_queue' = checked.q
        /\ active_timeouts' = checked.left
        /\ \/ /\ Available
              /\ value' = value - 1
              /\ pc' = [pc EXCEPT ![p] = "critical"]
              /\ deadline' = [deadline EXCEPT ![p] = 0]
              /\ sched' = checked.s
              /\ UNCHANGED waiting
           \/ /\ ~Available
              /\ deadline[p] > 0 /\ system_ticks >= deadline[p]
              /\ GiveUp(p, checked.s)
           \/ /\ ~Available
              /\ deadline[p] = 0 \/ system_ticks < deadline[p]
              /\ sched' = Schedule(checked.s, d)
              /\ UNCHANGED <<value, waiting, pc, deadline>>
        /\ UNCHANGED <<priority, system_ticks>>

(* Seeded fault: a woken process is only marked ready. *)
MarkReady(s, p) == [s EXCEPT !.state[p] = "READY"]

WakeUp(s, p) == CfsEnqueue(s, p)

(* sem_signal, by the process that has the lock. *)
SemSignal(p) ==
    /\ sched.current = p /\ pc[p] = "critical"
    /\ value' = value + 1
    /\ pc' = [pc EXCEPT ![p] = "user"]
    /\ IF waiting = <<>>
         THEN UNCHANGED <<sched, waiting>>
         ELSE /\ sched' = WakeUp(sched, Head(waiting))
              /\ waiting' = Tail(waiting)
    /\ UNCHANGED <<priority, ipcVars, deadline>>

(* sys_sched_yield, outside of the calls above; the idle process does      *)
(* nothing else.                                                           *)
Yield(d) ==
    /\ sched.current # Idle => pc[sched.current] # "waiting"
    /\ sched' = Schedule(sched, d)
    /\ UNCHANGED <<value, waiting, priority, ipcVars, pc, deadline>>

(* rtos_tick_handler; no process has a time slice unless it was made       *)
(* real-time, so it does not reschedule.                                   *)
Tick ==
    LET now     == system_ticks + 1
        checked == CheckTimeouts(sched, now)
    IN  /\ system_ticks' = now
        /\ sched' = checked.s
        /\ rt_ready_queue' = checked.q
        /\ active_timeouts' = checked.left
        /\ UNCHANGED <<value, waiting, priority, pc, deadline>>

Next ==
    \/ \E p \in Processes, t \in Timeouts, d \in Deltas : SemWait(p, t, d)
    \/ \E p \in Processes, d \in Deltas : SemResume(p, d)
    \/ \E p \in Processes : SemSignal(p)
    \/ \E d \in Deltas : Yield(d)
    \/ Tick

Spec == Init /\ [][Next]_vars
-----------------------------------------------------------------------------
Holders == {p \in Processes : pc[p] = "critical"}
Awake   == {p \in Processes : pc[p] = "waiting" /\ ~Contains(waiting, p)}

(* "Binary semaphore by default": at most one process has the lock, and    *)
(* none is lost: it is either free or held, whoever was woken, timed out   *)
(* or overtaken on the way.                                                *)
OneLock == Cardinality(Holders) <= 1 /\ value = 1 - Cardinality(Holders)

(* "Wake up one waiting process": while the lock is free and processes     *)
(* wait for it, one of them has been taken off the list and is bound to    *)
(* run and look again, since it is on the run queue or is current.         *)
NoLostWakeup ==
    value > 0 /\ waiting # <<>> =>
        \E p \in Awake :
            p = sched.current \/ \E i \in DOMAIN sched.rq : sched.rq[i].proc = p

(* The list holds each process at most once, and only while it is inside   *)
(* its wait and not running: no one is woken out of another call.          *)
ListedOnceAndAsleep ==
    \A i \in DOMAIN waiting :
        /\ pc[waiting[i]] = "waiting"
        /\ sched.state[waiting[i]] \in {"BLOCKED", "READY"}
        /\ \A j \in DOMAIN waiting : waiting[j] = waiting[i] => j = i
        /\ \A j \in DOMAIN sched.rq : sched.rq[j].proc # waiting[i]

(* "Add to waiting queue in priority order": with the priorities as        *)
(* inherited, the list is sorted.                                          *)
WaitersInPriorityOrder ==
    \A i, j \in DOMAIN waiting : i < j => priority[waiting[i]] <= priority[waiting[j]]

(* "priority inheritance" (ipc.c:578) and "Boost current holder's priority *)
(* if needed" (ipc.c:605): whoever has the lock has at least the priority  *)
(* of everyone who waits for it.                                           *)
HolderInherits ==
    \A h \in Holders : \A i \in DOMAIN waiting : priority[h] <= priority[waiting[i]]

(* "Timeout expired - wake up process" (ipc.c:203): a process that is      *)
(* ready is current or on the run queue, where schedule() will find it.    *)
ReadyIsQueued ==
    \A p \in Processes :
        sched.state[p] = "READY" =>
            p = sched.current \/ \E i \in DOMAIN sched.rq : sched.rq[i].proc = p
=============================================================================
