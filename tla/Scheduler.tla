----------------------------- MODULE Scheduler -----------------------------
(***************************************************************************)
(* The scheduler on its own: every call the rest of the kernel makes of    *)
(* scheduler.c, in any order the calls can come in.  schedule() switches   *)
(* stacks, and the code it switches to goes on behind its own call of      *)
(* schedule(); so one call is one action, and what happens next is up to   *)
(* the process that is then current.                                       *)
(*                                                                         *)
(* Of the wait lists of pipes, message queues and semaphores this module   *)
(* knows how often a process is on one; MsgQueue and Semaphore have the    *)
(* lists themselves.  What an expired timeout assigns to a process's state *)
(* goes past the scheduler, and is in Semaphore only.                      *)
(*                                                                         *)
(* The code the idle process runs is not in the repository.  It is taken   *)
(* to be the boot code, which is what runs when idle becomes current first *)
(* (schedule() switches no stack if there was no current process).         *)
(***************************************************************************)
EXTENDS SchedOps

CONSTANTS
    TIME_SLICE_MS,    \* timer interrupts between two reschedulings
    Deltas            \* how long a process may run until it is switched out

ASSUME SchedulerAssumption ==
    /\ TIME_SLICE_MS \in Nat \ {0}
    /\ Deltas \subseteq Nat

VARIABLES
    sched, scheduler_timer,
    listed,      \* how many entries of wait lists point to a process
    rewoken      \* history: the processes that were woken while they ran or were queued

lists == <<listed, rewoken>>
schedulerVars == <<sched, scheduler_timer, lists>>

SchedulerTypeOK ==
    /\ sched.current \in Slots \cup {NONE}
    /\ sched.rq \in Seq(Node)
    /\ sched.nr \in Int /\ sched.tw \in Int
    /\ sched.state \in [Slots -> States]
    /\ sched.vruntime \in [Slots -> Nat]
    /\ sched.weight \in [Slots -> Nat]
    /\ sched.parent \in [Slots -> Slots \cup {NONE}]
    /\ scheduler_timer \in 0 .. (TIME_SLICE_MS - 1)
    /\ listed \in [Slots -> Nat]
    /\ rewoken \subseteq Slots \ {Idle}

SchedulerInit ==
    /\ sched = SchedInit
    /\ scheduler_timer = 0
    /\ listed = [p \in Slots |-> 0]
    /\ rewoken = {}

(* process_create, by the current process or by the boot code. *)
Create(prio) ==
    /\ FreeSlots(sched) # {}
    /\ LET p == CHOOSE q \in FreeSlots(sched) : \A r \in FreeSlots(sched) : q <= r
       IN  sched' = ProcessCreate(sched, p, prio)
    /\ UNCHANGED <<scheduler_timer, lists>>

(* schedule(), called by the current process as sys_sched_yield does. *)
Yield(d) ==
    /\ sched' = Schedule(sched, d)
    /\ UNCHANGED <<scheduler_timer, lists>>

(* Seeded fault: the count is not started again. *)
TimerUnreset(d) ==
    /\ scheduler_timer' = scheduler_timer + 1
    /\ sched' = IF scheduler_timer' >= TIME_SLICE_MS THEN Schedule(sched, d) ELSE sched
    /\ UNCHANGED lists

(* Every TIME_SLICE_MS-th timer interrupt reschedules. *)
TimerInterrupt(d) ==
    /\ scheduler_timer' = (scheduler_timer + 1) % TIME_SLICE_MS
    /\ sched' = IF scheduler_timer' = 0 THEN Schedule(sched, d) ELSE sched
    /\ UNCHANGED lists

(* A wait on a pipe, a message queue or a semaphore: the process lists      *)
(* itself, blocks and calls schedule().                                     *)
Wait(d) ==
    /\ sched.current \notin {NONE, Idle}
    /\ listed' = [listed EXCEPT ![sched.current] = @ + 1]
    /\ sched' = Schedule(Block(sched), d)
    /\ UNCHANGED <<scheduler_timer, rewoken>>

Queued(p) == \E i \in DOMAIN sched.rq : sched.rq[i].proc = p

(* One round of the loops that wake whoever is listed, which strike the     *)
(* entry out and do not look at the process's state: a signal may have      *)
(* woken it before, and it may have run since, and be running.              *)
Wake(p) ==
    /\ listed[p] > 0
    /\ listed' = [listed EXCEPT ![p] = @ - 1]
    /\ sched' = CfsEnqueue(sched, p)
    /\ rewoken' = IF Queued(p) \/ p = sched.current THEN rewoken \cup {p} ELSE rewoken
    /\ UNCHANGED scheduler_timer

(* signal_send does look, and leaves the entry where it is. *)
Signal(p) ==
    /\ sched.state[p] = "BLOCKED"
    /\ sched' = SignalSend(sched, p)
    /\ UNCHANGED <<scheduler_timer, lists>>

Exit(d) ==
    /\ sched.current \notin {NONE, Idle}
    /\ sched' = ProcessExit(sched, d)
    /\ UNCHANGED <<scheduler_timer, lists>>

SchedulerNext ==
    \/ \E prio \in Priorities : Create(prio)
    \/ \E d \in Deltas : Yield(d)
    \/ \E d \in Deltas : TimerInterrupt(d)
    \/ \E d \in Deltas : Wait(d)
    \/ \E p \in Slots : Wake(p)
    \/ \E p \in Slots : Signal(p)
    \/ \E d \in Deltas : Exit(d)

SchedulerSpec == SchedulerInit /\ [][SchedulerNext]_schedulerVars
-----------------------------------------------------------------------------
(* Only the current process is in PROCESS_RUNNING, whatever schedule() was *)
(* called from; and the current process is in it, unless it was woken      *)
(* while it ran or was queued: schedule() never returns to a process that  *)
(* has blocked or exited since, for that one to go on.                     *)
RunningIsCurrent ==
    /\ \A p \in Slots : sched.state[p] = "RUNNING" => p = sched.current
    /\ sched.current \in Slots \ rewoken => sched.state[sched.current] = "RUNNING"

(* What scheduler.c keeps of its run queue in spite of the wake loops: a    *)
(* process that no loop has woken while it ran or was queued waits there    *)
(* once at most, under the vruntime it has (the key cfs_dequeue_task will   *)
(* look for), and while it is ready only - whatever the second nodes of     *)
(* those that were do to the queue.  The idle process is the other          *)
(* exception, since its nodes are never removed.                            *)
QueueMatchesStates ==
    \A i \in DOMAIN sched.rq :
        LET p == sched.rq[i].proc
        IN  p \notin rewoken \cup {Idle} =>
                /\ sched.state[p] = "READY"
                /\ sched.rq[i].key = sched.vruntime[p]
                /\ \A j \in DOMAIN sched.rq : sched.rq[j].proc = p => j = i

(* "Pick next task to run (leftmost in RB tree)": whoever gets the         *)
(* processor has run no longer, in virtual time, than any other process    *)
(* that is left on the run queue for it, under however many nodes.  The    *)
(* one it is taken from does not count: schedule() picks before it puts    *)
(* that one back.  Nor is it so when the node that was picked is one of a  *)
(* process woken twice, which may lie there under a vruntime long past.    *)
PicksLeastVruntime ==
    [][sched'.current # sched.current /\ sched'.current \notin rewoken \cup {Idle} =>
          \A i \in DOMAIN sched'.rq :
              sched'.rq[i].proc # sched.current =>
                  sched'.vruntime[sched'.current]
                      <= sched'.vruntime[sched'.rq[i].proc]]_schedulerVars

(* "Remove from runqueue" (scheduler.c:368): an exit takes nobody but the  *)
(* exiting process off the run queue, so a ready process is always on it   *)
(* and will be picked.                                                     *)
ReadyIsQueued ==
    \A p \in Slots \ {Idle} :
        sched.state[p] = "READY" => \E i \in DOMAIN sched.rq : sched.rq[i].proc = p
=============================================================================
