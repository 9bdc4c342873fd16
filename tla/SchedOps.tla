----------------------------- MODULE SchedOps -----------------------------
(***************************************************************************)
(* The process scheduler of src/src/kernel/scheduler.c as operators on one *)
(* record, so that a handler that calls several of its functions in a row  *)
(* is a composition of operators.  The fields are those of `scheduler` and *)
(* of `processes`:                                                         *)
(*    current    the slot of current_process, or NONE before the first     *)
(*               schedule()                                                *)
(*    rq         cfs_runqueue: the nodes of the red-black tree, in key     *)
(*               order                                                     *)
(*    nr, tw     nr_running and total_weight, as signed numbers: -k stands *)
(*               for the u32 or u64 that k decrements below zero leave     *)
(*    state, vruntime, weight, parent       of the process in each slot    *)
(*                                                                         *)
(* Slots are filled in order and never freed, and pids count up from 1, so *)
(* the process in slot p has pid p; slot 0 is the idle process.            *)
(*                                                                         *)
(* The rb_* functions are external: the repository calls them and does not *)
(* define them.  Of nodes with equal keys rb_leftmost gives, and rb_remove *)
(* unlinks, the one that was inserted first.                               *)
(***************************************************************************)
EXTENDS Integers, Sequences, SequencesExt

CONSTANT MAX_PROCESSES    \* slots, the idle process's included

ASSUME SchedOpsAssumption == MAX_PROCESSES \in Nat \ {0}

Slots == 0 .. (MAX_PROCESSES - 1)
Idle  == 0
NONE  == -1

Priorities == {"HIGH", "NORMAL", "LOW"}
States     == {"UNUSED", "READY", "RUNNING", "BLOCKED", "ZOMBIE"}

(* nice_to_weight, at the three nice values process_create assigns. *)
WeightOf    == [HIGH |-> 3121, NORMAL |-> 1024, LOW |-> 335]
IdleWeight  == 15

Node == [proc: Slots, key: Nat]
-----------------------------------------------------------------------------
(* Seeded fault: a plain queue for the tree. *)
AppendNode(rq, p, key) == Append(rq, [proc |-> p, key |-> key])

RbInsert(rq, p, key) ==
    InsertAt(rq, 1 + Cardinality({i \in DOMAIN rq : rq[i].key <= key}),
             [proc |-> p, key |-> key])

RbRemove(rq, key) ==
    LET hits == {i \in DOMAIN rq : rq[i].key = key}
    IN  IF hits = {} THEN rq ELSE RemoveAt(rq, CHOOSE i \in hits : \A j \in hits : i <= j)

CfsEnqueue(s, p) ==
    [s EXCEPT !.state[p] = "READY",
              !.rq = RbInsert(@, p, s.vruntime[p]),
              !.nr = @ + 1,
              !.tw = @ + s.weight[p]]

CfsDequeue(s, p) ==
    [s EXCEPT !.rq = RbRemove(@, s.vruntime[p]),
              !.nr = @ - 1,
              !.tw = @ - s.weight[p]]

PickNext(s) == IF s.rq = <<>> THEN Idle ELSE s.rq[1].proc

(* The vruntime that d units of running time add. *)
Charge(s, p, d) == (d * 1024) \div s.weight[p]

(* Seeded fault: the process that stops running is left as it is. *)
LeavePrev(s, d) == s

(* Seeded fault: it is put back without a look at its state. *)
PutPrevAnyway(s, d) ==
    IF s.current = NONE THEN s
    ELSE CfsEnqueue([s EXCEPT !.vruntime[s.current] = @ + Charge(s, s.current, d)], s.current)

(* What schedule() does with the process that stops running, if one does:  *)
(* d is the time it ran, as get_system_time tells.                         *)
PutPrev(s, d) ==
    LET prev == s.current
    IN  IF prev # NONE /\ s.state[prev] = "RUNNING"
          THEN CfsEnqueue([s EXCEPT !.vruntime[prev] = @ + Charge(s, prev, d)], prev)
          ELSE s

(* Seeded fault: the next process stays on the run queue. *)
SetNextQueued(s, next) == [s EXCEPT !.state[next] = "RUNNING", !.current = next]

(* The idle process is put on the run queue like any other, and is never   *)
(* taken off it.                                                           *)
SetNext(s, next) ==
    LET t == IF next = Idle THEN s ELSE CfsDequeue(s, next)
    IN  [t EXCEPT !.state[next] = "RUNNING", !.current = next]

Schedule(s, d) ==
    LET next == PickNext(s)
    IN  IF next = s.current THEN s ELSE SetNext(PutPrev(s, d), next)
-----------------------------------------------------------------------------
SchedInit ==
    [current  |-> NONE,
     rq       |-> <<>>,
     nr       |-> 0,
     tw       |-> 0,
     state    |-> [p \in Slots |-> IF p = Idle THEN "READY" ELSE "UNUSED"],
     vruntime |-> [p \in Slots |-> 0],
     weight   |-> [p \in Slots |-> IF p = Idle THEN IdleWeight ELSE 0],
     parent   |-> [p \in Slots |-> NONE]]

FreeSlots(s) == {p \in Slots : s.state[p] = "UNUSED"}

(* In slot p, the first free one.  A new process starts at min_vruntime,   *)
(* which is 0 for good: update_vruntime lowers it and nothing raises it.   *)
ProcessCreate(s, p, prio) ==
    CfsEnqueue([s EXCEPT !.weight[p] = WeightOf[prio],
                         !.vruntime[p] = 0,
                         !.parent[p] = s.current], p)

(* The state a wait leaves behind before it calls schedule(). *)
Block(s) == [s EXCEPT !.state[s.current] = "BLOCKED"]

(* ipc.c: the signal is left pending, and a blocked target is put back on  *)
(* the run queue.                                                          *)
SignalSend(s, p) == IF s.state[p] = "BLOCKED" THEN CfsEnqueue(s, p) ELSE s

(* The running process is not on the run queue; it is taken off all the    *)
(* same.                                                                   *)
ProcessExit(s, d) ==
    LET p == s.current
        t == CfsDequeue([s EXCEPT !.state[p] = "ZOMBIE"], p)
        u == IF s.parent[p] = NONE THEN t ELSE SignalSend(t, s.parent[p])
    IN  Schedule(u, d)
=============================================================================
