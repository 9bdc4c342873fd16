---------------------------- MODULE MCScheduler ----------------------------
(* Two or three processes besides idle.  One unit of running time adds     *)
(* nothing to the vruntime of a HIGH process, 1 to a NORMAL one, 3 to a    *)
(* LOW one and 68 to idle's.                                               *)
EXTENDS Scheduler

CONSTANTS MaxVruntime,     \* of a process
          MaxIdleNodes,    \* idle leaves a node behind whenever it is switched out
          MaxNodes,        \* of another process, which has more than one when it is woken twice
          MaxListed,       \* entries of wait lists
          MaxRewoken       \* processes woken while they run or are queued

NodesOf(p) == Cardinality({i \in DOMAIN sched.rq : sched.rq[i].proc = p})

SchedulerBound ==
    /\ \A p \in Slots \ {Idle} : sched.vruntime[p] <= MaxVruntime
    /\ NodesOf(Idle) <= MaxIdleNodes
    /\ \A p \in Slots \ {Idle} : NodesOf(p) <= MaxNodes
    /\ MapThenSumSet(LAMBDA p : listed[p], Slots) <= MaxListed
    /\ Cardinality(rewoken) <= MaxRewoken

(* No call looks at nr_running and total_weight, which need not come back   *)
(* to what they were: states that differ in them only are explored once.    *)
Uncounted == <<[sched EXCEPT !.nr = 0, !.tw = 0], scheduler_timer, lists>>
=============================================================================
