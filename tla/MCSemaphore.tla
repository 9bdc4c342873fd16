---------------------------- MODULE MCSemaphore ----------------------------
(* Three processes, one of each priority, and waits with and without a     *)
(* timeout.                                                                *)
EXTENDS Semaphore

CONSTANTS MaxVruntime, MaxTicks, MaxIdleNodes

MCPriorityOf == <<"LOW", "NORMAL", "HIGH">>

Bound ==
    /\ \A p \in Processes : sched.vruntime[p] <= MaxVruntime
    /\ Cardinality({i \in DOMAIN sched.rq : sched.rq[i].proc = Idle}) <= MaxIdleNodes
    /\ system_ticks <= MaxTicks
=============================================================================
