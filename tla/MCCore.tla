------------------------------- MODULE MCCore -------------------------------
(***************************************************************************)
(* The heap, the scheduler and virtual memory on small instances.  They    *)
(* share no state, so a behaviour is one of one of them: `part` says whose *)
(* it is, and the other two stay as they begin.                            *)
(***************************************************************************)
EXTENDS Heap, MCScheduler, MCVirtualMemory

VARIABLE part

(* Both sides of the alignment and of the threshold at which a block is     *)
(* split, and what kmalloc refuses.                                         *)
MCRequests == {0, 1, 17, 40, 80}

CoreInit ==
    /\ part \in {"heap", "scheduler", "virtual memory"}
    /\ HeapInit
    /\ SchedulerInit
    /\ VmInit

CoreNext ==
    /\ UNCHANGED part
    /\ \/ part = "heap" /\ HeapNext /\ UNCHANGED <<schedulerVars, vmVars>>
       \/ part = "scheduler" /\ SchedulerNext /\ UNCHANGED <<heapVars, vmVars>>
       \/ part = "virtual memory" /\ VmNext /\ UNCHANGED <<heapVars, schedulerVars>>

CoreSpec == CoreInit /\ [][CoreNext]_<<part, heapVars, schedulerVars, vmVars>>

CoreView == <<part, heapVars, Uncounted, vmVars>>
=============================================================================
