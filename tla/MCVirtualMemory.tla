-------------------------- MODULE MCVirtualMemory --------------------------
EXTENDS VirtualMemory

CONSTANTS
    p1, p2,
    MaxVmas    \* of a process

Symmetry == Permutations(Procs)

VmBound == \A p \in Procs : Len(space[p].vmas) <= MaxVmas
=============================================================================
