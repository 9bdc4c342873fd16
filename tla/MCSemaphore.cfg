SPECIFICATION Spec
CONSTANTS
    MAX_PROCESSES = 4
    PriorityOf <- MCPriorityOf
    Timeouts = {0, 1}
    Deltas = {1}
    MaxVruntime = 5
    MaxTicks = 2
    MaxIdleNodes = 1
CONSTRAINT Bound
INVARIANTS
    TypeOK
    OneLock
    NoLostWakeup
    ListedOnceAndAsleep
    WaitersInPriorityOrder
