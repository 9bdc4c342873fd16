SPECIFICATION SchedulerSpec
CONSTANTS
    MAX_PROCESSES = 4
    TIME_SLICE_MS = 2
    Deltas = {0, 1}
    MaxVruntime = 3
    MaxIdleNodes = 1
    MaxNodes = 1
    MaxListed = 1
    MaxRewoken = 0
VIEW Uncounted
CONSTRAINT SchedulerBound
INVARIANT ReadyIsQueued
