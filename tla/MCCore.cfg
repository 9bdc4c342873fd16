SPECIFICATION CoreSpec
CONSTANTS
    HEAP_START = 64
    HEAP_SIZE = 272
    Requests <- MCRequests
    MAX_PROCESSES = 3
    TIME_SLICE_MS = 2
    Deltas = {0, 1}
    MaxVruntime = 3
    MaxIdleNodes = 1
    MaxNodes = 2
    MaxListed = 1
    MaxRewoken = 1
    p1 = p1
    p2 = p2
    Procs = {p1, p2}
    FRAMES = 6
    PAGE_SIZE = 2
    PAGES_PER_TABLE = 2
    LAST_PAGE = 4
    HeapBase = 4
    Addresses = {4, 6, 8}
    Lengths = {1, 4}
    MaxVmas = 2
VIEW CoreView
SYMMETRY Symmetry
CONSTRAINTS SchedulerBound VmBound
INVARIANTS
    HeapTypeOK
    HeapTiled
    WalkIsFirstFit
    AllFreedIsPristine
    FailsOnlyWhenFull
    SchedulerTypeOK
    RunningIsCurrent
    QueueMatchesStates
    VmTypeOK
    OneUse
    PresentIsInVma
PROPERTIES
    AllocatorSpec
    PicksLeastVruntime
    BrkKeepsHeap
