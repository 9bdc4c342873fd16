SPECIFICATION Spec
CONSTANTS
    MAX_PROCESSES = 4
    MSG_QUEUE_SIZE = 3
    Messages <- MCMessages
    Types = {0, 1}
    Deltas = {0}
    NoMessage = NoMessage
    MaxVruntime = 1
    MaxListed = 2
    MaxQueued = 2
CONSTRAINT Bound
INVARIANTS
    TypeOK
    RingConsistent
    NobodyWaitsInVain
    BlockedIsListed
    ListedIsInCall
PROPERTY QueueSpec
