SPECIFICATION LiveSpec
CONSTANTS
    Workers = {w1}
    NoWorker = NoWorker
    Owner = w1
    Clients = {c1}
    MaxEvents = 4
    RingSize = 2
    QueueSize = 2
    Faults = {"stop", "stale", "crash", "dberror", "forceclose", "disconnect"}
INVARIANTS
    HolesAreExplained
    
    TraceIsOrdered
PROPERTIES
    ReaderIsReleased
    EndReachesReader
    KeepsStream
CHECK_DEADLOCK FALSE
