SPECIFICATION Spec
CONSTANTS
    Procs = {p1, p2}
    Runs = {r1, r2}
    QueueMax = 1
    MaxConcurrent = 1
    NoProc = NoProc
INVARIANTS
    CancelledIsNeverCompleted
    SlotsAreAccounted
    WorkerOwnsItsRun
PROPERTIES
    QueueMoves
