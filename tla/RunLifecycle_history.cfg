SPECIFICATION LiveSpec
CONSTANTS
    Workers = {w1}
    NoWorker = NoWorker
    MaxRuns = 3
    MaxInputs = 2
    MaxRequests = 2
    Offered = {"direct", "resume", "enqueue", "stop", "delete", "promote", "unlaunchable", "approval"}
INVARIANTS
    LiveRunKeepsItsInput
    ResumedOnce
PROPERTY
    PendingInputMoves
CHECK_DEADLOCK FALSE
