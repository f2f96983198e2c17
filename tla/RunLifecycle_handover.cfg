SPECIFICATION Spec
CONSTANTS
    Workers = {w1, w2}
    NoWorker = NoWorker
    MaxRuns = 3
    MaxInputs = 1
    MaxRequests = 1
    Offered = {"fork", "steer", "startfail"}
SYMMETRY Symmetry
INVARIANTS
    SuccessorWaitsForAck
    OverlapOnlyBehindLost
CHECK_DEADLOCK FALSE
