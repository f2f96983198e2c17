SPECIFICATION Spec
CONSTANTS
    Workers = {w1, w2}
    NoWorker = NoWorker
    MaxRuns = 1
    MaxInputs = 1
    MaxRequests = 2
    Offered = {"direct", "fork", "resume", "enqueue", "steer", "promote", "stop", "delete", "attach", "crash", "shutdown", "deaf", "startfail", "dberror", "unlaunchable", "approval", "failure"}
SYMMETRY Symmetry
INVARIANTS
    OwnerExecutes
    AcknowledgedMeansStopped
PROPERTIES
    NeverRestarted
    KeepsContract
CHECK_DEADLOCK FALSE
