SPECIFICATION LiveSpec
CONSTANTS
    Workers = {w1, w2}
    NoWorker = NoWorker
    MaxRuns = 1
    MaxInputs = 1
    MaxRequests = 2
    Offered = {"direct", "fork", "enqueue", "steer", "stop", "crash", "shutdown", "deaf", "dberror", "failure"}
PROPERTIES
    UncanceledRunEnds
    WorkerlessCancelEnds
CHECK_DEADLOCK FALSE
