SPECIFICATION Spec
CONSTANTS
    MaxTask = 3
    HandSets = {h1}
    HandRequests = {q1}
    Users = {u1}
    MaxSets = 1
    MaxWaiting = 2
    Outcomes = {completed}
    NoRow = NoRow
INVARIANTS
    RunsStandOnApprovedCases
    RunMeasuresItsRubric
    OneWorker
PROPERTIES
    RunMovesForward
CHECK_DEADLOCK FALSE
