SPECIFICATION Spec
CONSTANTS
    Inputs = {i1, i2, i3}
    Texts = {t1, t2}
    MaxRevision = 2
    NoInput = NoInput
INVARIANTS RevisionNamesContent PendingHaveAnOrder OneInputPerRun
PROPERTIES QueuedOnce
CHECK_DEADLOCK FALSE
SYMMETRY Symmetry
