SPECIFICATION Spec
CONSTANTS
    MaxTokens = 4
    MaxLogins = 1
    Requests = {u1, u2}
INVARIANTS NoOrphanedLeg
CHECK_DEADLOCK FALSE
