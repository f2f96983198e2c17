SPECIFICATION Spec
CONSTANTS
    MaxTokens = 4
    MaxLogins = 2
    Requests = {u1, u2}
INVARIANTS ChainsLeadForward OneLegUntilStaleHead
CHECK_DEADLOCK FALSE
