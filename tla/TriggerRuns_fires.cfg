SPECIFICATION FairSpec
CONSTANTS
    Executors = {e1, e2}
    Requests = {u1}
    Limits = {1}
    PauseLimits = {}
    UserStatuses = {"paused"}
    Kinds = {FALSE}
    EndDates = {2}
    NoRow = NoRow
    StaleAfter = 0
    MaxNow = 2
    MaxRuns = 2
INVARIANTS RunsApart CountersAgree LimitsKept
PROPERTIES EditsSurvive OverIsCompleted
CHECK_DEADLOCK FALSE
