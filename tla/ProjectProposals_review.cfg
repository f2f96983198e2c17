SPECIFICATION Spec
CONSTANTS
    MaxVersions = 4
    MaxRuns = 3
    MaxProposals = 4
    Drafts = 2
    Requests = {q1, q2}
    Notes = {n1}
    Users = {u1}
INVARIANTS
    VersionsAreAChain
    AcceptedIsOneVersion
    OneRegression
PROPERTIES
    ReviewIsFinal
CHECK_DEADLOCK FALSE
