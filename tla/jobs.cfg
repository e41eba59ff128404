SPECIFICATION FairSpec
CONSTANTS
    Workers = {w1, w2}
    Clients = {c1}
    MaxJobs = 1
    MaxAttempts = 2
    MaxRequests = 2
    MaxCrashes = 1
INVARIANTS OneClaimPerTurn
PROPERTIES SettledOrStranded
CHECK_DEADLOCK FALSE
