SPECIFICATION FairSpec
CONSTANTS
    Dispatchers = {x1, x2}
    Endpoints = {p1}
    MaxEvents = 1
    MaxAttempts = 3
    MaxCrashes = 1
INVARIANTS FannedOut
PROPERTIES EventSettles
CHECK_DEADLOCK FALSE
