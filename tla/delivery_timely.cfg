SPECIFICATION TimelyDeliverySpec
CONSTANTS
    Workers = {w1, w2}
    Clients = {c1}
    MaxJobs = 2
    MaxAttempts = 2
    MaxRequests = 1
    MaxCrashes = 1
    MaxDeliveries = 2
SYMMETRY Symmetry
INVARIANTS ExclusiveRun JobTellsDelivery
PROPERTIES ImplementsJobQueue DeliveredStays
CHECK_DEADLOCK FALSE
