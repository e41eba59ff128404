SPECIFICATION FairSpec
CONSTANTS
    Assets = {a1, a2}
    Workers = {1, 2}
    Requests = {1, 2}
    Jobs = {1, 2}
    MaxAttempts = 2
    MaxOccurrence = 2
    MaxLoad = 3
    Earlier = {e1}
    Limit = 1
INVARIANTS CompletionIsExact LaunchesOnce
PROPERTIES QueuedIsSent EscalationArrives
CHECK_DEADLOCK FALSE
