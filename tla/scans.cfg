SPECIFICATION ScansSpec
CONSTANTS
    Consumers = {1, 2}
    Admins = {1, 2}
    Limits = {1, 2}
    MaxUpdates = 2
    MaxWindows = 4
    Jobs = {1, 2}
    MaxAttempts = 2
    WindowLength = 2
    MaxTime = 6
    Items = {1, 2, 3}
    Scanners = {0, 1}
    MaxItems = 1
    PageSize = 2
    Evidence <- MCEvidence
    BasePolicy <- MCBasePolicy
    Policies <- MCPolicies
    MaxLoad = 4
INVARIANTS WithinBudget GivesUpAfterWindows WalkCovers LowConfidenceReviewed
CHECK_DEADLOCK FALSE
