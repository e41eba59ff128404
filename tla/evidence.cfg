SPECIFICATION FairSpec
CONSTANTS
    Evidence = {e1}
    Dispositions = {d1, d2}
    Tasks = {t1}
    Requests = {1, 2}
    Identities = {ana, ben}
    Development = dev
    Jobs = {1, 2}
    MaxAttempts = 2
    MaxRequests = 3
    MaxCrashes = 1
INVARIANTS ApprovalDecides
PROPERTIES HoldRespected DeletionRecorded
CHECK_DEADLOCK FALSE
