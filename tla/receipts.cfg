SPECIFICATION FairSpec
CONSTANTS
    k1 = k1
    k2 = k2
    q1 = q1
    q2 = q2
    o1 = o1
    Clients = {c1, c2}
    SDK = {c1}
    Workers = {w1, w2}
    Receipts = {r1, r2, r3}
    Keys = {k1, k2}
    Requests = {q1, q2}
    Obligations = {o1}
    Events = {e1}
    Verdicts <- MCVerdicts
    Asks <- MCAsks
    MaxAttempts = 2
    Signing = {r1}
    Batches = {c2}
    MaxBatch = 2
    MaxCrashes = 1
    MaxActors = 2
INVARIANTS AnswersStand EnforcementSound
PROPERTIES RecordsStay ReceiptSettles
CHECK_DEADLOCK FALSE
