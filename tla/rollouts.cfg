SPECIFICATION FairSpec
CONSTANTS
    Bundles = {b1, b2}
    Rollouts = {r1, r2}
    Subjects = {u1, u2}
    Approvers = {u2}
    Development = {}
    Processes = {p1, p2}
    Deciders = {p1}
    PostgreSQL = TRUE
    StartStatus = {"absent", "pending", "approved", "active"}
    MaxRequests = 2
INVARIANTS EnforcedWasReviewed OneConfiguration PromotionsEarned
PROPERTIES ReplicasConverge
CHECK_DEADLOCK FALSE
