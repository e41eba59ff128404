SPECIFICATION FairSpec
CONSTANTS
    Workflows = {1, 2}
    Clients = {1, 2}
    Jobs = {1, 2}
    MaxAttempts = 2
    Credentials = {1, 2, 3}
    Rotations = {1, 2}
    Admins = {1, 2}
    MaxLifetime = 2
    MaxTime = 2
    Owners = {"alice", "bob"}
    Author = "alice"
    Requests = {1, 2}
    Tasks = {1, 2, 3}
    MaxInstant = 1
    MaxExpiry = 3
    Candidates = {1, 2, 3, 4}
    Limit = 2
    MaxScan = 3
    Grants <- MCGrants
    NewExceptions <- MCExceptions
    Bundle <- MCBundle
    Variants <- MCVariants
    Models = {"m1", "m2"}
    Events = {1, 2}
    Senders = {1, 2}
    Batches <- MCBatches
    MaxLoad = 3
INVARIANTS CredentialsHold DeprovisionSticks
    ApprovalsGoverned SearchCovers PoliciesOnlyRestrict LineageHolds
PROPERTIES WithdrawnStaysOut DeprovisionEnds
CHECK_DEADLOCK FALSE
