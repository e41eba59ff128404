SPECIFICATION ArtifactsFairSpec
CONSTANTS
    Jobs = {1, 2}
    MaxAttempts = 2
    Workers = {1, 2}
    Sinks = {"s3"}
    EdgeIds = {1, 2, 3}
    NumCategories = 2
    Purged = {2}
    MaxRecords = 2
    MaxLoad = 2
    MeetOnly = TRUE
    Profile <- MCProfile
    Foreign = "foreign"
    SigningRequired = FALSE
INVARIANTS ContentsHold TrustedIsGenuine
PROPERTIES ArtifactEnds
CHECK_DEADLOCK FALSE
