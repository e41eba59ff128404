SPECIFICATION FairSchedulesSpec
CONSTANTS
    Workers = {w1, w2}
    Schedules = {s1, s2}
    CronSchedules = {s2}
    Interval = 2
    CronSlots = {1, 2, 3, 5}
    Blocked = {1, 3, 4}
    SkipReach = 1
    CronReach = 2
    LastInstant = 3
    MaxEdits = 1
    MaxBusy = 3
INVARIANTS OneJobPerOccurrence
PROPERTIES DueIsClaimed
CHECK_DEADLOCK FALSE
