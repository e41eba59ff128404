SPECIFICATION SchedulesSpec
CONSTANTS
    Workers = {w1, w2}
    Schedules = {s1, s2}
    CronSchedules = {}
    Interval = 2
    CronSlots = {1, 3, 4, 6, 7}
    Blocked = {1, 4}
    SkipReach = 1
    CronReach = 1
    LastInstant = 2
    MaxEdits = 0
    MaxBusy = 4
SYMMETRY Symmetry
INVARIANTS OneJobPerOccurrence
CHECK_DEADLOCK FALSE
