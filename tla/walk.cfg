CONSTANTS
    None = None
    MaxTime = 6
    MaxDay = 3
    Limit = 2
    Overlap = 1
    MaxEmpty = 1
    ProbeFactor = 1
    MaxProbes = 2
    MaxDailyWindows = 2
    PartitionLength = 4
    OffGrid = FALSE
    Starts = {None, 3}
    Worlds <- AnyWorld
    StartOf <- MCStartOf
    HeadOf <- MCHeadOf
    DayStart <- MCDayStart
SPECIFICATION FairSpec
CHECK_DEADLOCK FALSE
INVARIANTS
    WalkInv
    UpToDateIsFree
PROPERTIES
    OkIsTrue
    PromiseKept
    RunTerminates
