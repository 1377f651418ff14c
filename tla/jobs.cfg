CONSTANTS
    Unset = Unset
    NumJobs = 3
    Concurrency = 2
    PanicAborts = FALSE
    Skews = {0, 1}
    MaxClock = 1
SPECIFICATION JobsFairSpec
CHECK_DEADLOCK FALSE
INVARIANTS
    ReportTells
    SharedFairly
PROPERTIES
    RunEnds
