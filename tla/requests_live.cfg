CONSTANTS
    None = None
    w1 = w1
    w2 = w2
    Worker = {w1, w2}
    Weights = {6}
    Capacity = 4
    Rate = 1
    MinInterval = 1
    Threshold = 1
    ResetPause = 1
    Delays = {1, 2}
    Remaining = {}
    Resets = {}
    MaxTime = 60
    Weight = 6
    Calls = 1
    MaxAttempts = 2
    BackOff <- Doubling
SPECIFICATION FairSpec
CHECK_DEADLOCK FALSE
PROPERTIES
    CallsEnd
