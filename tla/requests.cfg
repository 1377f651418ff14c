CONSTANTS
    None = None
    w1 = w1
    w2 = w2
    Worker = {w1, w2}
    Weights = {5}
    Capacity = 10
    Rate = 2
    MinInterval = 1
    Threshold = 5
    ResetPause = 1
    Delays = {1, 2}
    Remaining = {5}
    Resets = {2}
    MaxTime = 4
    Weight = 5
    Calls = 1
    MaxAttempts = 2
    BackOff <- Doubling
SPECIFICATION Spec
CHECK_DEADLOCK FALSE
SYMMETRY Interchangeable
INVARIANTS
    CallsArePaid
    WithinBudget
PROPERTIES
    UsesLimiter
    KeepsTime
