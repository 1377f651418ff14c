CONSTANTS
    None = None
    Bars <- MCBars
    Wants <- MCWants
    Rules <- MCRules
    Unit = 2
    KeepOfUnit <- Half
    MaxBars = 4
SPECIFICATION Spec
CHECK_DEADLOCK FALSE
INVARIANTS
    BookReproducesCurve
    CrossChecksAgree
    WindowAgrees
PROPERTIES
    StopsKeepOut
