CONSTANTS
    Nothing = Nothing
    Torn = Torn
    p1 = p1
    s1 = s1
    Process = {p1}
    Symbol = {s1}
    LastBar = 4
    First <- OldBars
    Runs <- AnyRuns
    Keeps = {TRUE}
    LastSecond = 1
    MaxLines = 2
    MaxChecks = 1
    MaxChanges = 1
SPECIFICATION JournalSpec
CHECK_DEADLOCK FALSE
INVARIANTS
    IdsUnique
    LossIsNoticed
    StatusTells
