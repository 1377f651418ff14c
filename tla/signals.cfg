CONSTANTS
    None = None
    Year = 1
    Rules <- MCRules
    Plans <- MCPlans
    Baskets <- MCBaskets
    Candles <- MCCandles
    Gaps <- MCGaps
    Start = 4
    MaxLen <- MCMaxLen
    MaxSecond <- MCMaxSecond
    MaxOlder = 1
    MaxHoles = 1
    SlotCap = 4
SPECIFICATION Spec
CHECK_DEADLOCK FALSE
INVARIANTS
    RulesKeepTheirWord
    MeasuresHold
    BasketAddsUp
PROPERTIES
    SplitsAreApart
    NoPeek
    BackfillKeepsDecisions
    SealedWindow
