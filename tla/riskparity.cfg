CONSTANTS
    None = None
    Symbols = {a, b}
    Prices = {1, 2}
    Rules <- MCRules
    Leans <- MCLeans
    Scales <- MCScales
    CostRate <- MCRate
SPECIFICATION Spec
SYMMETRY Interchangeable
CHECK_DEADLOCK FALSE
INVARIANTS
    DecisionsAreSound
PROPERTIES
    MoneyAddsUp
    TradesAreDecided
