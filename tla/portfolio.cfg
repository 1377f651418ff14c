CONSTANTS
    None = None
    Symbols = {1, 2}
    Prices = {1, 4}
    Rules <- MCRules
    CostRate <- MCRate
SPECIFICATION Spec
CHECK_DEADLOCK FALSE
INVARIANTS
    AccountsAgree
    HoldingsAreSound
    LogReplaysToBook
