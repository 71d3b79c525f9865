CONSTANTS
    Transactions <- MCTransactions
    SelectorLength = 2
    WordLength = 2
    IndexModulus = 3
    ScreenCounts = {0, 3}
    ExternalTargets = {"OTHER"}
    Launches = {TRUE, FALSE}
    MaxBlock = 10
    MaxTransactions = 2
    MaxSwitches = 1
SPECIFICATION Spec
CHECK_DEADLOCK FALSE
INVARIANT ScreensCounted
