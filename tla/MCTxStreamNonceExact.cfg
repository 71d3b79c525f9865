CONSTANTS
    Transactions <- MCTransactions
    MaxBlock = 30
    MaxInt256 = 2
    MaxAddress = 2
    MaxV = 1
SPECIFICATION Spec
PROPERTY NonceExact
