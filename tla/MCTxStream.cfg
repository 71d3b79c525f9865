CONSTANTS
    Transactions <- MCTransactions
    MaxBlock = 30
    MaxInt256 = 2
    MaxAddress = 2
    MaxV = 1
SPECIFICATION FairSpec
INVARIANT TypeOK
INVARIANT NothingLost
INVARIANT HashedOnceInOrder
INVARIANT BuffersInBounds
INVARIANT AsksOnlyForMissing
PROPERTY ImplementsFields
PROPERTY ParserReturns
