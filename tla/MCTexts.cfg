CONSTANTS
    CoinDecimals = 2
    Modulus = 65536
    MaxPlaces = 9
    AmountSize = 8
    Values <- MCValues
    TokenDecimals = {0, 1, 3}
    Nonces <- MCNonces
    GasPrices = {0, 1, 20, 999}
    StartGases = {1, 30, 1000}
    NonceSize = 3
    ChainBits = 4
    KnownChain = 5
    ChainIds = {1, 5, 7, 8, 15, 16}
    SwapSize = 9
    Amounts <- MCAmounts
    Fees = {0, 5, 50}
    AmountLengths = {32, 33}
    Configs <- MCConfigs
    Addresses <- MCAddresses
    Spellings <- MCSpellings
    Stacks <- MCStacks
    Derived <- MCDerived
    MaxPath = 2
    MaxTicker = 4
    PrintableSize = 8
    AddressSize = 5
    Allowances <- MCAllowances
    MaxInt = 65535
    Tokens <- MCTokens
    Destinations <- MCDestinations
    MsgLength = 6
    MsgRoom = 10
    MaxTransactions = 2
SPECIFICATION Spec
CHECK_DEADLOCK FALSE
INVARIANT TextsExact
INVARIANT AnswersExact
INVARIANT RefusedLeavesTexts
INVARIANT ComparedNeverLess
INVARIANT ApprovalExact
