CONSTANTS
    W = 2
    BitOr <- MCBitOr
    Operands <- MCOperands
    Dividends <- MCDividends
    LimbBits = 4
    LimbCount = 3
    Numbers <- MCNumbersPrinted
    OutLengths = {1, 2, 3, 4, 6, 13}
    Bases = {0, 1, 2, 10, 16, 17}
\* With these widths the power that overflows comes out larger and smaller than
\* the length.
    Widths = {4, 6, 7, 8, 10, 11}
    AddressBytes = 20
    Addresses <- MCAddresses
    Hrp <- MCHrp
    Errors = {22}
    MaxErrors = 2
    BitXor <- MCBitXor
SPECIFICATION FairSpec
CHECK_DEADLOCK FALSE
INVARIANT ArithmeticExact
INVARIANT DivisionExact
INVARIANT PrintedExact
INVARIANT HeaderExact
INVARIANT AddressExact
PROPERTY LoopsReturn
