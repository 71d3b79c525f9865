CONSTANTS
    t1 = t1
    t2 = t2
    t3 = t3
    m1 = m1
    p1 = p1
    p2 = p2
    k1 = k1
    k2 = k2
    Transactions = {t1, t2, t3}
    Creations = {t2}
    TextsOf <- MCTextsOf
    PluginTexts <- MCPluginTexts
    KeyText <- MCKeyText
    ApprovedTexts <- MCApproved
    Messages = {m1}
    Paths = {p1}
    Tokens = {}
    Pieces = 2
    MaxOwed = 1
    SwapLaunch = TRUE
SPECIFICATION Spec
CHECK_DEADLOCK FALSE
INVARIANT ErrorEndsSwap
PROPERTY SilentOnlyIfApproved
