CONSTANTS
    t1 = t1
    t2 = t2
    t3 = t3
    m1 = m1
    p1 = p1
    p2 = p2
    k1 = k1
    k2 = k2
    Transactions = {t1}
    Creations = {}
    TextsOf <- MCTextsOf
    PluginTexts <- MCPluginTexts
    KeyText <- MCKeyText
    ApprovedTexts <- MCApproved
    Messages = {m1}
    Paths = {p1, p2}
    Tokens = {k1, k2}
    Pieces = 2
    MaxOwed = 2
    SwapLaunch = FALSE
SYMMETRY Symmetry
SPECIFICATION Spec
CHECK_DEADLOCK FALSE
INVARIANT TypeOK
INVARIANT OneReply
INVARIANT SignsWhatIsShown
INVARIANT CleanWhenIdle
INVARIANT ConsentFollowsSettings
INVARIANT ProvisionedFound
