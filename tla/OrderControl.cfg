SPECIFICATION Spec
CONSTANTS
    s1 = s1
    s2 = s2
    t1 = t1
    t2 = t2
    NoSignal = NoSignal
    Signals = {s1, s2}
    Tokens = {t1, t2}
    TokenOf <- TwoTokens
    MaxRows = 3
    MaxRetries = 1
    Sizes = {2}
    PortfolioCap = 3
    PositionCap = 3
    ReconcileEvery = 1
    MaxCrashes = 0
    MaxKills = 1
    MaxLostAcks = 0
    MaxDbErrors = 1
 
INVARIANT RepricedIsClosed
INVARIANT KillClosesOnlyDead
PROPERTY KeepsLedger
