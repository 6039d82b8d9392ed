SPECIFICATION Spec
CONSTANTS
    s1 = s1
    s2 = s2
    t1 = t1
    t2 = t2
    NoSignal = NoSignal
    Signals = {s1, s2}
    Tokens = {t1}
    TokenOf <- OneToken
    MaxRows = 2
    MaxRetries = 2
    Sizes = {1, 2}
    PortfolioCap = 3
    PositionCap = 3
    ReconcileEvery = 1
    MaxCrashes = 1
    MaxKills = 0
    MaxLostAcks = 1
    MaxDbErrors = 0
INVARIANT TypeOK
INVARIANT OneOriginalPerSignal
INVARIANT BookedAtMostOnce
