SPECIFICATION FairSpec
CONSTANTS
    s1 = s1
    s2 = s2
    t1 = t1
    t2 = t2
    NoSignal = NoSignal
    Signals = {s1}
    Tokens = {t1}
    TokenOf <- OneSignal
    MaxRows = 2
    MaxRetries = 1
    Sizes = {2}
    PortfolioCap = 3
    PositionCap = 3
    ReconcileEvery = 2
    MaxCrashes = 1
    MaxKills = 0
    MaxLostAcks = 0
    MaxDbErrors = 2
PROPERTY InFlightResolved
