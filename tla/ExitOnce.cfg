SPECIFICATION Spec
CONSTANTS
    m1 = m1
    NoMarket = NoMarket
    Markets = {m1}
    Prices = {4}
    Cost = 3
    Floor = 2
    MaxRows = 2
    MaxRetries = 2
    MaxEntryFills = 3
    MaxRestarts = 0
    MaxLostAcks = 1
    MaxLostNotices = 1
    MaxDbErrors = 1
INVARIANT OneExitOpen
INVARIANT NeverShort
CHECK_DEADLOCK FALSE
