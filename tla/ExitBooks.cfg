SPECIFICATION Spec
CONSTANTS
    m1 = m1
    NoMarket = NoMarket
    Markets = {m1}
    Prices = {4, 5}
    Cost = 3
    Floor = 2
    MaxRows = 2
    MaxRetries = 1
    MaxEntryFills = 2
    MaxRestarts = 1
    MaxLostAcks = 1
    MaxLostNotices = 1
    MaxDbErrors = 2
INVARIANT BookedOnce
INVARIANT PeakStored
 
CHECK_DEADLOCK FALSE
