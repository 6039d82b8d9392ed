SPECIFICATION FairSpec
CONSTANTS
    m1 = m1
    NoMarket = NoMarket
    Markets = {m1}
    Prices = {1, 3, 4, 5}
    Cost = 3
    Floor = 2
    MaxRows = 2
    MaxRetries = 1
    MaxEntryFills = 3
    MaxRestarts = 0
    MaxLostAcks = 0
    MaxLostNotices = 0
    MaxDbErrors = 0
INVARIANT SellingAccurate
PROPERTY SoldOutIsForgotten
CHECK_DEADLOCK FALSE
