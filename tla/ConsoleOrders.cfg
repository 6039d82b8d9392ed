SPECIFICATION FairSpec
CONSTANTS
    MaxOrders = 2
    ListLimit = 2
    MaxClicks = 1
    MaxLosses = 1
INVARIANTS LiveIsListed  
PROPERTIES ClosedIsNotReopened ClosedLeavesBlotter
