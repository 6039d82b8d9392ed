\* Also refuted, in the place of this property: CancelIsKept, FillReachesRow.
SPECIFICATION FairSpec
CONSTANTS
    MaxOrders = 1
    ListLimit = 1
    MaxClicks = 1
    MaxLosses = 0
PROPERTY CancelIsCarriedOut
