SPECIFICATION Spec
CONSTANTS
    Market = {"m1", "m2"}
    Strategy = {"s1", "s2"}
    Emitted <- MCEmitted
    Filters <- MCFilters
    Manual <- MCManual
    TagOf <- Tags
    UnknownMarket = "m2"
    Offers <- MCOffers
    Words <- MCWords
    Jumps = {1, 48}
    MaxSignals = 2
    MaxPosts = 1
    MaxJumps = 1
    MaxMarks = 1
INVARIANTS OnePerClockHour PanelTellsTheTruth  ShownMatchesSelection
     ConnectionIsHonest BetIsAsShown RequestsAreServed SchemaConverges
