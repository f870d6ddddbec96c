SPECIFICATION Spec
CONSTANTS
    Baskets <- MCBaskets
    Replies <- MCReplies
    HedgeSeams <- MCHedgeSeams
    Parents <- MCParents
    Instruments <- MCInstruments
    MaxRuns = 3
    Strategies = {"s1", "s2"}
    Symbols = {"x", "y"}
    Mark <- MCMark
    Marks = {2}
    OrderPrices = {1, 2}
    FillPrices = {2, 5}
    OrderSizes <- MCOrderSizes
    Cap = 7
    MaxOrders = 3
    IntMin <- MCIntMin
    Positions <- MCPositions
    Limit = 5
    Bands <- MCBands
    MaxExits = 3
INVARIANT NoOrphanedLegs
CHECK_DEADLOCK FALSE
