SPECIFICATION Spec
CONSTANTS
    a1 = a1
    a2 = a2
    a3 = a3
    b1 = b1
    t1 = t1
    t2 = t2
    t3 = t3
    NoEntry = NoEntry
    Entry <- MCEntry
    Id <- MCId
    Price <- MCPrice
    Size <- MCSize
    Time <- MCTime
    Object <- MCObject
    AtRest <- MCAtRest
    Arrivals <- MCArrivals
    ToCancel <- MCToCancel
    Address <- MCAddress
INVARIANT CancelledIsGone
CHECK_DEADLOCK FALSE
