SPECIFICATION Spec
CONSTANTS
    e1 = e1
    e2 = e2
    e3 = e3
    i1 = i1
    i2 = i2
    NoEntry = NoEntry
    Entry <- MCEntry
    Id <- MCId
    Price <- MCPrice
    Size <- MCSize
    Time <- MCTime
INVARIANTS
    TypeOK
    OnlyRestoredOrdersCross
    SizeConserved
    LiveOrdersOnce
PROPERTIES
    PriceTimePriority
    ImplementsPromise
SYMMETRY MCSymmetry
CHECK_DEADLOCK FALSE
