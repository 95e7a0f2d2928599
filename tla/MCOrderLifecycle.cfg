SPECIFICATION Spec
CONSTANTS
    o1 = o1
    o2 = o2
    o3 = o3
    Order <- MCOrders
    Wanted <- MCFillsOrReject
    Cancellable <- MCBuyer
    MaxFault <- MCEveryFault
    MaxFaults = 1
INVARIANTS
    TypeOK
    OneCopyInOneLife
    NeverOvertraded
    RowsMatchTrades
PROPERTIES
    RestartLosesNothing
    QuietRestartKeepsBook
CHECK_DEADLOCK FALSE
