SPECIFICATION FairSpec
CONSTANTS
    o1 = o1
    o2 = o2
    o3 = o3
    Order <- MCOrders
    Wanted <- MCTwoFills
    Cancellable <- MCBuyer
    MaxFault <- MCDelays
    MaxFaults = 1
PROPERTIES
    Converges
    CancelsLand
CHECK_DEADLOCK FALSE
