SPECIFICATION Spec
CONSTANTS
    o1 = o1
    o2 = o2
    o3 = o3
    Order <- MCOrders
    Wanted <- MCTradedPair
    Cancellable <- MCOrders
    MaxFault <- MCNoFault
    MaxFaults = 0
INVARIANT CancelledOnce
CHECK_DEADLOCK FALSE
