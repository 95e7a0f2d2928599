SPECIFICATION Spec
CONSTANTS
    o1 = o1
    o2 = o2
    o3 = o3
    Order <- MCOrders
    Wanted <- MCTradedPair
    Cancellable <- MCOrders
    MaxFault <- MCRestart
    MaxFaults = 1
INVARIANT OrdersRestOnce
CHECK_DEADLOCK FALSE
