CONSTANTS
    p1 = p1
    p2 = p2
    p3 = p3
    d1 = d1
    d2 = d2
    d3 = d3
    o1 = o1
    o2 = o2
    o3 = o3
    Post = {p1, p2, p3}
    Keyed = {p1}
    Refused = {p3}
    Resting = {o1, o2, o3}
    Delete = {d1, d2, d3}
    Target <- MCTarget
    Fee <- MCFee
    Cases <- MCCases
    Funds = 3
    MAX_RETRIES = 1
    maxRetries = 1
SPECIFICATION Spec
INVARIANTS
    TypeOK
    OneRowPerKey
    AnswersAreTrue
    AnnouncedUnlessLost
    
    EveryPageIsServed
CHECK_DEADLOCK FALSE
