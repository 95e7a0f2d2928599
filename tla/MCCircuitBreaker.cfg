CONSTANTS
    c1 = c1
    c2 = c2
    c3 = c3
    Caller = {c1, c2, c3}
    Idempotent = {c1, c2}
    ReadyToTrip = 3
    maxRetries <- MCmaxRetries
    Conditions <- MCConditions
    Changes = 3
    Aborts = 2
SPECIFICATION FairSpec
INVARIANTS
    TypeOK
PROPERTIES
    OpenSendsNothingNew
    OpensOnlyForFailures
    ClosesOnlyByProbe
    FollowsUpstream
CHECK_DEADLOCK FALSE
