CONSTANTS
    ann = ann
    bob = bob
    e1 = e1
    e2 = e2
    e3 = e3
    n0 = n0
    n1 = n1
    n2 = n2
    Request <- MCRequest
    Kind <- MCKind
    Subject <- MCSubject
    Fields <- MCFields
    Start <- MCStart
    NoName = n0
    Cases <- MCCases
    MaxEvents = 3
SPECIFICATION AccountsSpec
INVARIANTS
    EventsAddUp
    DeletionsAreTrue
CHECK_DEADLOCK FALSE
