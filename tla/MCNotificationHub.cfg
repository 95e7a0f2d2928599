CONSTANTS
    u1 = u1
    u2 = u2
    everyone = everyone
    nobody = nobody
    b1 = b1
    p1 = p1
    p2 = p2
    User = {u1, u2}
    Everyone = everyone
    Feed = {"matched", "cancelled", "depth"}
    Messages <- MCMessages
    Page = {p1, p2}
    Nobody = nobody
    Browser = {b1}
    BrowserOf <- MCBrowserOf
    broadcastSize = 1
    broadcastAllSize = 1
    sendSize = 1
    Cases <- MCCases
SPECIFICATION FairSpec
INVARIANTS
    TypeOK
    ConnectedPagesMissNothing
    CommittedWasHanded
    OneSocketOrTimer
PROPERTY EveryFeedMovesOn
CHECK_DEADLOCK FALSE
