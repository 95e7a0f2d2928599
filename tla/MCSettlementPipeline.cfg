CONSTANTS
    t1 = t1
    t2 = t2
    Matched <- MCMatched
    LogTopic = "settled"
    Cases <- MCCases
    maxRetries = 1
SPECIFICATION FairSpec
INVARIANTS
    TypeOK
    CommittedIsDone
    UnmarkedOnlyIfOvertaken
    StoredOnce
PROPERTY EveryReaderCatchesUp
CHECK_DEADLOCK FALSE
