SPECIFICATION FairHandoffSpec
CONSTANTS
    d1 = d1
    Requests = {d1}
    KeyOf <- OwnKeys
    NoTransfer = NoTransfer
    UserRemoves = TRUE
    MaxFaults = 3
INVARIANTS
    HandoffType
    NeverLost
    StrandedOnlyByOverlap
PROPERTIES
    KeepsPromise
    MarkersClear
    StallsEnd
    HandedOffArrives
CHECK_DEADLOCK FALSE
