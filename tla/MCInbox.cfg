SPECIFICATION FairSpec
CONSTANTS
    r1 = r1
    r2 = r2
    r3 = r3
    Requests = {r1, r2, r3}
    KeyOf <- TwoKeys
    NoTransfer = NoTransfer
    UserRemoves = TRUE
    MaxFaults = 2
INVARIANTS
    TypeOK
    OneEnvelopePerKey
    AcceptedIsKept
    RepeatsAreFailures
    RejectedLeavesNothing
PROPERTIES
    RequestsEnd
    EnvelopesArrive
CHECK_DEADLOCK FALSE
