SPECIFICATION Inspection
CONSTANTS
    Keys = {k1, k2, k3}
    Nobody = Nobody
    Stop = Stop
    CacheLimit = 2
    MaxRequests = 4
    Missing = Missing
    MaxChanges = 2
INVARIANTS
    TypeOK
    InTurn
    CacheIsRecent
    VerificationTypeOK
    Balanced
    Honest
PROPERTIES
    Answered
    WindowGoes
CHECK_DEADLOCK FALSE
