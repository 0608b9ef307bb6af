CONSTANTS
    r1 = r1
    Requests = {r1}
    Attempts = 3
    DeadAttempts = 5
    Stalls = 1
    Rebuilds = 1
    Faults = {"queue", "attempt", "api", "handler", "stalled"}
SPECIFICATION FairSpec
CHECK_DEADLOCK FALSE
INVARIANTS
    CountExplained
    IndexedHasPayload
PROPERTIES
    PendingEnds
    EveryCallLogged
    FailedIsCompensated
