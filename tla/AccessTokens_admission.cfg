CONSTANTS
    None = None
    Missing = Missing
    c1 = c1
    c2 = c2
    w1 = w1
    w2 = w2
    p1 = p1
    p2 = p2
    other = other
    Other = other
    Calls = {c1, c2}
    Writers = {w1}
    Ids = {p1, p2}
    Limits = {1}
    Policies <- ThreePolicies
    CacheFails = TRUE
SPECIFICATION FairSpec
INVARIANTS
    CacheExplained
    UncountedExplained
    LimitedRechecked
PROPERTY
    DeadIsForgotten
