CONSTANTS
    None = None
    r1 = r1
    r2 = r2
    d1 = d1
    x1 = x1
    i1 = i1
    i2 = i2
    m1 = m1
    m2 = m2
    m3 = m3
    Requests = {r1}
    Devices = {d1}
    Foreign = {x1}
    Instances = {i1, i2}
    Results = {m1, m2}
    Faults = FALSE
SPECIFICATION FairSpec
CHECK_DEADLOCK FALSE
INVARIANTS
    CompletedIsCarried
    PromptResultNotLate
PROPERTIES
    EveryCallEnds
