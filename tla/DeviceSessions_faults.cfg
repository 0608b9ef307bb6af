CONSTANTS
    None = None
    c1 = c1
    c2 = c2
    i1 = i1
    i2 = i2
    w1 = w1
    p1 = p1
    p2 = p2
    Connections = {c1, c2}
    Instances = {i1}
    Scopes = {{p1}}
    Writers = {}
    Cleaners = {"list", "stale", "idle"}
    Faults = {"command", "crash"}
SPECIFICATION FairSpec
CHECK_DEADLOCK FALSE
INVARIANT OnlineUnlessOvertaken
PROPERTIES
    StaleNeverHidesOffline
    DeviceForgotten
