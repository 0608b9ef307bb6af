CONSTANTS
    None = None
    s1 = s1
    s2 = s2
    s3 = s3
    t1 = t1
    t2 = t2
    Sockets = {s1, s2, s3}
    Tasks = {t1, t2}
SPECIFICATION Spec
INVARIANT
    RefusedStops
CHECK_DEADLOCK FALSE
