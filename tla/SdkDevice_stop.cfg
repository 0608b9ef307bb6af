CONSTANTS
    None = None
    s1 = s1
    s2 = s2
    s3 = s3
    j1 = j1
    Sockets = {s1, s2, s3}
    Jobs = {j1}
    MaxTimers = 2
SPECIFICATION Spec
INVARIANTS
    StopsConnection
