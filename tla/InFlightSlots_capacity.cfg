CONSTANTS
    None = None
    d1 = d1
    d2 = d2
    r1 = r1
    r2 = r2
    r3 = r3
    Devices = {d1}
    Calls = {r1, r2, r3}
    Declarations = {1}
    Default = 2
    Maximum = 2
    Sessions = 2
    Faults = FALSE
SPECIFICATION Spec
CHECK_DEADLOCK FALSE
SYMMETRY Symmetry
INVARIANT CapacityDeclared
