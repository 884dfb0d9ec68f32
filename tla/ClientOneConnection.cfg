CONSTANTS
    Conns = {c1, c2, c3}
    None = None
    MaxFaults = 2
    MaxSends = 2
SYMMETRY ConnSymmetry
SPECIFICATION Spec
INVARIANT OneConnection
CHECK_DEADLOCK FALSE
