CONSTANTS
    Conns = {c1, c2, c3}
    None = None
    MaxFaults = 1
    MaxSends = 1
SPECIFICATION FairSpec
PROPERTY Settles
CHECK_DEADLOCK FALSE
