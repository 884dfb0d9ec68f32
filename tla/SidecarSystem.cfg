CONSTANTS
    Conns = {c1, c2}
    None = None
    MaxFaults = 1
    MaxSends = 2
SPECIFICATION FairSpec
PROPERTIES SendReturns StopCompletes
CHECK_DEADLOCK FALSE
