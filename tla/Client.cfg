CONSTANTS
    Conns = {c1, c2, c3}
    None = None
    MaxFaults = 2
    MaxSends = 1
SPECIFICATION FairSpec
INVARIANTS TypeOK NoLostReconnect WritesToInstalled
PROPERTIES Reconnects LoopEnds
CHECK_DEADLOCK FALSE
