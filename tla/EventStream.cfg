CONSTANTS
    Conns = {c1, c2}
    EventCap = 1
    MaxBatch = 2
    MaxWritten = 2
SPECIFICATION FairSpec
INVARIANTS TypeOK EventLedger OneMessageAfterCancel
PROPERTIES ImplementsLink ReadersEnd Drains
CHECK_DEADLOCK FALSE
