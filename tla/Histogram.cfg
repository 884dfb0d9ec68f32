CONSTANTS
    Recorders = {r1, r2}
    N = 2
    MaxRecords = 3
SPECIFICATION Spec
SYMMETRY RecorderSymmetry
INVARIANTS TypeOK ScrapeWithinInterval SumCoversCount
PROPERTY NeverFalls
CHECK_DEADLOCK FALSE
