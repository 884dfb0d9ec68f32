SPECIFICATION FairSpec
CONSTANTS
    Latencies <- UnitLatencies
    WordSize = 4
    MaxWork = 3
INVARIANTS StampsAreCounted HealthCoversMetrics AverageCovers NoOvercount
PROPERTY GaugesAgree
CHECK_DEADLOCK FALSE
