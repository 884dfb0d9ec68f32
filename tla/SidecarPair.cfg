CONSTANTS
    opp = opp
    tob = tob
    bid = bid
    Hashes = {opp, bid}
    ZeroHash = ZeroHash
    NoTarget = NoTarget
    NoEntry = NoEntry
    Calldata <- MCCalldata
    Feed <- PairFeed
    MaxDuration = 1
    EventCap = 1
    MaxEvents = 4
SPECIFICATION Spec
INVARIANTS TypeOK SendLedger AttemptLedger ExpiredBounded
PROPERTY ImplementsStreamer
CHECK_DEADLOCK FALSE
