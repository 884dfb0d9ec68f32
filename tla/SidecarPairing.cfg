CONSTANTS
    opp = opp
    tob = tob
    bid = bid
    Hashes = {opp, bid}
    ZeroHash = ZeroHash
    NoTarget = NoTarget
    NoEntry = NoEntry
    Calldata <- MCCalldata
    Feed <- PairFeed
    MaxDuration = 1
    EventCap = 1
    MaxEvents = 2
SPECIFICATION Spec
INVARIANT BidFollowsOpportunity
CHECK_DEADLOCK FALSE
