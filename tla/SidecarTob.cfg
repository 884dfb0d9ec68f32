CONSTANTS
    opp = opp
    tob = tob
    bid = bid
    Hashes = {tob}
    ZeroHash = ZeroHash
    NoTarget = NoTarget
    NoEntry = NoEntry
    Calldata <- MCCalldata
    Feed <- TobFeed
    MaxDuration = 1
    EventCap = 1
    MaxEvents = 3
SPECIFICATION FairSpec
INVARIANT OneSendPerResidency
PROPERTIES Drains StopsBoth
CHECK_DEADLOCK FALSE
