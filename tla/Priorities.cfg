CONSTANTS
    BidSpace = 4
    IdSpace = 2
    HashLow = 4
    BidAmounts <- MCBidAmounts
    Targets <- MCTargets
    MaxHandled = 3
    NoBid = NoBid
SPECIFICATION Spec
INVARIANTS TypeOK TopOfBlockFirst OpportunityFirst GroupsContiguous HigherBidFirst FormatReadsBack
CHECK_DEADLOCK FALSE
