CONSTANTS
    Producers = {1, 2}
    Keys = {k1, k2}
    MaxScheduled = 2
    UpdateInterval = 1
    MaxVotes = 1
    MaxKeyIds = 2
    Names = {n1}
    Bidders = {b1, b2}
    Rich = b1
    Poor = b2
    InitialBalance <- Balances
    IncrementDivisor = 3
    BlocksPerDay = 0
    BidWidth = 4
    Width = 2
    HalvingPeriodSeconds = 1
    Rewards = {0}
    MaxTime = 7
    RollingWindowSize = 2
    StartTimes = {2}
SYMMETRY Symmetry
SPECIFICATION BlockSpec
INVARIANTS NoGapInv
