CONSTANTS
    Producers = {p1, p2}
    Width = 5
    HalvingPeriodSeconds = 1
    FullReward = 3
    Rewards <- SomeRewards
    MaxTime = 14
SYMMETRY Symmetry
SPECIFICATION PaySpec
INVARIANTS RewardTimesInv IssuanceInv
