CONSTANTS
    Voters = {v1, v2}
    Producers = {p1, p2}
    MaxVoteProducers = 2
    RefundDelaySec = 1
    MaxVotes = 2
    MaxTime = 6
    ElectionTimes = {2}
SPECIFICATION FairSpec
INVARIANTS TallyInv ExitInv RefundableInv
PROPERTIES RefundOnTime RefundPaid
