CONSTANTS
    Voters = {v1, v2}
    Producers = {p1, p2}
    VOTE_ACCOUNT = flon_vote
    REWARD_ACCOUNT = flon_reward
    CORE = core
    HIGH_PRECISION = 3
    MAX_AMOUNT = 6
    MaxVoteProducers = 2
    RefundDelaySec = 1
    VoterBalance = 2
    ProducerBalance = 1
    InitialBalance <- Balances
    Senders = {p1}
    ElectionTimes = {2}
    MaxVotes = 2
    MaxTime = 4
    MaxTransfer = 2
SYMMETRY Symmetry
SPECIFICATION Spec
INVARIANTS AgreementInv CustodyInv PayoutInv
