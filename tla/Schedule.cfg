CONSTANTS
    Producers = {1, 2, 3}
    Keys = {k1, k2}
    MaxScheduled = 2
    UpdateInterval = 1
    MaxVotes = 1
    MaxKeyIds = 3
SPECIFICATION FairSpec
INVARIANTS KeyTablesInv ProposalNeverFails PolicyInv
PROPERTIES PolicyConverges
