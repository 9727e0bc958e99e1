CONSTANTS
    Voters = {v1, v2}
    Producers = {p1, p2}
    HIGH_PRECISION = 4
    MAX_AMOUNT = 3
    MaxVotes = 2
SYMMETRY Symmetry
SPECIFICATION Spec
INVARIANTS TypeOK TallyInv SolvencyInv PaidUpToInv ConservationInv FixedPointRangeInv ExitInv
PROPERTIES KeepsPromise StrandedForever
