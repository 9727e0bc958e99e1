CONSTANTS
    Pubkeys = {k1, k2}
    Symbols = {flon, other}
    FLON = flon
    MinerFee = 1
    Names = {a1, a2}
    MaxAmount = 2
    MaxTime = 3
SPECIFICATION Spec
INVARIANTS OnlyFLON
