CONSTANTS
    RollingWindowSize = 3
    MaxHeight = 8
SPECIFICATION InfoSpec
INVARIANTS WindowInv BatchInv
