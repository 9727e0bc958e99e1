CONSTANTS
    Names = {n1, n2}
    Others = {d1}
    Suffix <- SuffixOf
    Premium = n1
    Bidders = {b1, b2}
    StartBalance = 5
    InitialBalance <- Balances
    BidWidth = 6
    IncrementDivisor = 3
    BlocksPerDay = 2
    UpdateInterval = 1
SPECIFICATION FairSpec
INVARIANTS EscrowInv
PROPERTIES PaysOnlyForWins HighestWins WinnerKeepsName AuctionsClose
