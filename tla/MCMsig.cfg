CONSTANTS
    t1 = t1
    Proposers = {p}
    Names = {n}
    Trxs = {t1, t2}
    Expiration <- Expirations
    DelaySec <- Delays
    Actors = {l1, l2}
    Levels = {l1, l2}
    ActorOf <- Owners
    Authorities <- TwoAuthorities
    Hashes <- AllHashes
    Copies = 2
    Requests <- SmallRequests
    MaxTime = 5
    MaxSent = 1
SYMMETRY Symmetry
SPECIFICATION Spec
INVARIANTS TablesInv HashInv
PROPERTIES LevelsKept ExecByStanding DelayKept
