CONSTANTS
    Accounts = {alice}
    Custom = {"p", "q"}
    Holders = {k1, k2}
SPECIFICATION PermSpec
INVARIANTS OwnerNotLockedOut
PROPERTIES ExcludedIsPowerless
