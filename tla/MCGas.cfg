CONSTANTS
    Accounts = {a, b, gas}
    Founders = {a}
    GAS_ACCOUNT = gas
    Symbols = {s1, s2}
    NoSymbol = no_symbol
    MAX_AMOUNT = 3
    MAX_GAS = 4
    Issuers = {a}
    Supplies = {2, 3}
    Grants <- SomeGrants
SYMMETRY Symmetry
SPECIFICATION SysSpec
INVARIANTS SupplyInv GasPaidInv
