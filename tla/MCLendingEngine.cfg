\* Two borrowers, prices that leave a unit of collateral without value.
SPECIFICATION LendingSpec
CONSTANTS
    Users = {u1, u2}
    Amounts = {1, 3}
    Prices = {1, 4}
    CollateralUnit = 2
    Year = 1
    RiskSettings <- MCRiskSettings
    Liquidity = 6
    MaxTime = 2
    MaxCollateral = 7
    MaxFunded = 7
    MaxChanges = 1
INVARIANTS
    LendingTypeOK
    BooksMatch
PROPERTIES
    UsedSafely
SYMMETRY MCSymmetry
CHECK_DEADLOCK FALSE
