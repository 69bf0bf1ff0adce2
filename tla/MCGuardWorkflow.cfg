\* Two workflows that share execution ids, three markets on two chains.
SPECIFICATION GuardSpec
CONSTANTS
    Adapters = {1, 2, 3}
    Home = {1, 2}
    Collateral <- MCCollateral
    Debt <- MCDebt
    Margin <- MCMargin
    Workflows = {w1, w2}
    TargetHf = 14500
    ReserveCap = 3000
    MinAction = 10
    MaxNotional = 100000
    Requests <- MCRequests
    Penalties = {0, 200}
    PriceVectors <- MCPriceVectors
    UserPositions <- MCUserPositions
    NoId = "none"
    NoAdapter = 0
    NoAmount = 0
    MaxMinute = 1
    MaxMoves = 1
INVARIANTS
    GuardTypeOK
PROPERTIES
    
    PlanReachesTarget
    SourceStaysSafe
    FundsConserved
SYMMETRY MCSymmetry
VIEW MCView
CHECK_DEADLOCK FALSE
