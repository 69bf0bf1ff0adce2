SPECIFICATION EscrowSpec
CONSTANTS
    EscrowIds = {e1, e2}
    Users = {alice, bob}
    NoUser = NoUser
    Amounts = {1, 2}
    Depositors = {"executor", "receiver"}
    MaxRetryCount = 3
    EscrowTimeout = 1
    MaxTime = 2
    MaxStray = 1
SYMMETRY Symmetry
INVARIANTS
    EscrowTypeOK
    Solvent
    PaidExactly
    IndexComplete
PROPERTY
    RecordsFinal
CHECK_DEADLOCK FALSE
