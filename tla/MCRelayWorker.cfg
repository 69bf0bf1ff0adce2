SPECIFICATION RelaySpec
CONSTANTS
    w1 = w1
    w2 = w2
    NoMessage = NoMessage
    NoWorker = NoWorker
    Messages <- OneMessage
    Mapped = {1}
    Supported = {1}
    Workers <- TwoWorkers
    MaxAttempts = 2
    BatchSize = 1
    ScanLimit = 1
    MaxClaims = 3
    MaxCrashes = 1
    MaxManual = 1
INVARIANTS
    RelayTypeOK
    
    SuccessOnChain
    DeadNeedsAttempts
    ClaimsExclusive
CHECK_DEADLOCK FALSE
