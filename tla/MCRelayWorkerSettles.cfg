SPECIFICATION RelayFairSpec
CONSTANTS
    w1 = w1
    w2 = w2
    NoMessage = NoMessage
    NoWorker = NoWorker
    Messages <- OneMessage
    Mapped = {1}
    Supported = {1}
    Workers <- TwoWorkers
    MaxAttempts = 2
    BatchSize = 1
    ScanLimit = 1
    MaxClaims = 4
    MaxCrashes = 0
    MaxManual = 0
PROPERTIES
    JobsSettle
CHECK_DEADLOCK FALSE
