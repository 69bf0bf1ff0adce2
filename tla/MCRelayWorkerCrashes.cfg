SPECIFICATION RelayFairSpec
CONSTANTS
    w1 = w1
    w2 = w2
    NoMessage = NoMessage
    NoWorker = NoWorker
    Messages <- TwoMessages
    Mapped = {1, 2}
    Supported = {2}
    Workers <- OneWorker
    MaxAttempts = 2
    BatchSize = 2
    ScanLimit = 2
    MaxClaims = 3
    MaxCrashes = 1
    MaxManual = 0
PROPERTIES
    JobsSettle
    
CHECK_DEADLOCK FALSE
