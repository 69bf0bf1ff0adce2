SPECIFICATION IndexerFairSpec
CONSTANTS
    e1 = e1
    p1 = p1
    p2 = p2
    r1 = r1
    NoExec = NoExec
    Chains = {1, 2}
    Execs = {e1}
    CrossChain = {e1}
    Source <- MCSource
    Destination <- MCDestination
    Indexers = {p1, p2}
    Readers = {r1}
    BlockWindow = 2
    Confirmations = 1
    ReorgDepth = 1
    MaxBlock = 2
    MaxTroubles = 2
INVARIANTS
    IndexerTypeOK
    
    NoPhantomRows
    

    
    
CHECK_DEADLOCK FALSE
