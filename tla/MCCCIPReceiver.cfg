SPECIFICATION ReceiverSpec
CONSTANTS
    local = local
    remote = remote
    r1 = r1
    r2 = r2
    alice = alice
    bob = bob
    Messages <- MCMessages
    EscrowIds <- MCEscrowIds
    UserOf <- MCUserOf
    AmountIn <- MCAmountIn
    DeadlineOf <- MCDeadlineOf
    SentBy <- MCSentBy
    SourceOf <- MCSourceOf
    SenderOf <- MCSenderOf
    Routers = {r1, r2}
    NoRouter = NoRouter
    Users = {alice, bob}
    NoUser = NoUser
    Amounts = {1}
    Receiver = "receiver"
    Operator = "operator"
    Depositors = {"receiver", "operator"}
    SourceChains = {"base"}
    TokenMapped = {local}
    MaxRetryCount = 3
    EscrowTimeout = 1
    MaxTime = 1
    MaxStray = 0
INVARIANTS
    ReceiverTypeOK
    DeliveredOnce
    EscrowBacksFailure
    TokensAccounted
PROPERTIES
    UsesEscrow
    ImplementsLifecycle
CHECK_DEADLOCK FALSE
