SPECIFICATION ExecutorSpec
CONSTANTS
    e1 = e1
    e2 = e2
    alice = alice
    base = base
    ExecIds = {e1}
    Chains = {base}
    Plans <- MCLegPlans
    NoPlan = NoPlan
    EscrowIds <- MCEscrowIds
    Users = {alice}
    NoUser = NoUser
    Amounts = {1, 2}
    Owner = "owner"
    Workflow = "workflow"
    ReportReceiver = "reportReceiver"
    Executor = "executor"
    EscrowContract = "escrow"
    Operator = "operator"
    Depositors = {"executor", "operator"}
    Fees = {0}
    MaxNative = 0
    MaxLegs = 2
    MaxChanges = 0
    MaxRetryCount = 3
    EscrowTimeout = 0
    MaxTime = 1
    MaxStray = 0
INVARIANTS
    
    MessagesLinked
PROPERTIES
    RescuesAtomic
CHECK_DEADLOCK FALSE
