SPECIFICATION ExecutorSpec
CONSTANTS
    e1 = e1
    e2 = e2
    alice = alice
    base = base
    ExecIds = {e1, e2}
    Chains = {base}
    Plans <- MCPlans
    NoPlan = NoPlan
    EscrowIds <- MCEscrowIds
    Users = {alice}
    NoUser = NoUser
    Amounts = {1, 2}
    Owner = "owner"
    Workflow = "workflow"
    ReportReceiver = "reportReceiver"
    Executor = "executor"
    EscrowContract = "escrow"
    Operator = "operator"
    Depositors = {"executor", "operator"}
    Fees = {0, 1}
    MaxNative = 1
    MaxLegs = 0
    MaxChanges = 1
    MaxRetryCount = 3
    EscrowTimeout = 0
    MaxTime = 0
    MaxStray = 0
INVARIANTS
    ExecutorTypeOK
    NoStuckLocks
    LogTellsStatus
    
CHECK_DEADLOCK FALSE
