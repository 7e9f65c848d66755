SPECIFICATION RunnerSpec
CONSTANTS
    o1 = o1
    o2 = o2
    nobody = nobody
    NoOwner = nobody
    Owners <- MCOwners
    Priority <- MCPriority
    Capabilities <- MCNone
    Required <- MCRequired
    WorkerCapabilities <- MCCapabilities
    Governed <- MCOneGoverned
    Stoppable <- MCOneOwner
    Cancellable <- MCTasks
    NTasks = 1
    MaxTime = 4
    MaxAttempts = 2
    MAX_MESSAGES = 1
    MAX_TASK_ATTEMPT_BINDINGS = 2
    MaxConcurrency = 2
    TaskTimeout = 1
    PreparationDrainGrace = 1
    ReleaseTimeout = 1
    CleanupBudget = 2
    CancellationDrainGrace = 2
    LeaseDuration = 4
    CommitLatency = 0
    MAX_CAS_ATTEMPTS = 2
    Prompt = FALSE
INVARIANTS
    
    CleanBeforeComplete
PROPERTY
    MailboxFenced
CHECK_DEADLOCK FALSE
