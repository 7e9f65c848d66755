SPECIFICATION RunnerSpec
CONSTANTS
    o1 = o1
    o2 = o2
    nobody = nobody
    NoOwner = nobody
    Owners <- MCOneOwner
    Priority <- MCPriority
    Capabilities <- MCNone
    Required <- MCRequired
    WorkerCapabilities <- MCCapabilities
    Governed <- MCUngoverned
    Stoppable <- MCNone
    Cancellable <- MCTasks
    NTasks = 1
    MaxTime = 7
    MaxAttempts = 2
    MAX_MESSAGES = 0
    MAX_TASK_ATTEMPT_BINDINGS = 2
    MaxConcurrency = 2
    TaskTimeout = 2
    PreparationDrainGrace = 1
    ReleaseTimeout = 1
    CleanupBudget = 2
    CancellationDrainGrace = 2
    LeaseDuration = 5
    CommitLatency = 0
    MAX_CAS_ATTEMPTS = 2
    Prompt = FALSE
PROPERTY
    FencedAreCancelled
CHECK_DEADLOCK FALSE
