SPECIFICATION FairRunnerSpec
CONSTANTS
    o1 = o1
    o2 = o2
    nobody = nobody
    NoOwner = nobody
    Owners <- MCOwners
    Priority <- MCPriority
    Capabilities <- MCNone
    Required <- MCRequired
    WorkerCapabilities <- MCCapabilities
    Governed <- MCUngoverned
    Stoppable <- MCNone
    Cancellable <- MCNone
    NTasks = 2
    MaxTime = 6
    MaxAttempts = 1
    MAX_MESSAGES = 0
    MAX_TASK_ATTEMPT_BINDINGS = 2
    MaxConcurrency = 1
    TaskTimeout = 1
    PreparationDrainGrace = 1
    ReleaseTimeout = 1
    CleanupBudget = 2
    CancellationDrainGrace = 2
    LeaseDuration = 4
    CommitLatency = 0
    MAX_CAS_ATTEMPTS = 5
    Prompt = TRUE
PROPERTY
    ImplementsGraph
    Terminates
CHECK_DEADLOCK FALSE
