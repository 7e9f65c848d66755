SPECIFICATION MCSpec
CONSTANTS
    w1 = w1
    gpu = gpu
    nobody = nobody
    NoOwner = nobody
    Priority <- MCPriority
    Owners <- MCOneOwner
    Capabilities <- MCCapabilities
    Required <- MCRequired
    NTasks = 3
    MaxTime = 1
    MaxAttempts = 2
    MAX_MESSAGES = 3
    MAX_TASK_ATTEMPT_BINDINGS = 2
INVARIANTS
    NeverStuck
    BlockedExactly
    AttemptsGoverned
    InboxInOrder
CHECK_DEADLOCK FALSE
