SPECIFICATION FairSpec
CONSTANTS
    RunIds = {1, 2, 3}
    WaitIds = {1, 2}
    SignalIds = {"s"}
    Topics = {"x"}
    Definitions <- MCDefinitions
    Tasks = {"t"}
    MaxTime = 3
    MAX_WORKFLOW_WORK_TRANSITIONS = 4
    CaseIds = {1, 2, 3}
    ClaimIds = {1, 2}
    Operators = {"o", "p"}
    Priorities = {1}
    HandoffLeases = {1, 2}
    MAX_HANDOFF_WORK_TRANSITIONS = 4
    Drivers = {"d", "e"}
    ScanLimit = 1
    Deployments <- MCDeployments
    RunMenu <- MCRunMenu
    CaseMenu <- MCCaseMenu
    Staff <- MCStaff
    MaxStops = 1
INVARIANTS
    RunReplays
    SettlementReserve
    CompletionCovered
    CaseReplays
    CaseReserve
    QueueListed
PROPERTIES
    DueWaitEnds
    ExpiredClaimEnds
