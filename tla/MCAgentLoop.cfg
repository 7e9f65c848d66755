SPECIFICATION FairSpec
CONSTANTS
    Engine = {"p", "q"}
    Scenario <- MCScenario
INVARIANTS
    
    RowMatchesJournal
    
    ToolOnceApproved
    SoleExecutor
PROPERTIES
    WaitEnds
CHECK_DEADLOCK FALSE
