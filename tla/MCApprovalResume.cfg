SPECIFICATION Spec
CONSTANTS
    Engine = {"p", "q"}
    Scenario <- BlockingScenario
INVARIANT
    ApprovalResumable
CHECK_DEADLOCK FALSE
