SPECIFICATION Spec
CONSTANTS
    n1 = n1
    n2 = n2
    n3 = n3
    op1 = op1
    op2 = op2
    t1 = t1
    t2 = t2
    NoId = NoId
    Tenants = {t1, t2}
    Operations = {op1, op2}
    AdmissionIds = {n1, n2, n3}
    Policies <- Both
    MaxTime = 4
    MAX_ADMISSIONS = 2
    MAX_LANES = 1
INVARIANTS
    TypeOK
    AdmissionsMatchLanes
    OpeningJustified
    WindowBound
    OpenExcludes
    ProbesExclusive
PROPERTIES
    CloseNeedsProbe
SYMMETRY Symmetry
CHECK_DEADLOCK FALSE
