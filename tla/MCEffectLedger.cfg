SPECIFICATION Spec
CONSTANTS
    a1 = a1  a2 = a2  l1 = l1  l2 = l2  t1 = t1  e1 = e1
    Actors = {a1, a2}
    LeaseIds = {l1, l2}
    Keys = {"pay"}
    Inputs = {"i"}
    LeaseDurations = {1, 2}
    MAX_EFFECT_TRANSITIONS = 6
    MAX_EFFECT_ATTEMPTS = 2
    MaxTime = 3
    NoLease = NoLease
    NoActor = NoActor
    NoKey = NoKey
    NoInput = NoInput
    Tenants = {t1}
    EffectIds = {e1}
    TenantOf <- OneTenant
SYMMETRY LedgerSymmetry
CHECK_DEADLOCK FALSE
INVARIANTS
    HistoryValid
    RetryNeedsProof
    UncertaintyNeedsReconciliation
    LeaseFence
