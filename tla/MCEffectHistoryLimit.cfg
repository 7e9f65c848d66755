SPECIFICATION FairExecSpec
CONSTANTS
    a1 = a1  h = h  t1 = t1  e1 = e1  w1 = w1  w2 = w2  c1 = c1  c2 = c2  r1 = r1  d1 = d1
    Actors = {a1, h}
    LeaseIds <- Leases
    Keys = {"pay"}
    Inputs = {"i"}
    LeaseDurations = {1}
    MAX_EFFECT_TRANSITIONS = 5
    MAX_EFFECT_ATTEMPTS = 2
    MaxTime = 3
    NoLease = NoLease
    NoActor = NoActor
    NoKey = NoKey
    NoInput = NoInput
    Tenants = {t1}
    EffectIds = {e1}
    TenantOf <- AllOneTenant
    Workers = {w1}
    Cycles = {c1}
    ActorOf <- OneActor
    Reconcilers = {r1}
    Drivers = {d1}
    HostActor = h
    LeaseDuration = 1
    RetryDelays = {0}
    NoDelay = NoDelay
CHECK_DEADLOCK FALSE
PROPERTIES
    ClaimEnds
