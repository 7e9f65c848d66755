SPECIFICATION ExecSpec
CONSTANTS
    a1 = a1  h = h  t1 = t1  e1 = e1  w1 = w1  w2 = w2  c1 = c1  c2 = c2  r1 = r1  d1 = d1
    Actors = {a1, h}
    LeaseIds <- Leases
    Keys = {"pay"}
    Inputs = {"i"}
    LeaseDurations = {1}
    MAX_EFFECT_TRANSITIONS = 7
    MAX_EFFECT_ATTEMPTS = 2
    MaxTime = 4
    NoLease = NoLease
    NoActor = NoActor
    NoKey = NoKey
    NoInput = NoInput
    Tenants = {t1}
    EffectIds = {e1}
    TenantOf <- AllOneTenant
    Workers = {w1, w2}
    Cycles = {c1, c2}
    ActorOf <- OneActor
    Reconcilers = {r1}
    Drivers = {d1}
    HostActor = h
    LeaseDuration = 1
    RetryDelays = {1}
    NoDelay = NoDelay
SYMMETRY Symmetry
CHECK_DEADLOCK FALSE
INVARIANTS
    
    
    EnteredOnce
