-------------------------- MODULE EffectGovernor --------------------------
(***************************************************************************)
(* The durable dispatch governor of src/effect/governor.rs: a fixed-window *)
(* rate limit and a circuit breaker per lane (tenant, operation, policy),  *)
(* asked after an Effect is claimed and before the connector is entered.   *)
(*                                                                         *)
(* Each store operation is one transaction, hence one action.  The caller  *)
(* reads its clock before it reaches the store, so the times of successive *)
(* requests may come in any order: every action takes any time.            *)
(***************************************************************************)
EXTENDS Integers, FiniteSets, Functions

CONSTANTS Tenants, Operations, AdmissionIds,
          Policies,         \* policy records; policy_id plus its parameters
          MaxTime,          \* bound of the modelled clock
          MAX_ADMISSIONS, MAX_LANES,
          NoId              \* no probe owns the lane

Times == 1 .. MaxTime
Never == 0                  \* an absent deadline: every modelled time is positive

\* EffectDispatchGovernorPolicy::validate; the retention covers every other
\* duration.
ValidPolicy(p) ==
    /\ {p.max, p.window, p.threshold, p.open, p.probe, p.retention} \subseteq Nat \ {0}
    /\ p.retention >= p.window /\ p.retention >= p.open /\ p.retention >= p.probe

ASSUME GovernorAssumption ==
    /\ MaxTime \in Nat \ {0} /\ MAX_ADMISSIONS \in Nat /\ MAX_LANES \in Nat
    /\ \A p \in Policies : ValidPolicy(p)
    /\ NoId \notin AdmissionIds

VARIABLES
    lanes,        \* LaneKey -> LaneState, for the lanes that exist
    admissions,   \* <<tenant, admission id>> -> AdmissionRecord, for those retained
    grants        \* history: every admission that let a dispatch through

vars == << lanes, admissions, grants >>

LaneKey(tenant, op, p) == << tenant, op, p.id >>

FixedWindowStart(now, window) == now - (now % window)

InitialLane(p, now) ==
    [policy   |-> p, observed |-> now,
     window   |-> FixedWindowStart(now, p.window), count |-> 0,
     failures |-> 0, epoch |-> 1, openUntil |-> Never,
     probe    |-> NoId, probeUntil |-> Never]

Allowed == {"Allow", "AllowProbe"}

----------------------------------------------------------------------------
(* decide: the lane after the request and the decision, at the request's    *)
(* time.                                                                    *)

ProbeReleased(lane) == [lane EXCEPT !.probe = NoId, !.probeUntil = Never]

\* A faulty Observed: the probe's lease ends an instant early.
ObservedEarly(lane, now) ==
    LET seen == [lane EXCEPT !.observed = now]
    IN  IF lane.probeUntil # Never /\ lane.probeUntil <= now + 1
        THEN ProbeReleased(seen)
        ELSE seen

\* The lane as the request finds it: its clock moved on, a probe whose lease
\* has ended forgotten.
Observed(lane, now) ==
    LET seen == [lane EXCEPT !.observed = now]
    IN  IF lane.probeUntil # Never /\ lane.probeUntil <= now
        THEN ProbeReleased(seen)
        ELSE seen

InWindow(lane, p, now) ==
    LET start == FixedWindowStart(now, p.window)
    IN  IF lane.window = start THEN lane ELSE [lane EXCEPT !.window = start, !.count = 0]

Decision(kind, retryAt, lane) == [kind |-> kind, retryAt |-> retryAt, lane |-> lane]

\* A faulty DecideOpen: half-open an instant before the open duration ends.
DecideOpenEarly(lane, id, p, now) ==
    IF lane.openUntil > now + 1 THEN Decision("CircuitOpen", lane.openUntil, lane)
    ELSE IF lane.probeUntil # Never THEN Decision("CircuitOpen", lane.probeUntil, lane)
    ELSE Decision("AllowProbe", Never,
                  [lane EXCEPT !.probe = id, !.probeUntil = now + p.probe])

DecideOpen(lane, id, p, now) ==
    IF lane.openUntil > now THEN Decision("CircuitOpen", lane.openUntil, lane)
    ELSE IF lane.probeUntil # Never THEN Decision("CircuitOpen", lane.probeUntil, lane)
    ELSE Decision("AllowProbe", Never,
                  [lane EXCEPT !.probe = id, !.probeUntil = now + p.probe])

\* A faulty DecideClosed: one dispatch more than the window allows.
DecideClosedExtra(lane, p, now) ==
    LET w == InWindow(lane, p, now)
    IN  IF w.count > p.max
        THEN Decision("RateLimited", w.window + p.window, w)
        ELSE Decision("Allow", Never, [w EXCEPT !.count = @ + 1])

DecideClosed(lane, p, now) ==
    LET w == InWindow(lane, p, now)
    IN  IF w.count >= p.max
        THEN Decision("RateLimited", w.window + p.window, w)
        ELSE Decision("Allow", Never, [w EXCEPT !.count = @ + 1])

Decide(lane, id, p, now) ==
    LET seen == Observed(lane, now)
    IN  IF seen.openUntil # Never
        THEN DecideOpen(seen, id, p, now)
        ELSE DecideClosed(seen, p, now)

----------------------------------------------------------------------------
(* apply_settlement: what evidence about a finished dispatch does to the    *)
(* lane.                                                                    *)

\* A faulty Opened: the epoch stays, so earlier admissions still count.
OpenedSameEpoch(lane, p, at) == [ProbeReleased(lane) EXCEPT !.openUntil = at + p.open]

Opened(lane, p, at) ==
    [ProbeReleased(lane) EXCEPT !.epoch = @ + 1, !.openUntil = at + p.open]

\* A faulty SettledProbe: a cancelled probe closes the circuit as well.
SettledProbeTrusting(lane, p, settlement, at) ==
    IF settlement = "AvailabilityFailure"
    THEN [Opened(lane, p, at) EXCEPT !.failures = p.threshold]
    ELSE [ProbeReleased(lane) EXCEPT !.openUntil = Never, !.failures = 0]

SettledProbe(lane, p, settlement, at) ==
    CASE settlement = "Healthy" ->
           [ProbeReleased(lane) EXCEPT !.openUntil = Never, !.failures = 0]
      [] settlement = "AvailabilityFailure" ->
           [Opened(lane, p, at) EXCEPT !.failures = p.threshold]
      [] settlement = "Abandoned" -> ProbeReleased(lane)

SettledNormal(lane, p, settlement, at) ==
    CASE settlement = "Healthy" -> [lane EXCEPT !.failures = 0]
      [] settlement = "AvailabilityFailure" ->
           LET counted == [lane EXCEPT !.failures = @ + 1]
           IN  IF counted.failures >= p.threshold
               THEN Opened(counted, p, at)
               ELSE counted
      [] settlement = "Abandoned" -> lane

\* An answer from before the circuit last opened, or from a probe that has been
\* replaced, changes nothing.
Stale(lane, id, record) ==
    \/ record.epoch # lane.epoch
    \/ record.decision = "AllowProbe" /\ lane.probe # id

ApplySettlement(lane, id, record, settlement, settledAt) ==
    LET at   == IF settledAt > lane.observed THEN settledAt ELSE lane.observed
        seen == [lane EXCEPT !.observed = at]
    IN  IF Stale(lane, id, record) THEN lane
        ELSE IF record.decision = "AllowProbe"
        THEN SettledProbe(seen, record.policy, settlement, at)
        ELSE SettledNormal(seen, record.policy, settlement, at)

----------------------------------------------------------------------------
(* The two operations of the store.                                         *)

\* prune_memory and prune_sql.
Retained(at) == {k \in DOMAIN admissions : admissions[k].expiresAt > at}

ValidateDuplicate(record, op, p) == record.op = op /\ record.policy = p

\* A faulty ValidateLanePolicy: the identifier alone decides.
ValidateLanePolicyById(lane, p) == lane.policy.id = p.id

\* A policy identifier stays bound to the parameters the lane was created with.
ValidateLanePolicy(lane, p) == lane.policy = p

\* A faulty CapacityLeft: one admission too many.
CapacityLeftOffByOne(kept, key) ==
    /\ Cardinality(kept) <= MAX_ADMISSIONS
    /\ key \in DOMAIN lanes \/ Cardinality(DOMAIN lanes) < MAX_LANES

CapacityLeft(kept, key) ==
    /\ Cardinality(kept) < MAX_ADMISSIONS
    /\ key \in DOMAIN lanes \/ Cardinality(DOMAIN lanes) < MAX_LANES

\* A request that is refused: the process-local store keeps the pruning that came
\* first, the SQLite transaction is rolled back with it.
Refused(at) ==
    /\ admissions' \in {admissions, Restrict(admissions, Retained(at))}
    /\ UNCHANGED << lanes, grants >>

\* A replay of a retained admission: the recorded decision is returned.
AdmitAgain(tenant, id, op, p, now) ==
    /\ << tenant, id >> \in Retained(now)
    /\ IF ValidateDuplicate(admissions[<< tenant, id >>], op, p)
       THEN admissions' = Restrict(admissions, Retained(now))
            /\ UNCHANGED << lanes, grants >>
       ELSE Refused(now)

\* The earlier grants of a request that is repeated after its admission was pruned:
\* each of them let a dispatch of its own through.
SameRequest(key, id, at) == {g \in grants : g.lane = key /\ g.id = id /\ g.at = at}

AdmitNew(tenant, id, op, p, now) ==
    LET key  == LaneKey(tenant, op, p)
        kept == Retained(now)
        lane == IF key \in DOMAIN lanes THEN lanes[key] ELSE InitialLane(p, now)
        made == Decide(lane, id, p, now)
        record == [op |-> op, policy |-> p, admittedAt |-> now,
                   expiresAt |-> now + p.retention, epoch |-> lane.epoch,
                   decision |-> made.kind, settlement |-> "None"]
        grant == [lane |-> key, id |-> id, kind |-> made.kind, at |-> now,
                  nth |-> Cardinality(SameRequest(key, id, now)),
                  epoch |-> lane.epoch, settlement |-> "None"]
    IN  /\ << tenant, id >> \notin kept
        /\ IF \/ ~ CapacityLeft(kept, key)
              \/ ~ ValidateLanePolicy(lane, p)
              \/ now < lane.observed
           THEN Refused(now)
           ELSE /\ lanes' = [k \in DOMAIN lanes \cup {key} |->
                               IF k = key THEN made.lane ELSE lanes[k]]
                /\ admissions' = [k \in kept \cup {<< tenant, id >>} |->
                                    IF k = << tenant, id >> THEN record ELSE admissions[k]]
                /\ grants' = IF made.kind \in Allowed THEN grants \cup {grant} ELSE grants

\* A faulty Settleable: a repeated settlement is applied again.
SettleableAgain(record, now) ==
    /\ record.decision \in Allowed
    /\ now >= record.admittedAt

\* validate_settlement_record, and the settlement not recorded yet.
Settleable(record, now) ==
    /\ record.decision \in Allowed
    /\ now >= record.admittedAt
    /\ record.settlement = "None"

\* A settlement that is refused, or repeats the recorded one, changes nothing.
SettleAs(tenant, id, settlement, now) ==
    LET key    == << tenant, id >>
        record == admissions[key]
        lane   == LaneKey(tenant, record.op, record.policy)
    IN  /\ key \in DOMAIN admissions
        /\ Settleable(record, now)
        /\ lanes' = [lanes EXCEPT ![lane] =
                       ApplySettlement(@, id, record, settlement, now)]
        /\ admissions' = [admissions EXCEPT ![key].settlement = settlement]
        /\ LET same == SameRequest(lane, id, record.admittedAt) IN
           grants' = {IF g \in same /\ g.nth = Cardinality(same) - 1
                      THEN [g EXCEPT !.settlement = settlement] ELSE g : g \in grants}

Init == lanes = << >> /\ admissions = << >> /\ grants = {}

Settlements == {"Healthy", "AvailabilityFailure", "Abandoned"}

Next ==
    \E tenant \in Tenants, id \in AdmissionIds, now \in Times :
        \/ \E op \in Operations, p \in Policies :
              \/ AdmitAgain(tenant, id, op, p, now)
              \/ AdmitNew(tenant, id, op, p, now)
        \/ \E settlement \in Settlements : SettleAs(tenant, id, settlement, now)

Spec == Init /\ [][Next]_vars

----------------------------------------------------------------------------
(* Properties.                                                              *)

LaneKeys == {LaneKey(tenant, op, p) : tenant \in Tenants, op \in Operations, p \in Policies}

GrantsOf(key) == {g \in grants : g.lane = key}

\* The stored lanes and admissions have their types: this is what load_lane and
\* load_admission decode, and refuse otherwise.
TypeOK ==
    /\ DOMAIN lanes \subseteq LaneKeys
    /\ \A key \in DOMAIN lanes : lanes[key] \in
         [policy : Policies, observed : Times, window : 0 .. MaxTime, count : Nat,
          failures : Nat, epoch : Nat \ {0}, openUntil : Nat,
          probe : AdmissionIds \cup {NoId}, probeUntil : Nat]
    /\ DOMAIN admissions \subseteq Tenants \X AdmissionIds
    /\ \A key \in DOMAIN admissions : admissions[key] \in
         [op : Operations, policy : Policies, admittedAt : Times, expiresAt : Nat,
          epoch : Nat \ {0}, decision : Allowed \cup {"RateLimited", "CircuitOpen"},
          settlement : Settlements \cup {"None"}]
    /\ Cardinality(DOMAIN admissions) <= MAX_ADMISSIONS
    /\ Cardinality(DOMAIN lanes) <= MAX_LANES

\* Every retained admission belongs to a lane of its tenant that still has the
\* policy the admission was decided under, so its settlement never misses its lane
\* nor judges it by other parameters.
AdmissionsMatchLanes ==
    \A key \in DOMAIN admissions : LET record == admissions[key] IN
        LET lane == LaneKey(key[1], record.op, record.policy) IN
            /\ lane \in DOMAIN lanes
            /\ lanes[lane].policy = record.policy
            /\ record.epoch <= lanes[lane].epoch

\* No fixed window of a lane lets more normal dispatches through than the policy
\* says, whatever the order in which the requests' clock readings reach the store.
WindowBound ==
    \A key \in DOMAIN lanes : LET p == lanes[key].policy IN
        \A start \in {FixedWindowStart(g.at, p.window) : g \in GrantsOf(key)} :
            Cardinality({g \in GrantsOf(key) :
                            /\ g.kind = "Allow"
                            /\ FixedWindowStart(g.at, p.window) = start}) <= p.max

\* While the circuit is open nothing of the current epoch has been let through but
\* probes, and those only once the open duration had passed: every settlement that
\* can still move the lane is a probe's.
OpenExcludes ==
    \A key \in DOMAIN lanes : LET lane == lanes[key] IN
        lane.openUntil # Never =>
            \A g \in GrantsOf(key) :
                /\ g.epoch <= lane.epoch
                /\ g.epoch = lane.epoch =>
                      g.kind = "AllowProbe" /\ g.at >= lane.openUntil

\* Two probes of one opening of the circuit never overlap: the later one starts
\* after the earlier one's lease has ended, or the earlier one has been settled.
ProbesExclusive ==
    \A key \in DOMAIN lanes : \A g, h \in GrantsOf(key) :
        (/\ g # h /\ g.kind = "AllowProbe" /\ h.kind = "AllowProbe"
         /\ g.epoch = h.epoch /\ g.at <= h.at)
        => \/ h.at >= g.at + lanes[key].policy.probe
           \/ g.settlement # "None"
           \/ g.at = h.at /\ h.settlement # "None"

\* Every time the circuit opened, the evidence of that epoch justified it: as many
\* distinct failed dispatches as the threshold asks for, or one failed probe.
\* Nothing was counted twice and no dispatch of another epoch was counted.
OpeningJustified ==
    \A key \in DOMAIN lanes : \A epoch \in 1 .. lanes[key].epoch - 1 :
        LET failed(kind) == {g \in GrantsOf(key) :
                                /\ g.epoch = epoch /\ g.kind = kind
                                /\ g.settlement = "AvailabilityFailure"}
        IN  \/ Cardinality(failed("Allow")) >= lanes[key].policy.threshold
            \/ failed("AllowProbe") # {}

\* An open circuit closes only because the probe that owns it, let through after
\* the open duration, reported a healthy dispatch in that step.
CloseNeedsProbe ==
    [][\A key \in DOMAIN lanes :
          (lanes[key].openUntil # Never /\ lanes'[key].openUntil = Never) =>
             \E g \in grants' \ grants :
                /\ g.lane = key /\ g.kind = "AllowProbe" /\ g.id = lanes[key].probe
                /\ g.epoch = lanes[key].epoch /\ g.at >= lanes[key].openUntil
                /\ g.settlement = "Healthy"]_vars
============================================================================
