----------------------- MODULE EffectGovernorProofs -----------------------
(***************************************************************************)
(* Proofs about EffectGovernor, for any tenants, operations, policies and   *)
(* admission identities, any order of clock readings and any capacities.    *)
(*                                                                          *)
(* A lane and the grants made on it are looked at apart from the store:     *)
(* LaneInv relates the two, and is shown to survive decide and              *)
(* apply_settlement as functions on a lane.  AdmissionInv relates what the  *)
(* store retains of a request to the grant it let through.                  *)
(***************************************************************************)
EXTENDS EffectGovernor, FiniteSetTheorems, TLAPS

\* What decide and the settlements look at in the grants G of a lane.
Same(G, id, at) == {g \in G : g.id = id /\ g.at = at}
Window(G, p, start) == {g \in G : g.kind = "Allow" /\ FixedWindowStart(g.at, p.window) = start}
Failed(G, e, kind) ==
    {g \in G : g.epoch = e /\ g.kind = kind /\ g.settlement = "AvailabilityFailure"}

LaneRecords ==
    [policy : Policies, observed : Times, window : 0 .. MaxTime, count : Nat, failures : Nat,
     epoch : Nat \ {0}, openUntil : Nat, probe : AdmissionIds \cup {NoId}, probeUntil : Nat]

GrantRecords ==
    [lane : LaneKeys, id : AdmissionIds, kind : Allowed, at : Times, nth : Nat,
     epoch : Nat \ {0}, settlement : Settlements \cup {"None"}]

AdmissionRecords ==
    [op : Operations, policy : Policies, admittedAt : Times, expiresAt : Nat,
     epoch : Nat \ {0}, decision : Allowed \cup {"RateLimited", "CircuitOpen"},
     settlement : Settlements \cup {"None"}]

\* Grants are of the past, and those of one request at one time are told apart by
\* their number.
GrantsInv(lane, G) ==
    /\ IsFiniteSet(G)
    /\ \A g \in G : /\ g \in GrantRecords /\ g.at <= lane.observed /\ g.epoch <= lane.epoch
                    /\ g.nth < Cardinality(Same(G, g.id, g.at))
    /\ \A g, h \in G : g.id = h.id /\ g.at = h.at /\ g.nth = h.nth => g = h

\* The counter of the current window counts at least what was let through in it, and
\* nothing was let through in a later window.
WindowInv(lane, G) ==
    /\ lane.count <= lane.policy.max
    /\ lane.window <= FixedWindowStart(lane.observed, lane.policy.window)
    /\ \A g \in G : g.kind = "Allow" => FixedWindowStart(g.at, lane.policy.window) <= lane.window
    /\ Cardinality(Window(G, lane.policy, lane.window)) <= lane.count
    /\ \A start \in Nat : Cardinality(Window(G, lane.policy, start)) <= lane.policy.max

OpenInv(lane, G) ==
    lane.openUntil # Never =>
        \A g \in G : g.epoch = lane.epoch => g.kind = "AllowProbe" /\ g.at >= lane.openUntil

Exclusive(lane, g, h) ==
    (/\ g # h /\ g.kind = "AllowProbe" /\ h.kind = "AllowProbe"
     /\ g.epoch = h.epoch /\ g.at <= h.at)
    => \/ h.at >= g.at + lane.policy.probe
       \/ g.settlement # "None"
       \/ g.at = h.at /\ h.settlement # "None"

\* A probe that nobody has settled owns the lane until its lease ends.
ProbeInv(lane, G) ==
    /\ \A g, h \in G : Exclusive(lane, g, h)
    /\ lane.openUntil # Never =>
         \A g \in G : g.kind = "AllowProbe" /\ g.epoch = lane.epoch /\ g.settlement = "None" =>
            \/ lane.probe = g.id /\ lane.probeUntil = g.at + lane.policy.probe
            \/ g.at + lane.policy.probe <= lane.observed

\* The failures a closed lane counts are distinct failed dispatches of its epoch, and
\* every earlier epoch ended for a reason.
CircuitInv(lane, G) ==
    /\ lane.openUntil = Never =>
         lane.failures <= Cardinality(Failed(G, lane.epoch, "Allow"))
    /\ \A e \in 1 .. lane.epoch - 1 :
         \/ Cardinality(Failed(G, e, "Allow")) >= lane.policy.threshold
         \/ Failed(G, e, "AllowProbe") # {}

LaneInv(lane, G) ==
    /\ lane \in LaneRecords
    /\ GrantsInv(lane, G) /\ WindowInv(lane, G) /\ OpenInv(lane, G)
    /\ ProbeInv(lane, G) /\ CircuitInv(lane, G)

\* The request `id` with its record belongs to the lane with grants G: a dispatch it
\* let through is the last of its grants, and while its probe owns the lane the lease is
\* the one it was given.
AdmissionInv(id, record, lane, G) ==
    /\ lane.policy = record.policy
    /\ record.epoch <= lane.epoch
    /\ record.decision \in Allowed =>
         LET same == Same(G, id, record.admittedAt) IN
         \E g \in same : /\ g.nth = Cardinality(same) - 1
                         /\ g.kind = record.decision /\ g.epoch = record.epoch
                         /\ g.settlement = record.settlement
    /\ record.decision = "AllowProbe" /\ record.epoch = lane.epoch /\ lane.probe = id =>
         lane.probeUntil = record.admittedAt + lane.policy.probe

LaneOf(key) == LaneKey(key[1], admissions[key].op, admissions[key].policy)

GovernorInv ==
    /\ DOMAIN lanes \subseteq LaneKeys /\ IsFiniteSet(DOMAIN lanes)
    /\ Cardinality(DOMAIN lanes) <= MAX_LANES
    /\ DOMAIN admissions \subseteq Tenants \X AdmissionIds /\ IsFiniteSet(DOMAIN admissions)
    /\ Cardinality(DOMAIN admissions) <= MAX_ADMISSIONS
    /\ \A g \in grants : g.lane \in DOMAIN lanes
    /\ \A k \in DOMAIN lanes : LaneInv(lanes[k], GrantsOf(k))
    /\ \A key \in DOMAIN admissions :
         /\ admissions[key] \in AdmissionRecords
         /\ LaneOf(key) \in DOMAIN lanes
         /\ AdmissionInv(key[2], admissions[key], lanes[LaneOf(key)], GrantsOf(LaneOf(key)))

-----------------------------------------------------------------------------

\* Division with remainder.
LEMMA Division ==
    ASSUME NEW w \in Nat, w > 0, NEW a \in Nat
    PROVE  a = w * (a \div w) + (a % w)
BY Z3

\* The start of a window is a time no later than any in the window, and windows follow
\* one another as their times do (fixed_window_start).
LEMMA WindowStarts ==
    ASSUME NEW w \in Nat \ {0}, NEW a \in Nat, NEW b \in Nat, a <= b
    PROVE  /\ FixedWindowStart(a, w) \in 0 .. a
           /\ FixedWindowStart(a, w) <= FixedWindowStart(b, w)
<1>1. /\ a % w \in 0 .. w - 1 /\ b % w \in 0 .. w - 1
      /\ a \div w \in Int /\ b \div w \in Int
      /\ a = w * (a \div w) + (a % w)
      /\ b = w * (b \div w) + (b % w)
  <2>1. a % w \in 0 .. w - 1 /\ b % w \in 0 .. w - 1 /\ a \div w \in Int /\ b \div w \in Int
    OBVIOUS
  <2>2. w > 0
    OBVIOUS
  <2> QED BY Zenon, <2>1, <2>2, Division
<1>2. PICK qa \in Int, qb \in Int, ra \in 0 .. w - 1, rb \in 0 .. w - 1 :
        /\ qa = a \div w /\ qb = b \div w /\ ra = a % w /\ rb = b % w
  BY Zenon, <1>1
<1>3. FixedWindowStart(a, w) = w * qa /\ FixedWindowStart(b, w) = w * qb
  BY <1>1, <1>2 DEF FixedWindowStart
<1>4. qa >= 0
  BY <1>1, <1>2
<1>5. qa <= qb
  BY <1>1, <1>2
<1>6. w * qa <= w * qb /\ w * qa \in Nat
  BY <1>4, <1>5
<1> QED BY <1>1, <1>2, <1>3, <1>6 DEF FixedWindowStart

\* The parameters of a policy are positive (EffectDispatchGovernorPolicy::validate).
LEMMA PolicyNumbers ==
    ASSUME NEW p \in Policies
    PROVE  /\ p.max \in Nat \ {0} /\ p.window \in Nat \ {0} /\ p.threshold \in Nat \ {0}
           /\ p.open \in Nat \ {0} /\ p.probe \in Nat \ {0} /\ p.retention \in Nat \ {0}
<1>1. ValidPolicy(p)
  BY Zenon, GovernorAssumption
<1> QED BY Zenon, <1>1 DEF ValidPolicy

\* What decide makes of a lane.
Decided(lane, id, now, kind, new) ==
    LET p == lane.policy
        start == FixedWindowStart(now, p.window)
        held == IF lane.window = start THEN lane.count ELSE 0
    IN  /\ new \in LaneRecords
        /\ new.policy = p /\ new.observed = now /\ new.epoch = lane.epoch
        /\ new.openUntil = lane.openUntil /\ new.failures = lane.failures
        /\ \/ /\ kind = "Allow" /\ lane.openUntil = Never
              /\ new.window = start /\ held < p.max /\ new.count = held + 1
           \/ /\ kind = "RateLimited" /\ lane.openUntil = Never
              /\ new.window = start /\ new.count = held
           \/ /\ kind \in {"AllowProbe", "CircuitOpen"} /\ lane.openUntil # Never
              /\ new.window = lane.window /\ new.count = lane.count
        /\ IF kind = "AllowProbe"
           THEN /\ lane.openUntil <= now
                /\ lane.probeUntil = Never \/ lane.probeUntil <= now
                /\ new.probe = id /\ new.probeUntil = now + p.probe
           ELSE \/ new.probe = lane.probe /\ new.probeUntil = lane.probeUntil
                \/ new.probe = NoId /\ lane.probeUntil <= now

\* Every branch of decide is one of these.
LEMMA DecideShape ==
    ASSUME NEW lane \in LaneRecords, NEW id \in AdmissionIds, NEW now \in Times
    PROVE  LET d == Decide(lane, id, lane.policy, now)
           IN  Decided(lane, id, now, d.kind, d.lane)
<1>1. PICK p : p = lane.policy
  BY Zenon
<1>2. /\ p \in Policies /\ p.max \in Nat \ {0} /\ p.window \in Nat \ {0}
      /\ p.probe \in Nat \ {0} /\ now \in Nat /\ MaxTime \in Nat /\ now \in 0 .. MaxTime
      /\ now # Never
  BY <1>1, PolicyNumbers, GovernorAssumption DEF LaneRecords, Times, Never
<1>3. PICK start : start = FixedWindowStart(now, p.window)
  BY Zenon
<1>4. start \in 0 .. MaxTime
  <2>1. start \in 0 .. now
    BY <1>2, <1>3, WindowStarts
  <2> QED BY <1>2, <2>1
<1>5. PICK seen : seen = Observed(lane, now)
  BY Zenon
<1>6. /\ seen \in LaneRecords
      /\ seen.policy = p /\ seen.observed = now /\ seen.epoch = lane.epoch
      /\ seen.openUntil = lane.openUntil /\ seen.failures = lane.failures
      /\ seen.window = lane.window /\ seen.count = lane.count
      /\ \/ seen.probe = lane.probe /\ seen.probeUntil = lane.probeUntil
         \/ seen.probe = NoId /\ lane.probeUntil <= now /\ seen.probeUntil = Never
      /\ seen.probeUntil # Never \/ lane.probeUntil = Never \/ lane.probeUntil <= now
  BY Zenon, <1>1, <1>2, <1>5 DEF Observed, ProbeReleased, LaneRecords, Never
<1>7. CASE seen.openUntil # Never
  <2>1. PICK d : d = DecideOpen(seen, id, p, now)
    BY Zenon
  <2>2. d = Decide(lane, id, p, now)
    BY Zenon, <1>5, <1>7, <2>1 DEF Decide
  <2>3. CASE seen.openUntil > now \/ seen.probeUntil # Never
    <3>1. d.kind = "CircuitOpen" /\ d.lane = seen
      BY Zenon, <2>1, <2>3 DEF DecideOpen, Decision
    <3> QED BY Zenon, <1>1, <1>6, <1>7, <2>2, <3>1 DEF Decided
  <2>4. CASE ~ (seen.openUntil > now) /\ seen.probeUntil = Never
    <3>1. /\ d.kind = "AllowProbe"
          /\ d.lane = [seen EXCEPT !.probe = id, !.probeUntil = now + p.probe]
      BY Zenon, <2>1, <2>4 DEF DecideOpen, Decision
    <3>2. PICK new : new = d.lane
      BY Zenon
    <3>3. /\ new \in LaneRecords /\ new.probe = id /\ new.probeUntil = now + p.probe
          /\ new.policy = p /\ new.observed = now /\ new.epoch = lane.epoch
          /\ new.openUntil = lane.openUntil /\ new.failures = lane.failures
          /\ new.window = lane.window /\ new.count = lane.count
      <4>1. PICK u \in Nat : u = now + p.probe
        BY <1>2
      <4>2. new \in LaneRecords
        BY Zenon, <1>6, <3>1, <3>2, <4>1 DEF LaneRecords
      <4> QED BY Zenon, <1>6, <3>1, <3>2, <4>2 DEF LaneRecords
    <3>4. lane.openUntil <= now
      BY <1>2, <1>6, <2>4 DEF LaneRecords
    <3>5. Decided(lane, id, now, "AllowProbe", new)
      BY Zenon, <1>1, <1>6, <1>7, <2>4, <3>3, <3>4 DEF Decided
    <3> QED BY Zenon, <1>1, <2>2, <3>1, <3>2, <3>5
  <2> QED BY Zenon, <2>3, <2>4
<1>8. CASE seen.openUntil = Never
  <2>1. PICK d : d = DecideClosed(seen, p, now)
    BY Zenon
  <2>2. d = Decide(lane, id, p, now)
    BY Zenon, <1>5, <1>8, <2>1 DEF Decide
  <2>3. PICK held \in Nat : held = IF lane.window = start THEN lane.count ELSE 0
    BY Zenon DEF LaneRecords
  <2>4. PICK w : w = InWindow(seen, p, now)
    BY Zenon
  <2>5. /\ w \in LaneRecords /\ w.window = start /\ w.count = held
        /\ w.policy = p /\ w.observed = now /\ w.epoch = lane.epoch
        /\ w.openUntil = lane.openUntil /\ w.failures = lane.failures
        /\ w.probe = seen.probe /\ w.probeUntil = seen.probeUntil
    BY Zenon, <1>3, <1>4, <1>6, <2>3, <2>4 DEF InWindow, LaneRecords
  <2>6. CASE held >= p.max
    <3>1. d.kind = "RateLimited" /\ d.lane = w
      BY Zenon, <2>1, <2>4, <2>5, <2>6 DEF DecideClosed, Decision
    <3>2. Decided(lane, id, now, "RateLimited", w)
      BY Zenon, <1>1, <1>3, <1>6, <1>8, <2>3, <2>5 DEF Decided
    <3> QED BY Zenon, <1>1, <2>2, <3>1, <3>2
  <2>7. CASE held < p.max
    <3>1. d.kind = "Allow" /\ d.lane = [w EXCEPT !.count = @ + 1]
      BY <1>2, <2>1, <2>4, <2>5, <2>7 DEF DecideClosed, Decision
    <3>2. PICK new : new = d.lane
      BY Zenon
    <3>3. /\ new \in LaneRecords /\ new.window = start /\ new.count = held + 1
          /\ new.policy = p /\ new.observed = now /\ new.epoch = lane.epoch
          /\ new.openUntil = lane.openUntil /\ new.failures = lane.failures
          /\ new.probe = seen.probe /\ new.probeUntil = seen.probeUntil
      BY <2>3, <2>5, <3>1, <3>2 DEF LaneRecords
    <3>4. Decided(lane, id, now, "Allow", new)
      BY Zenon, <1>1, <1>3, <1>6, <1>8, <2>3, <2>7, <3>3 DEF Decided
    <3> QED BY Zenon, <1>1, <2>2, <3>1, <3>2, <3>4
  <2> QED BY <1>2, <2>3, <2>6, <2>7
<1> QED BY Zenon, <1>7, <1>8
\* What apply_settlement makes of a lane: a settlement from before the circuit last
\* opened, or of a probe that was replaced, changes nothing.
Settled(lane, id, record, settlement, new) ==
    /\ new \in LaneRecords
    /\ new.policy = lane.policy /\ new.window = lane.window /\ new.count = lane.count
    /\ new.observed >= lane.observed
    /\ \/ Stale(lane, id, record) /\ new = lane
       \/ /\ record.epoch = lane.epoch /\ record.decision = "Allow"
          /\ new.epoch = lane.epoch /\ new.openUntil = lane.openUntil
          /\ new.probe = lane.probe /\ new.probeUntil = lane.probeUntil
          /\ \/ settlement = "Healthy" /\ new.failures = 0
             \/ settlement = "AvailabilityFailure" /\ new.failures = lane.failures + 1
             \/ settlement = "Abandoned" /\ new.failures = lane.failures
       \/ /\ record.epoch = lane.epoch /\ record.decision = "Allow"
          /\ settlement = "AvailabilityFailure" /\ lane.failures + 1 >= lane.policy.threshold
          /\ new.epoch = lane.epoch + 1 /\ new.openUntil # Never
          /\ new.probe = NoId
       \/ /\ record.epoch = lane.epoch /\ record.decision = "AllowProbe" /\ lane.probe = id
          /\ new.probe = NoId
          /\ \/ /\ settlement = "Healthy"
                /\ new.epoch = lane.epoch /\ new.openUntil = Never /\ new.failures = 0
             \/ /\ settlement = "AvailabilityFailure"
                /\ new.epoch = lane.epoch + 1 /\ new.openUntil # Never
             \/ /\ settlement = "Abandoned"
                /\ new.epoch = lane.epoch /\ new.openUntil = lane.openUntil
                /\ new.failures = lane.failures

OpenedFrom(lane, new) ==
    /\ new \in LaneRecords
    /\ new.policy = lane.policy /\ new.window = lane.window
    /\ new.count = lane.count /\ new.observed = lane.observed
    /\ new.epoch = lane.epoch + 1 /\ new.openUntil # Never /\ new.probe = NoId

\* Opening a lane starts an epoch and frees it of its probe.
LEMMA OpenedShape ==
    ASSUME NEW lane \in LaneRecords, NEW p \in Policies, NEW at \in Times
    PROVE  OpenedFrom(lane, Opened(lane, p, at))
<1>1. PICK u \in Nat : u = at + p.open /\ u # Never
  BY PolicyNumbers DEF Times, Never
<1>2. PICK e \in Nat \ {0} : e = lane.epoch + 1
  BY DEF LaneRecords
<1>3. PICK mid : mid = ProbeReleased(lane)
  BY Zenon
<1>4. /\ mid \in LaneRecords
      /\ mid.policy = lane.policy /\ mid.window = lane.window /\ mid.count = lane.count
      /\ mid.observed = lane.observed /\ mid.epoch = lane.epoch
      /\ mid.probe = NoId /\ mid.failures = lane.failures
  BY Zenon, <1>3 DEF ProbeReleased, LaneRecords, Never
<1>5. PICK new : new = Opened(lane, p, at)
  BY Zenon
<1>6. new = [mid EXCEPT !.epoch = e, !.openUntil = u]
  BY Zenon, <1>1, <1>2, <1>3, <1>4, <1>5 DEF Opened
<1>7. /\ new \in LaneRecords
      /\ new.policy = mid.policy /\ new.window = mid.window /\ new.count = mid.count
      /\ new.observed = mid.observed /\ new.epoch = e /\ new.openUntil = u
      /\ new.probe = mid.probe /\ new.failures = mid.failures
  BY Zenon, <1>4, <1>6 DEF LaneRecords
<1> QED BY Zenon, <1>1, <1>2, <1>4, <1>5, <1>7 DEF OpenedFrom

\* Every branch of apply_settlement is one of these.
LEMMA SettleShape ==
    ASSUME NEW lane \in LaneRecords, NEW record \in AdmissionRecords,
           record.policy = lane.policy, record.decision \in Allowed,
           NEW id, NEW settlement \in Settlements, NEW now \in Times
    PROVE  Settled(lane, id, record, settlement,
                   ApplySettlement(lane, id, record, settlement, now))
<1>1. PICK at : at = IF now > lane.observed THEN now ELSE lane.observed
  BY Zenon
<1>2. at \in Times /\ at >= lane.observed
  BY <1>1 DEF LaneRecords, Times
<1>3. PICK seen : seen = [lane EXCEPT !.observed = at]
  BY Zenon
<1>4. /\ seen \in LaneRecords /\ seen.observed = at
      /\ seen.policy = lane.policy /\ seen.window = lane.window /\ seen.count = lane.count
      /\ seen.failures = lane.failures /\ seen.epoch = lane.epoch
      /\ seen.openUntil = lane.openUntil /\ seen.probe = lane.probe
      /\ seen.probeUntil = lane.probeUntil
  BY Zenon, <1>2, <1>3 DEF LaneRecords
<1>5. PICK p \in Policies : p = record.policy /\ p = lane.policy
  BY Zenon DEF LaneRecords
<1>6. PICK new : new = ApplySettlement(lane, id, record, settlement, now)
  BY Zenon
<1>7. CASE Stale(lane, id, record)
  <2>1. new = lane
    BY Zenon, <1>6, <1>7 DEF ApplySettlement
  <2>2. lane.observed >= lane.observed
    BY DEF LaneRecords, Times
  <2> QED BY Zenon, <1>6, <1>7, <2>1, <2>2 DEF Settled
<1>8. CASE ~ Stale(lane, id, record) /\ record.decision = "AllowProbe"
  <2>1. record.epoch = lane.epoch /\ lane.probe = id
    BY Zenon, <1>8 DEF Stale
  <2>2. new = SettledProbe(seen, p, settlement, at)
    BY Zenon, <1>1, <1>3, <1>5, <1>6, <1>8 DEF ApplySettlement
  <2>3. CASE settlement = "Healthy"
    <3>1. new = [ProbeReleased(seen) EXCEPT !.openUntil = Never, !.failures = 0]
      BY Zenon, <2>2, <2>3 DEF SettledProbe
    <3>2. /\ new \in LaneRecords
          /\ new.policy = lane.policy /\ new.window = lane.window /\ new.count = lane.count
          /\ new.observed = at /\ new.epoch = lane.epoch /\ new.openUntil = Never
          /\ new.failures = 0 /\ new.probe = NoId
      BY Zenon, <1>4, <3>1 DEF ProbeReleased, LaneRecords, Never
    <3> QED BY Zenon, <1>2, <1>6, <1>8, <2>1, <2>3, <3>2 DEF Settled
  <2>4. CASE settlement = "AvailabilityFailure"
    <3>1. PICK mid : mid = Opened(seen, p, at)
      BY Zenon
    <3>2. new = [mid EXCEPT !.failures = p.threshold]
      BY Zenon, <2>2, <2>4, <3>1 DEF SettledProbe
    <3>3. p.threshold \in Nat
      BY Zenon, PolicyNumbers
    <3>4. /\ mid \in LaneRecords
          /\ mid.policy = lane.policy /\ mid.window = lane.window /\ mid.count = lane.count
          /\ mid.observed = at /\ mid.epoch = lane.epoch + 1 /\ mid.openUntil # Never
          /\ mid.probe = NoId
      <4>1. OpenedFrom(seen, mid)
        BY Zenon, <1>2, <1>4, <3>1, OpenedShape
      <4> QED BY Zenon, <1>4, <4>1 DEF OpenedFrom
    <3>5. /\ new \in LaneRecords
          /\ new.policy = mid.policy /\ new.window = mid.window /\ new.count = mid.count
          /\ new.observed = mid.observed /\ new.epoch = mid.epoch
          /\ new.openUntil = mid.openUntil /\ new.probe = mid.probe
      BY Zenon, <3>2, <3>3, <3>4 DEF LaneRecords
    <3> QED BY Zenon, <1>2, <1>6, <1>8, <2>1, <2>4, <3>4, <3>5 DEF Settled
  <2>5. CASE settlement = "Abandoned"
    <3>1. new = ProbeReleased(seen)
      BY Zenon, <2>2, <2>5 DEF SettledProbe
    <3>2. /\ new \in LaneRecords
          /\ new.policy = lane.policy /\ new.window = lane.window /\ new.count = lane.count
          /\ new.observed = at /\ new.epoch = lane.epoch /\ new.openUntil = lane.openUntil
          /\ new.failures = lane.failures /\ new.probe = NoId
      BY Zenon, <1>4, <3>1 DEF ProbeReleased, LaneRecords, Never
    <3> QED BY Zenon, <1>2, <1>6, <1>8, <2>1, <2>5, <3>2 DEF Settled
  <2> QED BY Zenon, <2>3, <2>4, <2>5 DEF Settlements

<1>9. CASE ~ Stale(lane, id, record) /\ record.decision = "Allow"
  <2>1. record.epoch = lane.epoch
    BY Zenon, <1>9 DEF Stale
  <2>2. new = SettledNormal(seen, p, settlement, at)
    BY Zenon, <1>1, <1>3, <1>5, <1>6, <1>9 DEF ApplySettlement
  <2>3. CASE settlement = "Healthy"
    <3>1. new = [seen EXCEPT !.failures = 0]
      BY Zenon, <2>2, <2>3 DEF SettledNormal
    <3>2. /\ new \in LaneRecords
          /\ new.policy = lane.policy /\ new.window = lane.window /\ new.count = lane.count
          /\ new.observed = at /\ new.epoch = lane.epoch /\ new.openUntil = lane.openUntil
          /\ new.failures = 0 /\ new.probe = lane.probe /\ new.probeUntil = lane.probeUntil
      BY Zenon, <1>4, <3>1 DEF LaneRecords
    <3> QED BY Zenon, <1>2, <1>6, <1>9, <2>1, <2>3, <3>2 DEF Settled
  <2>4. CASE settlement = "AvailabilityFailure"
    <3>1. PICK f \in Nat : f = lane.failures + 1
      BY DEF LaneRecords
    <3>2. PICK counted : counted = [seen EXCEPT !.failures = f]
      BY Zenon
    <3>3. /\ counted \in LaneRecords /\ counted.failures = f
          /\ counted.policy = lane.policy /\ counted.window = lane.window
          /\ counted.count = lane.count /\ counted.observed = at
          /\ counted.epoch = lane.epoch /\ counted.openUntil = lane.openUntil
          /\ counted.probe = lane.probe /\ counted.probeUntil = lane.probeUntil
      BY Zenon, <1>4, <3>2 DEF LaneRecords
    <3>4. counted = [seen EXCEPT !.failures = @ + 1]
      BY Zenon, <1>4, <3>1, <3>2
    <3>5. new = IF counted.failures >= p.threshold THEN Opened(counted, p, at) ELSE counted
      BY Zenon, <2>2, <2>4, <3>4 DEF SettledNormal
    <3>6. CASE f >= p.threshold
      <4>1. new = Opened(counted, p, at)
        BY Zenon, <3>3, <3>5, <3>6
      <4>2. /\ new \in LaneRecords
            /\ new.policy = lane.policy /\ new.window = lane.window
            /\ new.count = lane.count /\ new.observed = at
            /\ new.epoch = lane.epoch + 1 /\ new.openUntil # Never /\ new.probe = NoId
        <5>1. OpenedFrom(counted, new)
          BY Zenon, <1>2, <3>3, <4>1, OpenedShape
        <5> QED BY Zenon, <3>3, <5>1 DEF OpenedFrom
      <4> QED BY Zenon, <1>2, <1>5, <1>6, <1>9, <2>1, <2>4, <3>1, <3>6, <4>2 DEF Settled
    <3>7. CASE ~ (f >= p.threshold)
      <4>1. new = counted
        BY Zenon, <3>3, <3>5, <3>7
      <4> QED BY Zenon, <1>2, <1>6, <1>9, <2>1, <2>4, <3>1, <3>3, <4>1 DEF Settled
    <3> QED BY Zenon, <3>6, <3>7
  <2>5. CASE settlement = "Abandoned"
    <3>1. new = seen
      BY Zenon, <2>2, <2>5 DEF SettledNormal
    <3> QED BY Zenon, <1>2, <1>4, <1>6, <1>9, <2>1, <2>5, <3>1 DEF Settled
  <2> QED BY Zenon, <2>3, <2>4, <2>5 DEF Settlements
<1> QED BY Zenon, <1>7, <1>8, <1>9 DEF Allowed
-----------------------------------------------------------------------------
(* decide keeps a lane and its grants in step.                              *)

\* The grant a request is given on a lane.
NewGrant(key, id, kind, lane, G, now) ==
    [lane |-> key, id |-> id, kind |-> kind, at |-> now, nth |-> Cardinality(Same(G, id, now)),
     epoch |-> lane.epoch, settlement |-> "None"]

\* The sets decide and the settlements look at are finite.
LEMMA FiniteParts ==
    ASSUME NEW G, IsFiniteSet(G)
    PROVE  /\ \A id, at : IsFiniteSet(Same(G, id, at)) /\ Cardinality(Same(G, id, at)) \in Nat
           /\ \A p, start : /\ IsFiniteSet(Window(G, p, start))
                            /\ Cardinality(Window(G, p, start)) \in Nat
           /\ \A e, kind : /\ IsFiniteSet(Failed(G, e, kind))
                           /\ Cardinality(Failed(G, e, kind)) \in Nat
<1>1. \A S \in SUBSET G : IsFiniteSet(S) /\ Cardinality(S) \in Nat
  BY Zenon, FS_Subset, FS_CardinalityType
<1>2. \A id, at : Same(G, id, at) \in SUBSET G
  BY Zenon DEF Same
<1>3. \A p, start : Window(G, p, start) \in SUBSET G
  BY Zenon DEF Window
<1>4. \A e, kind : Failed(G, e, kind) \in SUBSET G
  BY Zenon DEF Failed
<1> QED BY Zenon, <1>1, <1>2, <1>3, <1>4

\* H has the new grant g besides the grants G.
GrantAdded(G, H, g, id, kind, now) ==
    /\ g \in GrantRecords /\ g \notin G /\ IsFiniteSet(H)
    /\ \A i, a : ~ (i = id /\ a = now) => Same(H, i, a) = Same(G, i, a)
    /\ g \in Same(H, id, now)
    /\ Cardinality(Same(H, id, now)) = g.nth + 1
    /\ \A p, start : kind # "Allow" => Window(H, p, start) = Window(G, p, start)
    /\ \A p, start : FixedWindowStart(now, p.window) # start =>
                        Window(H, p, start) = Window(G, p, start)
    /\ \A p, start : Cardinality(Window(H, p, start)) <= Cardinality(Window(G, p, start)) + 1
    /\ \A e, k : Failed(H, e, k) = Failed(G, e, k)

\* A new grant is counted with those of its request and, unless it is a probe, of its
\* window.
LEMMA GrantAdds ==
    ASSUME NEW lane \in LaneRecords, NEW G, GrantsInv(lane, G),
           NEW key \in LaneKeys, NEW id \in AdmissionIds, NEW kind \in Allowed,
           NEW now \in Times
    PROVE  GrantAdded(G, G \cup {NewGrant(key, id, kind, lane, G, now)},
                      NewGrant(key, id, kind, lane, G, now), id, kind, now)
<1>0. PICK g, H : g = NewGrant(key, id, kind, lane, G, now) /\ H = G \cup {g}
  BY Zenon
<1>1. IsFiniteSet(G)
  BY Zenon DEF GrantsInv
<1>2. PICK n \in Nat : n = Cardinality(Same(G, id, now))
  BY Zenon, <1>1, FiniteParts
<1>3. PICK e \in Nat \ {0} : e = lane.epoch
  BY Zenon DEF LaneRecords
<1>4. /\ g \in GrantRecords /\ g.id = id /\ g.at = now /\ g.nth = n /\ g.kind = kind
      /\ g.settlement = "None" /\ g.epoch = e /\ g.lane = key
  BY Zenon, <1>0, <1>2, <1>3 DEF NewGrant, GrantRecords
<1>5. g \notin G
  <2>1. SUFFICES ASSUME g \in G PROVE FALSE
    BY Zenon
  <2>2. g.nth < Cardinality(Same(G, g.id, g.at))
    BY Zenon, <2>1 DEF GrantsInv
  <2>3. n < n
    BY Zenon, <1>2, <1>4, <2>2
  <2> QED BY <2>3
<1>6. IsFiniteSet(H)
  BY Zenon, <1>0, <1>1, FS_AddElement
<1>7. \A i, a : ~ (i = id /\ a = now) => Same(H, i, a) = Same(G, i, a)
  BY Zenon, <1>0, <1>4 DEF Same
<1>8. Same(H, id, now) = Same(G, id, now) \cup {g}
  BY Zenon, <1>0, <1>4 DEF Same
<1>9. Cardinality(Same(H, id, now)) = n + 1
  <2>1. IsFiniteSet(Same(G, id, now)) /\ g \notin Same(G, id, now)
    <3>1. IsFiniteSet(Same(G, id, now))
      BY Zenon, <1>1, FiniteParts
    <3>2. g \notin Same(G, id, now)
      BY Zenon, <1>5 DEF Same
    <3> QED BY Zenon, <3>1, <3>2
  <2>2. Cardinality(Same(G, id, now) \cup {g}) =
          IF g \in Same(G, id, now) THEN Cardinality(Same(G, id, now))
                                    ELSE Cardinality(Same(G, id, now)) + 1
    BY Zenon, <2>1, FS_AddElement
  <2> QED BY Zenon, <1>2, <1>8, <2>1, <2>2
<1>10. \A p, start : kind # "Allow" => Window(H, p, start) = Window(G, p, start)
  BY Zenon, <1>0, <1>4 DEF Window
<1>11. \A p, start : FixedWindowStart(now, p.window) # start =>
                       Window(H, p, start) = Window(G, p, start)
  BY Zenon, <1>0, <1>4 DEF Window
<1>12. ASSUME NEW p, NEW start
       PROVE  Cardinality(Window(H, p, start)) <= Cardinality(Window(G, p, start)) + 1
  <2>1. IsFiniteSet(Window(G, p, start)) /\ Cardinality(Window(G, p, start)) \in Nat
    BY Zenon, <1>1, FiniteParts
  <2>2. \/ Window(H, p, start) = Window(G, p, start)
        \/ Window(H, p, start) = Window(G, p, start) \cup {g} /\ g \notin Window(G, p, start)
    BY Zenon, <1>0, <1>5 DEF Window
  <2>3. Cardinality(Window(G, p, start) \cup {g}) =
          IF g \in Window(G, p, start) THEN Cardinality(Window(G, p, start))
                                       ELSE Cardinality(Window(G, p, start)) + 1
    BY Zenon, <2>1, FS_AddElement
  <2>4. \/ Cardinality(Window(H, p, start)) = Cardinality(Window(G, p, start))
        \/ Cardinality(Window(H, p, start)) = Cardinality(Window(G, p, start)) + 1
    BY Zenon, <2>2, <2>3
  <2> QED BY <2>1, <2>4
<1>13. \A e1, k : Failed(H, e1, k) = Failed(G, e1, k)
  <2>1. g.settlement # "AvailabilityFailure"
    BY Zenon, <1>4
  <2> QED BY Zenon, <1>0, <2>1 DEF Failed
<1>14. g \in Same(H, id, now)
  BY Zenon, <1>8
<1>15. GrantAdded(G, H, g, id, kind, now)
  BY Zenon, <1>4, <1>5, <1>6, <1>7, <1>9, <1>10, <1>11, <1>12, <1>13, <1>14 DEF GrantAdded
<1> QED BY Zenon, <1>0, <1>15

\* The window decide leaves the lane in is that of the request's time, no earlier than
\* the one it was in, and holds no more grants than the counter it starts from.
LEMMA WindowMoves ==
    ASSUME NEW lane, NEW G, LaneInv(lane, G), NEW now \in Times, now >= lane.observed,
           NEW p, p = lane.policy, NEW start, start = FixedWindowStart(now, p.window),
           NEW held, held = IF lane.window = start THEN lane.count ELSE 0
    PROVE  /\ start \in Nat /\ lane.window <= start
           /\ held \in Nat /\ held <= p.max
           /\ \A g \in G : g.kind = "Allow" => FixedWindowStart(g.at, p.window) <= start
           /\ Cardinality(Window(G, p, start)) <= held
<1>1. /\ lane \in LaneRecords /\ p \in Policies /\ lane.window \in Nat /\ lane.count \in Nat
      /\ lane.observed \in Nat /\ now \in Nat
  BY DEF LaneInv, LaneRecords, Times
<1>2. p.window \in Nat \ {0} /\ p.max \in Nat
  BY Zenon, <1>1, PolicyNumbers
<1>3. PICK seen \in Nat : seen = FixedWindowStart(lane.observed, p.window) /\ seen <= start
                          /\ start \in Nat
  <2>1. /\ FixedWindowStart(lane.observed, p.window) \in 0 .. lane.observed
        /\ FixedWindowStart(lane.observed, p.window) <= start
        /\ FixedWindowStart(now, p.window) \in 0 .. now
    <3>1. now <= now /\ lane.observed <= now
      BY <1>1
    <3> QED BY Zenon, <1>1, <1>2, <3>1, WindowStarts
  <2> QED BY <1>1, <2>1
<1>4. lane.window <= seen /\ lane.count <= p.max
  BY Zenon, <1>3 DEF LaneInv, WindowInv
<1>5. lane.window <= start
  BY <1>1, <1>3, <1>4
<1>6. held \in Nat /\ held <= p.max
  BY <1>1, <1>2, <1>4
<1>7. ASSUME NEW g \in G, g.kind = "Allow"
      PROVE  FixedWindowStart(g.at, p.window) <= lane.window /\ g.at \in Nat
  BY <1>7 DEF LaneInv, WindowInv, GrantsInv, GrantRecords, Times
<1>8. ASSUME NEW g \in G, g.kind = "Allow"
      PROVE  FixedWindowStart(g.at, p.window) <= start
  <2>1. g.at <= g.at
    BY <1>7, <1>8
  <2>2. FixedWindowStart(g.at, p.window) \in 0 .. g.at
    BY Zenon, <1>2, <1>7, <1>8, <2>1, WindowStarts
  <2> QED BY <1>1, <1>3, <1>5, <1>7, <1>8, <2>2
<1>9. Cardinality(Window(G, p, start)) <= held
  <2>1. CASE lane.window = start
    BY Zenon, <2>1 DEF LaneInv, WindowInv
  <2>2. CASE lane.window # start
    <3>1. lane.window < start
      BY <1>1, <1>3, <1>5, <2>2
    <3>2. \A g \in G : ~ (g.kind = "Allow" /\ FixedWindowStart(g.at, p.window) = start)
      BY <1>1, <1>3, <1>7, <3>1
    <3>3. Window(G, p, start) = {}
      BY Zenon, <3>2 DEF Window
    <3>4. Cardinality(Window(G, p, start)) = 0
      BY Zenon, <3>3, FS_EmptySet
    <3> QED BY <2>2, <3>4
  <2> QED BY Zenon, <2>1, <2>2
<1> QED BY Zenon, <1>3, <1>5, <1>6, <1>8, <1>9

\* A probe of the current opening that nobody has settled has lost its lease by the time
\* the next one is let through.
LEMMA LeaseEnded ==
    ASSUME NEW lane, NEW G, LaneInv(lane, G), NEW now \in Times, now >= lane.observed,
           lane.openUntil # Never, lane.probeUntil = Never \/ lane.probeUntil <= now,
           NEW g \in G, g.kind = "AllowProbe", g.epoch = lane.epoch, g.settlement = "None"
    PROVE  g.at + lane.policy.probe <= now
<1>1. /\ lane.policy \in Policies /\ lane.probeUntil \in Nat /\ lane.observed \in Nat
      /\ now \in Nat /\ g.at \in Nat
  BY DEF LaneInv, LaneRecords, GrantsInv, GrantRecords, Times
<1>2. lane.policy.probe \in Nat \ {0}
  BY Zenon, <1>1, PolicyNumbers
<1>3. \/ lane.probeUntil = g.at + lane.policy.probe
      \/ g.at + lane.policy.probe <= lane.observed
  BY Zenon DEF LaneInv, ProbeInv
<1> QED BY <1>1, <1>2, <1>3 DEF Never

\* An open lane lets nothing through but probes, and those when the open duration is over.
LEMMA ProbesOnly ==
    ASSUME NEW lane, NEW id, NEW now, NEW kind \in Allowed, NEW new,
           Decided(lane, id, now, kind, new), lane.openUntil # Never
    PROVE  kind = "AllowProbe" /\ lane.openUntil <= now
<1>1. kind = "AllowProbe"
  BY Zenon DEF Decided, Allowed
<1> QED BY Zenon, <1>1 DEF Decided

\* A request that is let through leaves a lane in step with its grants.
LEMMA AdmitKeepsLane ==
    ASSUME NEW lane, NEW G, LaneInv(lane, G), NEW now \in Times, now >= lane.observed,
           NEW key \in LaneKeys, NEW id \in AdmissionIds, NEW kind \in Allowed, NEW new,
           Decided(lane, id, now, kind, new),
           NEW g, g = NewGrant(key, id, kind, lane, G, now), NEW H, H = G \cup {g}
    PROVE  LaneInv(new, H)
<1> DEFINE start == FixedWindowStart(now, lane.policy.window)
           held == IF lane.window = start THEN lane.count ELSE 0
<1>1. /\ lane \in LaneRecords /\ new \in LaneRecords
      /\ GrantsInv(lane, G) /\ WindowInv(lane, G) /\ OpenInv(lane, G)
      /\ ProbeInv(lane, G) /\ CircuitInv(lane, G)
  BY Zenon DEF LaneInv, Decided
<1>2. PICK p \in Policies : p = lane.policy /\ new.policy = p
  BY Zenon, <1>1 DEF LaneRecords, Decided
<1>3. /\ new.observed = now /\ new.epoch = lane.epoch /\ new.openUntil = lane.openUntil
      /\ new.failures = lane.failures
  BY Zenon DEF Decided
<1>4. /\ g.id = id /\ g.kind = kind /\ g.at = now /\ g.nth = Cardinality(Same(G, id, now))
      /\ g.epoch = lane.epoch /\ g.settlement = "None"
  BY Zenon DEF NewGrant
<1>5. /\ g \in GrantRecords /\ g \notin G /\ IsFiniteSet(H)
      /\ \A i, a : ~ (i = id /\ a = now) => Same(H, i, a) = Same(G, i, a)
      /\ g \in Same(H, id, now)
      /\ Cardinality(Same(H, id, now)) = g.nth + 1
      /\ \A q, s : kind # "Allow" => Window(H, q, s) = Window(G, q, s)
      /\ \A q, s : FixedWindowStart(now, q.window) # s => Window(H, q, s) = Window(G, q, s)
      /\ \A q, s : Cardinality(Window(H, q, s)) <= Cardinality(Window(G, q, s)) + 1
      /\ \A e, k : Failed(H, e, k) = Failed(G, e, k)
  <2>1. GrantAdded(G, H, g, id, kind, now)
    BY Zenon, <1>1, GrantAdds
  <2> QED BY Zenon, <2>1 DEF GrantAdded
<1>6. /\ now \in Nat /\ lane.observed \in Nat /\ lane.epoch \in Nat /\ lane.openUntil \in Nat
      /\ lane.probeUntil \in Nat /\ g.nth \in Nat /\ p.probe \in Nat \ {0} /\ p.max \in Nat
      /\ \A h \in G : /\ h.at \in Nat /\ h.nth \in Nat /\ h.epoch \in Nat
                      /\ h.at <= now /\ h.epoch <= lane.epoch
  <2>1. p.probe \in Nat \ {0} /\ p.max \in Nat
    BY Zenon, PolicyNumbers
  <2>2. now \in Nat /\ lane.observed \in Nat /\ lane.epoch \in Nat /\ lane.openUntil \in Nat
        /\ lane.probeUntil \in Nat /\ g.nth \in Nat
    BY <1>1, <1>5 DEF LaneRecords, GrantRecords, Times
  <2>3. \A h \in G : h.at \in Nat /\ h.nth \in Nat /\ h.epoch \in Nat
                     /\ h.at <= lane.observed /\ h.epoch <= lane.epoch
    BY <1>1 DEF GrantsInv, GrantRecords, Times
  <2> QED BY <2>1, <2>2, <2>3
<1>7. GrantsInv(new, H)
  <2>1. ASSUME NEW h \in G PROVE h.nth < Cardinality(Same(H, h.id, h.at))
    <3>1. h.nth < Cardinality(Same(G, h.id, h.at))
      BY Zenon, <1>1 DEF GrantsInv
    <3>2. CASE h.id = id /\ h.at = now
      <4>1. h.nth < g.nth /\ Cardinality(Same(H, h.id, h.at)) = g.nth + 1
        BY Zenon, <1>4, <1>5, <3>1, <3>2
      <4> QED BY <1>6, <4>1
    <3>3. CASE ~ (h.id = id /\ h.at = now)
      BY Zenon, <1>5, <3>1, <3>3
    <3> QED BY Zenon, <3>2, <3>3
  <2>2. \A h \in G : h \in GrantRecords /\ h.at <= new.observed /\ h.epoch <= new.epoch
    BY Zenon, <1>1, <1>3, <1>6 DEF GrantsInv
  <2>3. g.at <= new.observed /\ g.epoch <= new.epoch /\ g.nth < g.nth + 1
    BY <1>3, <1>4, <1>6
  <2>4. \A h \in H : /\ h \in GrantRecords /\ h.at <= new.observed /\ h.epoch <= new.epoch
                     /\ h.nth < Cardinality(Same(H, h.id, h.at))
    BY Zenon, <1>4, <1>5, <2>1, <2>2, <2>3
  <2>5. ASSUME NEW h \in G, h.id = g.id, h.at = g.at, h.nth = g.nth PROVE FALSE
    <3>1. h.nth < Cardinality(Same(G, h.id, h.at))
      BY Zenon, <1>1 DEF GrantsInv
    <3>2. g.nth < g.nth
      BY Zenon, <1>4, <2>5, <3>1
    <3> QED BY <1>6, <3>2
  <2>6. \A h, k \in G : h.id = k.id /\ h.at = k.at /\ h.nth = k.nth => h = k
    BY Zenon, <1>1 DEF GrantsInv
  <2>7. \A h, k \in H : h.id = k.id /\ h.at = k.at /\ h.nth = k.nth => h = k
    <3>1. \A h \in H : h \in G \/ h = g
      BY Zenon
    <3>2. \A h \in G : ~ (h.id = g.id /\ h.at = g.at /\ h.nth = g.nth)
      BY Zenon, <2>5
    <3> QED BY <2>6, <3>1, <3>2
  <2> QED BY Zenon, <1>5, <2>4, <2>7 DEF GrantsInv
<1>8. WindowInv(new, H)
  <2>1. /\ start \in Nat /\ lane.window <= start /\ held \in Nat /\ held <= p.max
        /\ \A h \in G : h.kind = "Allow" => FixedWindowStart(h.at, p.window) <= start
        /\ Cardinality(Window(G, p, start)) <= held
    BY <1>2, WindowMoves
  <2>2. /\ \A s : Cardinality(Window(G, p, s)) \in Nat
        /\ \A s \in Nat : Cardinality(Window(G, p, s)) <= p.max
        /\ \A s : Cardinality(Window(H, p, s)) \in Nat
    BY Zenon, <1>1, <1>2, <1>5, FiniteParts DEF GrantsInv, WindowInv
  <2>3. CASE kind = "Allow"
    <3>1. new.window = start /\ held < p.max /\ new.count = held + 1
      BY Zenon, <1>2, <2>3 DEF Decided
    <3>2. Cardinality(Window(H, p, start)) <= held + 1
      <4>1. Cardinality(Window(H, p, start)) <= Cardinality(Window(G, p, start)) + 1
        BY Zenon, <1>5
      <4>2. Cardinality(Window(H, p, start)) \in Nat /\ Cardinality(Window(G, p, start)) \in Nat
        BY Zenon, <2>2
      <4> HIDE DEF start, held
      <4> QED BY <2>1, <4>1, <4>2
    <3>3. \A s \in Nat : Cardinality(Window(H, p, s)) <= p.max
      <4>1. ASSUME NEW s \in Nat, s # start PROVE Cardinality(Window(H, p, s)) <= p.max
        BY Zenon, <1>2, <1>5, <2>2, <4>1
      <4>2. Cardinality(Window(H, p, start)) <= p.max
        <5>1. Cardinality(Window(H, p, start)) \in Nat
          BY Zenon, <2>2
        <5> HIDE DEF start, held
        <5> QED BY <1>6, <2>1, <3>1, <3>2, <5>1
      <4> QED BY Zenon, <4>1, <4>2
    <3>4. \A h \in H : h.kind = "Allow" => FixedWindowStart(h.at, p.window) <= start
      <4>1. FixedWindowStart(g.at, p.window) <= start
        BY <1>2, <1>4, <2>1
      <4> QED BY Zenon, <2>1, <4>1
    <3>5. start <= start /\ held + 1 <= p.max
      BY <1>6, <2>1, <3>1
    <3>6. start = FixedWindowStart(new.observed, p.window)
      BY Zenon, <1>2, <1>3
    <3> HIDE DEF start, held
    <3> QED BY Zenon, <1>2, <1>3, <3>1, <3>2, <3>3, <3>4, <3>5, <3>6 DEF WindowInv
  <2>4. CASE kind = "AllowProbe"
    <3>1. new.window = lane.window /\ new.count = lane.count
      BY Zenon, <2>4 DEF Decided
    <3>2. \A s : Window(H, p, s) = Window(G, p, s)
      BY Zenon, <1>5, <2>4
    <3>3. lane.window <= FixedWindowStart(new.observed, p.window)
      BY Zenon, <1>2, <1>3, <2>1
    <3>4. \A h \in H : h.kind = "Allow" => h \in G
      BY Zenon, <1>4, <2>4
    <3> QED BY Zenon, <1>1, <1>2, <3>1, <3>2, <3>3, <3>4 DEF WindowInv
  <2> QED BY Zenon, <2>3, <2>4 DEF Allowed
<1>9. OpenInv(new, H)
  <2>1. ASSUME lane.openUntil # Never PROVE g.kind = "AllowProbe" /\ g.at >= lane.openUntil
    <3>1. kind = "AllowProbe" /\ lane.openUntil <= now
      BY Zenon, <2>1, ProbesOnly
    <3> QED BY Zenon, <1>4, <1>6, <3>1
  <2> QED BY Zenon, <1>1, <1>3, <2>1 DEF OpenInv
<1>10. ProbeInv(new, H)
  <2>1. ASSUME kind = "AllowProbe"
        PROVE  /\ lane.openUntil # Never
               /\ lane.probeUntil = Never \/ lane.probeUntil <= now
               /\ new.probe = id /\ new.probeUntil = now + p.probe
    BY Zenon, <1>2, <2>1 DEF Decided
  <2>2. ASSUME kind = "AllowProbe", NEW h \in G, h.kind = "AllowProbe",
               h.epoch = lane.epoch, h.settlement = "None"
        PROVE  h.at + p.probe <= now
    BY Zenon, <1>2, <2>1, <2>2, LeaseEnded
  <2>3. \A h \in G : Exclusive(new, h, g) /\ Exclusive(new, g, h)
    <3>1. SUFFICES ASSUME NEW h \in G, kind = "AllowProbe", h.kind = "AllowProbe",
                          h.epoch = lane.epoch
                   PROVE  /\ now >= h.at + p.probe \/ h.settlement # "None"
                          /\ now <= h.at => h.settlement # "None" /\ now = h.at
      BY Zenon, <1>2, <1>4 DEF Exclusive
    <3>2. h.settlement = "None" => h.at + p.probe <= now
      BY Zenon, <2>2, <3>1
    <3> QED BY <1>6, <3>2
  <2>4. \A h, k \in H : Exclusive(new, h, k)
    <3>1. \A h, k \in G : Exclusive(new, h, k)
      BY Zenon, <1>1, <1>2 DEF ProbeInv, Exclusive
    <3>2. Exclusive(new, g, g)
      BY Zenon DEF Exclusive
    <3> QED BY Zenon, <2>3, <3>1, <3>2
  <2>5. ASSUME lane.openUntil # Never, NEW h \in H, h.kind = "AllowProbe",
               h.epoch = lane.epoch, h.settlement = "None"
        PROVE  \/ new.probe = h.id /\ new.probeUntil = h.at + p.probe
               \/ h.at + p.probe <= now
    <3>1. kind = "AllowProbe"
      BY Zenon, <2>5, ProbesOnly
    <3>2. CASE h = g
      BY Zenon, <1>4, <2>1, <3>1, <3>2
    <3>3. CASE h \in G
      BY Zenon, <2>2, <2>5, <3>1, <3>3
    <3> QED BY Zenon, <2>5, <3>2, <3>3
  <2> QED BY Zenon, <1>2, <1>3, <2>4, <2>5 DEF ProbeInv
<1>11. CircuitInv(new, H)
  <2>1. \A e, k : Failed(H, e, k) = Failed(G, e, k)
    BY Zenon, <1>5
  <2>2. new.openUntil = Never => new.failures <= Cardinality(Failed(H, new.epoch, "Allow"))
    BY ZenonT(30), <1>1, <1>3, <2>1 DEF CircuitInv
  <2>3. ASSUME NEW e \in 1 .. new.epoch - 1
        PROVE  \/ Cardinality(Failed(H, e, "Allow")) >= new.policy.threshold
               \/ Failed(H, e, "AllowProbe") # {}
    <3>1. e \in 1 .. lane.epoch - 1
      BY Zenon, <1>3
    <3>2. \/ Cardinality(Failed(G, e, "Allow")) >= lane.policy.threshold
          \/ Failed(G, e, "AllowProbe") # {}
      BY Zenon, <1>1, <3>1 DEF CircuitInv
    <3> QED BY Zenon, <1>2, <2>1, <3>2
  <2> QED BY Zenon, <2>2, <2>3 DEF CircuitInv
<1> QED BY Zenon, <1>1, <1>7, <1>8, <1>9, <1>10, <1>11 DEF LaneInv

\* A request that is not let through leaves a lane in step with the same grants.
LEMMA RefusalKeepsLane ==
    ASSUME NEW lane, NEW G, LaneInv(lane, G), NEW now \in Times, now >= lane.observed,
           NEW id \in AdmissionIds, NEW kind, kind \notin Allowed, NEW new,
           Decided(lane, id, now, kind, new)
    PROVE  LaneInv(new, G)
<1> DEFINE start == FixedWindowStart(now, lane.policy.window)
           held == IF lane.window = start THEN lane.count ELSE 0
<1>1. /\ lane \in LaneRecords /\ new \in LaneRecords
      /\ GrantsInv(lane, G) /\ WindowInv(lane, G) /\ OpenInv(lane, G)
      /\ ProbeInv(lane, G) /\ CircuitInv(lane, G)
  BY Zenon DEF LaneInv, Decided
<1>2. PICK p \in Policies : p = lane.policy /\ new.policy = p
  BY Zenon, <1>1 DEF LaneRecords, Decided
<1>3. /\ new.observed = now /\ new.epoch = lane.epoch /\ new.openUntil = lane.openUntil
      /\ new.failures = lane.failures
  BY Zenon DEF Decided
<1>4. /\ now \in Nat /\ lane.observed \in Nat /\ lane.probeUntil \in Nat /\ p.probe \in Nat \ {0}
      /\ \A h \in G : h.at \in Nat /\ h.at <= lane.observed
  <2>1. p.probe \in Nat \ {0}
    BY Zenon, PolicyNumbers
  <2> QED BY <1>1, <2>1 DEF LaneRecords, GrantsInv, GrantRecords, Times
<1>5. GrantsInv(new, G)
  <2>1. \A h \in G : h.at <= now
    BY <1>4
  <2> QED BY Zenon, <1>1, <1>3, <2>1 DEF GrantsInv
<1>6. WindowInv(new, G)
  <2>1. /\ start \in Nat /\ lane.window <= start /\ held \in Nat /\ held <= p.max
        /\ \A h \in G : h.kind = "Allow" => FixedWindowStart(h.at, p.window) <= start
        /\ Cardinality(Window(G, p, start)) <= held
    BY <1>2, WindowMoves
  <2>2. start = FixedWindowStart(new.observed, p.window)
    BY Zenon, <1>2, <1>3
  <2>3. \/ new.window = start /\ new.count = held
        \/ new.window = lane.window /\ new.count = lane.count
    BY Zenon DEF Decided, Allowed
  <2> HIDE DEF start, held
  <2>4. CASE new.window = start /\ new.count = held
    <3>1. start <= start
      BY <2>1
    <3> QED BY Zenon, <1>1, <1>2, <2>1, <2>2, <2>4, <3>1 DEF WindowInv
  <2>5. CASE new.window = lane.window /\ new.count = lane.count
    BY Zenon, <1>1, <1>2, <2>1, <2>2, <2>5 DEF WindowInv
  <2> QED BY Zenon, <2>3, <2>4, <2>5
<1>7. OpenInv(new, G)
  BY Zenon, <1>1, <1>3 DEF OpenInv
<1>8. ProbeInv(new, G)
  <2>1. \A h, k \in G : Exclusive(new, h, k)
    BY Zenon, <1>1, <1>2 DEF ProbeInv, Exclusive
  <2>2. \/ new.probe = lane.probe /\ new.probeUntil = lane.probeUntil
        \/ lane.probeUntil <= now
    <3>1. kind # "AllowProbe"
      BY Zenon DEF Allowed
    <3> QED BY Zenon, <3>1 DEF Decided
  <2>3. ASSUME lane.openUntil # Never, NEW h \in G, h.kind = "AllowProbe",
               h.epoch = lane.epoch, h.settlement = "None"
        PROVE  \/ new.probe = h.id /\ new.probeUntil = h.at + p.probe
               \/ h.at + p.probe <= now
    <3>1. \/ lane.probe = h.id /\ lane.probeUntil = h.at + p.probe
          \/ h.at + p.probe <= lane.observed
      BY Zenon, <1>1, <1>2, <2>3 DEF ProbeInv
    <3> QED BY <1>4, <2>2, <3>1
  <2> QED BY Zenon, <1>2, <1>3, <2>1, <2>3 DEF ProbeInv
<1>9. CircuitInv(new, G)
  BY Zenon, <1>1, <1>2, <1>3 DEF CircuitInv
<1> QED BY Zenon, <1>1, <1>5, <1>6, <1>7, <1>8, <1>9 DEF LaneInv

\* The lane that a first request creates has no grants.
LEMMA FirstLane ==
    ASSUME NEW p \in Policies, NEW now \in Times, NEW lane, lane = InitialLane(p, now)
    PROVE  LaneInv(lane, {}) /\ lane.observed = now /\ lane.policy = p
<1>1. /\ p.window \in Nat \ {0} /\ p.max \in Nat /\ now \in Nat /\ MaxTime \in Nat
      /\ now <= MaxTime
  BY PolicyNumbers, GovernorAssumption DEF Times
<1>2. PICK start : start = FixedWindowStart(now, p.window)
  BY Zenon
<1>3. start \in 0 .. MaxTime /\ start <= start
  <2>1. now <= now
    BY <1>1
  <2>2. start \in 0 .. now
    BY Zenon, <1>1, <1>2, <2>1, WindowStarts
  <2> QED BY <1>1, <2>2
<1>4. /\ lane.policy = p /\ lane.observed = now /\ lane.window = start /\ lane.count = 0
      /\ lane.failures = 0 /\ lane.epoch = 1 /\ lane.openUntil = Never
      /\ lane.probe = NoId /\ lane.probeUntil = Never
  BY Zenon, <1>2 DEF InitialLane
<1>5. lane \in LaneRecords
  BY <1>2, <1>3 DEF InitialLane, LaneRecords, Never
<1>6. /\ IsFiniteSet({})
      /\ \A q, s : Window({}, q, s) = {}
      /\ \A e, k : Failed({}, e, k) = {}
      /\ Cardinality({}) = 0
  BY Zenon, FS_EmptySet DEF Window, Failed
<1>7. GrantsInv(lane, {})
  BY Zenon, <1>6 DEF GrantsInv
<1>8. WindowInv(lane, {})
  <2>1. 0 <= p.max /\ 0 <= 0
    BY <1>1
  <2> QED BY Zenon, <1>2, <1>3, <1>4, <1>6, <2>1 DEF WindowInv
<1>9. OpenInv(lane, {}) /\ ProbeInv(lane, {})
  BY Zenon DEF OpenInv, ProbeInv
<1>10. CircuitInv(lane, {})
  <2>1. 0 <= 0 /\ 1 .. lane.epoch - 1 = {}
    BY <1>4
  <2> QED BY Zenon, <1>4, <1>6, <2>1 DEF CircuitInv
<1> QED BY Zenon, <1>4, <1>5, <1>7, <1>8, <1>9, <1>10 DEF LaneInv

\* The grants of every request but `id` are the same in G and in H.
OthersKept(G, H, id) == \A other, a : other # id => Same(H, other, a) = Same(G, other, a)

\* The other requests of a lane keep what they had when a new one is decided.
LEMMA DecideKeepsOthers ==
    ASSUME NEW lane, NEW G, NEW now, NEW id \in AdmissionIds, NEW kind, NEW new,
           Decided(lane, id, now, kind, new), NEW H, NEW other \in AdmissionIds, other # id,
           OthersKept(G, H, id), NEW record, AdmissionInv(other, record, lane, G)
    PROVE  AdmissionInv(other, record, new, H)
<1>1. new.policy = lane.policy /\ new.epoch = lane.epoch
  BY Zenon DEF Decided
<1>2. new.probe = other => lane.probe = other /\ new.probeUntil = lane.probeUntil
  <2>1. NoId # other
    BY Zenon, GovernorAssumption
  <2> QED BY Zenon, <2>1 DEF Decided
<1>3. record.decision \in Allowed =>
        \E g \in Same(H, other, record.admittedAt) :
            /\ g.nth = Cardinality(Same(H, other, record.admittedAt)) - 1
            /\ g.kind = record.decision /\ g.epoch = record.epoch
            /\ g.settlement = record.settlement
  BY Zenon DEF AdmissionInv, OthersKept
<1>4. record.decision = "AllowProbe" /\ record.epoch = new.epoch /\ new.probe = other =>
        new.probeUntil = record.admittedAt + new.policy.probe
  BY Zenon, <1>1, <1>2 DEF AdmissionInv
<1>5. new.policy = record.policy /\ record.epoch <= new.epoch
  BY Zenon, <1>1 DEF AdmissionInv
<1> QED BY Zenon, <1>3, <1>4, <1>5 DEF AdmissionInv

-----------------------------------------------------------------------------
(* apply_settlement keeps a lane and its grants in step.                    *)

\* H has the grants G, but g0 among them is settled and has become g1.
GrantSettled(G, H, g0, g1, settlement) ==
    /\ g0 \in G /\ g1 \notin G /\ g0.settlement = "None" /\ settlement \in Settlements
    /\ g1 = [g0 EXCEPT !.settlement = settlement]
    /\ H = (G \ {g0}) \cup {g1}

\* Replacing a member of a finite set by a new one leaves its size.
LEMMA ReplaceCard ==
    ASSUME NEW S, IsFiniteSet(S), NEW g0 \in S, NEW g1, g1 \notin S
    PROVE  /\ IsFiniteSet((S \ {g0}) \cup {g1})
           /\ Cardinality((S \ {g0}) \cup {g1}) = Cardinality(S)
<1>1. PICK T : T = S \ {g0}
  BY Zenon
<1>2. IsFiniteSet(T) /\ Cardinality(T) = Cardinality(S) - 1
  <2>1. Cardinality(S \ {g0}) = IF g0 \in S THEN Cardinality(S) - 1 ELSE Cardinality(S)
    BY Zenon, FS_RemoveElement
  <2>2. IsFiniteSet(S \ {g0})
    BY Zenon, FS_RemoveElement
  <2> QED BY Zenon, <1>1, <2>1, <2>2
<1>3. g1 \notin T
  BY Zenon, <1>1
<1>4. /\ IsFiniteSet(T \cup {g1})
      /\ Cardinality(T \cup {g1}) = IF g1 \in T THEN Cardinality(T) ELSE Cardinality(T) + 1
  BY Zenon, <1>2, FS_AddElement
<1>5. Cardinality(S) \in Nat
  BY Zenon, FS_CardinalityType
<1>6. Cardinality(T \cup {g1}) = Cardinality(S)
  BY <1>2, <1>3, <1>4, <1>5
<1> QED BY Zenon, <1>1, <1>4, <1>6

\* What a settlement leaves of the sets that decide and the settlements look at: the
\* grants of a request and of a window are as many, the failures can only be more.
PartsKept(G, H, g0, g1, settlement) ==
    /\ g1 \in GrantRecords /\ IsFiniteSet(H)
    /\ g1.id = g0.id /\ g1.at = g0.at /\ g1.nth = g0.nth /\ g1.kind = g0.kind
    /\ g1.epoch = g0.epoch /\ g1.settlement = settlement /\ g1.lane = g0.lane
    /\ \A i, a : i # g0.id => Same(H, i, a) = Same(G, i, a)
    /\ \A i, a : Cardinality(Same(H, i, a)) = Cardinality(Same(G, i, a))
    /\ \A p, start : Cardinality(Window(H, p, start)) = Cardinality(Window(G, p, start))
    /\ \A e, k : /\ Failed(G, e, k) \subseteq Failed(H, e, k)
                 /\ Cardinality(Failed(G, e, k)) <= Cardinality(Failed(H, e, k))
    /\ settlement = "AvailabilityFailure" =>
          /\ g1 \in Failed(H, g0.epoch, g0.kind)
          /\ Cardinality(Failed(H, g0.epoch, g0.kind)) =
                Cardinality(Failed(G, g0.epoch, g0.kind)) + 1

\* A settlement changes one grant into a new one that differs in the settlement alone.
LEMMA SettledParts ==
    ASSUME NEW G, NEW H, NEW g0, NEW g1, NEW settlement, IsFiniteSet(G), G \subseteq GrantRecords,
           GrantSettled(G, H, g0, g1, settlement)
    PROVE  PartsKept(G, H, g0, g1, settlement)
<1>1. /\ g0 \in G /\ g1 \notin G /\ g0.settlement = "None" /\ settlement \in Settlements
      /\ g1 = [g0 EXCEPT !.settlement = settlement]
      /\ H = (G \ {g0}) \cup {g1}
  BY Zenon DEF GrantSettled
<1>2. g0 \in GrantRecords
  BY Zenon, <1>1
<1>3. /\ g1 \in GrantRecords
      /\ g1.id = g0.id /\ g1.at = g0.at /\ g1.nth = g0.nth /\ g1.kind = g0.kind
      /\ g1.epoch = g0.epoch /\ g1.settlement = settlement /\ g1.lane = g0.lane
  BY Zenon, <1>1, <1>2 DEF GrantRecords
<1>4. IsFiniteSet(H)
  BY Zenon, <1>1, ReplaceCard
<1>5. \A i, a : i # g0.id => Same(H, i, a) = Same(G, i, a)
  BY Zenon, <1>1, <1>3 DEF Same
<1>6. ASSUME NEW i, NEW a PROVE Cardinality(Same(H, i, a)) = Cardinality(Same(G, i, a))
  <2>1. IsFiniteSet(Same(G, i, a))
    BY Zenon, FiniteParts
  <2>2. CASE g0 \in Same(G, i, a)
    <3>1. Same(H, i, a) = (Same(G, i, a) \ {g0}) \cup {g1} /\ g1 \notin Same(G, i, a)
      BY Zenon, <1>1, <1>3, <2>2 DEF Same
    <3>2. PICK S : S = Same(G, i, a)
      BY Zenon
    <3>3. IsFiniteSet(S) /\ g0 \in S /\ g1 \notin S
      BY Zenon, <2>1, <2>2, <3>1, <3>2
    <3>4. Cardinality((S \ {g0}) \cup {g1}) = Cardinality(S)
      BY Zenon, <3>3, ReplaceCard
    <3> QED BY Zenon, <3>1, <3>2, <3>4
  <2>3. CASE g0 \notin Same(G, i, a)
    BY Zenon, <1>1, <1>3, <2>3 DEF Same
  <2> QED BY Zenon, <2>2, <2>3
<1>7. ASSUME NEW p, NEW start
      PROVE  Cardinality(Window(H, p, start)) = Cardinality(Window(G, p, start))
  <2>1. IsFiniteSet(Window(G, p, start))
    BY Zenon, FiniteParts
  <2>2. CASE g0 \in Window(G, p, start)
    <3>1. /\ Window(H, p, start) = (Window(G, p, start) \ {g0}) \cup {g1}
          /\ g1 \notin Window(G, p, start)
      BY Zenon, <1>1, <1>3, <2>2 DEF Window
    <3>2. PICK S : S = Window(G, p, start)
      BY Zenon
    <3>3. IsFiniteSet(S) /\ g0 \in S /\ g1 \notin S
      BY Zenon, <2>1, <2>2, <3>1, <3>2
    <3>4. Cardinality((S \ {g0}) \cup {g1}) = Cardinality(S)
      BY Zenon, <3>3, ReplaceCard
    <3> QED BY Zenon, <3>1, <3>2, <3>4
  <2>3. CASE g0 \notin Window(G, p, start)
    BY Zenon, <1>1, <1>3, <2>3 DEF Window
  <2> QED BY Zenon, <2>2, <2>3
<1>8. ASSUME NEW e, NEW k
      PROVE  /\ Failed(G, e, k) \subseteq Failed(H, e, k)
             /\ Cardinality(Failed(G, e, k)) <= Cardinality(Failed(H, e, k))
  <2>1. "None" # "AvailabilityFailure"
    BY Zenon
  <2>2. Failed(G, e, k) \subseteq Failed(H, e, k)
    BY Zenon, <1>1, <2>1 DEF Failed
  <2>3. IsFiniteSet(Failed(H, e, k))
    BY Zenon, <1>4, FiniteParts
  <2> QED BY Zenon, <2>2, <2>3, FS_Subset
<1>9. ASSUME settlement = "AvailabilityFailure"
      PROVE  /\ g1 \in Failed(H, g0.epoch, g0.kind)
             /\ Cardinality(Failed(H, g0.epoch, g0.kind)) =
                   Cardinality(Failed(G, g0.epoch, g0.kind)) + 1
  <2>1. "None" # "AvailabilityFailure"
    BY Zenon
  <2>2. PICK A : A = Failed(G, g0.epoch, g0.kind)
    BY Zenon
  <2>3. Failed(H, g0.epoch, g0.kind) = A \cup {g1} /\ g1 \notin A
    BY Zenon, <1>1, <1>3, <1>9, <2>1, <2>2 DEF Failed
  <2>4. IsFiniteSet(A)
    BY Zenon, <2>2, FiniteParts
  <2>5. Cardinality(A \cup {g1}) = IF g1 \in A THEN Cardinality(A) ELSE Cardinality(A) + 1
    BY Zenon, <2>4, FS_AddElement
  <2> QED BY Zenon, <2>2, <2>3, <2>5
<1> QED BY Zenon, <1>3, <1>4, <1>5, <1>6, <1>7, <1>8, <1>9 DEF PartsKept

\* Two grants that differ in the settlement alone, if at all.
Mirrors(h, h0) ==
    /\ h.id = h0.id /\ h.at = h0.at /\ h.nth = h0.nth
    /\ h.kind = h0.kind /\ h.epoch = h0.epoch

\* A settlement leaves the lane in step with its grants.
LEMMA SettleKeepsLane ==
    ASSUME NEW lane, NEW G, LaneInv(lane, G), NEW id \in AdmissionIds,
           NEW record \in AdmissionRecords, record.decision \in Allowed,
           AdmissionInv(id, record, lane, G), NEW settlement, NEW new,
           Settled(lane, id, record, settlement, new), NEW g0, NEW g1, NEW H,
           g0.id = id, g0.at = record.admittedAt, g0.kind = record.decision,
           g0.epoch = record.epoch, GrantSettled(G, H, g0, g1, settlement)
    PROVE  LaneInv(new, H)
<1>1. /\ lane \in LaneRecords /\ new \in LaneRecords
      /\ GrantsInv(lane, G) /\ WindowInv(lane, G) /\ OpenInv(lane, G)
      /\ ProbeInv(lane, G) /\ CircuitInv(lane, G)
  BY Zenon DEF LaneInv, Settled
<1>2. PICK p \in Policies : p = lane.policy /\ new.policy = p
  BY Zenon, <1>1 DEF LaneRecords, Settled
<1>3. new.window = lane.window /\ new.count = lane.count /\ new.observed >= lane.observed
  BY Zenon DEF Settled
<1>4. /\ g0 \in G /\ g1 \notin G /\ g0.settlement = "None" /\ settlement \in Settlements
      /\ H = (G \ {g0}) \cup {g1}
  BY Zenon DEF GrantSettled
<1>5. PartsKept(G, H, g0, g1, settlement)
  <2>1. IsFiniteSet(G) /\ G \subseteq GrantRecords
    BY Zenon, <1>1 DEF GrantsInv
  <2> QED BY Zenon, <2>1, SettledParts
<1>6. /\ g1.id = g0.id /\ g1.at = g0.at /\ g1.nth = g0.nth /\ g1.kind = g0.kind
      /\ g1.epoch = g0.epoch /\ g1.settlement = settlement /\ g1 \in GrantRecords
      /\ settlement # "None"
  <2>1. settlement # "None"
    BY Zenon, <1>4 DEF Settlements
  <2> QED BY Zenon, <1>5, <2>1 DEF PartsKept
<1>7. /\ \A h \in H : \E h0 \in G : Mirrors(h, h0) /\ (h = h0 \/ (h = g1 /\ h0 = g0))
      /\ \A h \in H : h \in GrantRecords
      /\ g0 \notin H
  <2>1. \A h0 \in G : h0 \in GrantRecords /\ Mirrors(h0, h0)
    BY Zenon, <1>1 DEF GrantsInv, Mirrors
  <2>2. Mirrors(g1, g0)
    BY Zenon, <1>6 DEF Mirrors
  <2>3. g1 \in GrantRecords /\ g0 # g1
    BY Zenon, <1>4, <1>6
  <2> QED BY Zenon, <1>4, <2>1, <2>2, <2>3
<1>8. /\ lane.epoch \in Nat /\ lane.epoch >= 1 /\ lane.observed \in Nat /\ new.observed \in Nat
      /\ lane.window \in Nat
      /\ lane.failures \in Nat /\ p.probe \in Nat \ {0} /\ p.threshold \in Nat
      /\ p.window \in Nat \ {0}
      /\ \A h \in G : /\ h.at \in Nat /\ h.epoch \in Nat
                      /\ h.at <= lane.observed /\ h.epoch <= lane.epoch
  <2>1. p.probe \in Nat \ {0} /\ p.threshold \in Nat /\ p.window \in Nat \ {0}
    BY Zenon, PolicyNumbers
  <2>2. /\ lane.epoch \in Nat /\ lane.epoch >= 1 /\ lane.observed \in Nat
        /\ lane.failures \in Nat /\ new.observed \in Nat /\ lane.window \in Nat
    BY <1>1 DEF LaneRecords, Times
  <2>3. \A h \in G : h.at \in Nat /\ h.epoch \in Nat /\ h.at <= lane.observed
                     /\ h.epoch <= lane.epoch
    BY <1>1 DEF GrantsInv, GrantRecords, Times
  <2> QED BY Zenon, <2>1, <2>2, <2>3
<1>9. /\ new.epoch >= lane.epoch
      /\ new.epoch = lane.epoch \/ new.epoch = lane.epoch + 1
  <2>1. new.epoch = lane.epoch \/ new.epoch = lane.epoch + 1
    BY Zenon DEF Settled
  <2> QED BY <1>8, <2>1
<1>10. GrantsInv(new, H)
  <2>1. \A h \in G : h.at <= new.observed /\ h.epoch <= new.epoch
    BY <1>3, <1>8, <1>9
  <2>2. \A h \in G : h.nth < Cardinality(Same(H, h.id, h.at))
    <3>1. \A i, a : Cardinality(Same(H, i, a)) = Cardinality(Same(G, i, a))
      BY Zenon, <1>5 DEF PartsKept
    <3> QED BY Zenon, <1>1, <3>1 DEF GrantsInv
  <2>3. \A h \in H : /\ h \in GrantRecords /\ h.at <= new.observed /\ h.epoch <= new.epoch
                     /\ h.nth < Cardinality(Same(H, h.id, h.at))
    BY Zenon, <1>7, <2>1, <2>2 DEF Mirrors
  <2>4. ASSUME NEW h \in H, NEW k \in H, h.id = k.id, h.at = k.at, h.nth = k.nth
        PROVE  h = k
    <3>1. PICK h0 \in G : Mirrors(h, h0) /\ (h = h0 \/ (h = g1 /\ h0 = g0))
      BY Zenon, <1>7
    <3>2. PICK k0 \in G : Mirrors(k, k0) /\ (k = k0 \/ (k = g1 /\ k0 = g0))
      BY Zenon, <1>7
    <3>3. h0 = k0
      BY Zenon, <1>1, <2>4, <3>1, <3>2 DEF GrantsInv, Mirrors
    <3>4. CASE h = h0
      <4>1. k0 # g0
        BY Zenon, <1>7, <3>3, <3>4
      <4> QED BY Zenon, <3>2, <3>3, <3>4, <4>1
    <3>5. CASE h = g1 /\ h0 = g0
      <4>1. k # k0
        BY Zenon, <1>7, <3>3, <3>5
      <4> QED BY Zenon, <3>2, <3>5, <4>1
    <3> QED BY Zenon, <3>1, <3>4, <3>5
  <2>5. IsFiniteSet(H)
    BY Zenon, <1>5 DEF PartsKept
  <2> QED BY Zenon, <2>3, <2>4, <2>5 DEF GrantsInv
<1>11. WindowInv(new, H)
  <2>1. \A q, s : Cardinality(Window(H, q, s)) = Cardinality(Window(G, q, s))
    BY Zenon, <1>5 DEF PartsKept
  <2>2. lane.window <= FixedWindowStart(new.observed, p.window)
    <3>1. lane.window <= FixedWindowStart(lane.observed, p.window)
      BY Zenon, <1>1, <1>2 DEF WindowInv
    <3>2. lane.observed <= new.observed /\ new.observed <= new.observed
      BY <1>3, <1>8
    <3>3. /\ FixedWindowStart(lane.observed, p.window) \in 0 .. lane.observed
          /\ FixedWindowStart(new.observed, p.window) \in 0 .. new.observed
          /\ FixedWindowStart(lane.observed, p.window) <= FixedWindowStart(new.observed, p.window)
      BY Zenon, <1>8, <3>2, WindowStarts
    <3> QED BY <1>8, <3>1, <3>3
  <2>3. \A h \in H : h.kind = "Allow" => FixedWindowStart(h.at, p.window) <= lane.window
    <3>1. \A h \in G : h.kind = "Allow" => FixedWindowStart(h.at, p.window) <= lane.window
      BY Zenon, <1>1, <1>2 DEF WindowInv
    <3>2. ASSUME NEW h \in H, h.kind = "Allow"
          PROVE  FixedWindowStart(h.at, p.window) <= lane.window
      <4>1. PICK h0 \in G : Mirrors(h, h0)
        BY Zenon, <1>7
      <4> QED BY Zenon, <3>1, <3>2, <4>1 DEF Mirrors
    <3> QED BY Zenon, <3>2
  <2>4. /\ lane.count <= p.max
        /\ Cardinality(Window(H, p, lane.window)) <= lane.count
        /\ \A s \in Nat : Cardinality(Window(H, p, s)) <= p.max
    BY Zenon, <1>1, <1>2, <2>1 DEF WindowInv
  <2> QED BY Zenon, <1>2, <1>3, <2>2, <2>3, <2>4 DEF WindowInv
<1>12. OpenInv(new, H)
  <2>1. CASE new.epoch = lane.epoch + 1
    <3>1. \A h \in G : h.epoch # new.epoch
      BY <1>8, <2>1
    <3>2. ASSUME NEW h \in H PROVE h.epoch # new.epoch
      <4>1. PICK h0 \in G : Mirrors(h, h0)
        BY Zenon, <1>7
      <4> QED BY Zenon, <3>1, <4>1 DEF Mirrors
    <3> QED BY Zenon, <3>2 DEF OpenInv
  <2>2. CASE new.openUntil = Never
    BY Zenon, <2>2 DEF OpenInv
  <2>3. CASE new.epoch = lane.epoch /\ new.openUntil = lane.openUntil
    <3>1. ASSUME new.openUntil # Never, NEW h \in H, h.epoch = new.epoch
          PROVE  h.kind = "AllowProbe" /\ h.at >= new.openUntil
      <4>1. PICK h0 \in G : Mirrors(h, h0)
        BY Zenon, <1>7
      <4>2. h0.epoch = lane.epoch
        BY Zenon, <2>3, <3>1, <4>1 DEF Mirrors
      <4>3. h0.kind = "AllowProbe" /\ h0.at >= lane.openUntil
        BY Zenon, <1>1, <2>3, <3>1, <4>2 DEF OpenInv
      <4> QED BY Zenon, <2>3, <4>1, <4>3 DEF Mirrors
    <3> QED BY Zenon, <3>1 DEF OpenInv
  <2> QED BY Zenon, <2>1, <2>2, <2>3 DEF Settled
<1>13. ProbeInv(new, H)
  <2>1. ASSUME NEW h \in H, NEW k \in H PROVE Exclusive(new, h, k)
    <3>1. PICK h0 \in G : Mirrors(h, h0) /\ (h = h0 \/ (h = g1 /\ h0 = g0))
      BY Zenon, <1>7
    <3>2. PICK k0 \in G : Mirrors(k, k0) /\ (k = k0 \/ (k = g1 /\ k0 = g0))
      BY Zenon, <1>7
    <3>3. CASE h = g1
      BY Zenon, <1>6, <3>3 DEF Exclusive
    <3>4. CASE h # g1
      <4>1. h = h0 /\ h # g0
        BY Zenon, <1>4, <3>1, <3>4
      <4>2. h # k => h # k0
        BY Zenon, <3>2, <4>1
      <4>3. Exclusive(lane, h, k0)
        BY Zenon, <1>1, <4>1 DEF ProbeInv
      <4>4. k.settlement = "None" => k0.settlement = "None"
        BY Zenon, <1>4, <3>2
      <4> QED BY Zenon, <1>2, <3>2, <4>2, <4>3, <4>4 DEF Exclusive, Mirrors
    <3> QED BY Zenon, <3>3, <3>4
  <2>2. ASSUME new.openUntil # Never, NEW h \in H, h.kind = "AllowProbe",
               h.epoch = new.epoch, h.settlement = "None"
        PROVE  \/ new.probe = h.id /\ new.probeUntil = h.at + p.probe
               \/ h.at + p.probe <= new.observed
    <3>1. h \in G /\ h # g0
      BY Zenon, <1>4, <1>6, <2>2
    <3>2. new.epoch = lane.epoch
      BY <1>8, <1>9, <2>2, <3>1
    <3>3. \/ new.openUntil = lane.openUntil /\ new.probe = lane.probe
                /\ new.probeUntil = lane.probeUntil
          \/ new.openUntil = lane.openUntil /\ record.epoch = lane.epoch
                /\ record.decision = "AllowProbe" /\ lane.probe = id
      <4>1. lane.epoch # lane.epoch + 1
        BY <1>8
      <4> QED BY Zenon, <2>2, <3>2, <4>1 DEF Settled
    <3>4. \/ lane.probe = h.id /\ lane.probeUntil = h.at + p.probe
          \/ h.at + p.probe <= lane.observed
      BY Zenon, <1>1, <1>2, <2>2, <3>1, <3>2, <3>3 DEF ProbeInv
    <3>5. h.at + p.probe <= lane.observed => h.at + p.probe <= new.observed
      BY <1>3, <1>8, <3>1
    <3>6. ASSUME lane.probe = h.id, lane.probeUntil = h.at + p.probe,
                 record.epoch = lane.epoch, record.decision = "AllowProbe", lane.probe = id
          PROVE  FALSE
      <4>1. lane.probeUntil = g0.at + p.probe
        BY Zenon, <1>2, <3>6 DEF AdmissionInv
      <4>2. h.at = g0.at /\ g0.at <= h.at /\ ~ (h.at >= g0.at + p.probe)
        BY <1>4, <1>8, <3>1, <3>6, <4>1
      <4>3. Exclusive(lane, g0, h)
        BY Zenon, <1>1, <1>4, <3>1 DEF ProbeInv
      <4> QED BY Zenon, <1>2, <1>4, <2>2, <3>1, <3>2, <3>6, <4>2, <4>3 DEF Exclusive
    <3>7. CASE new.probe = lane.probe /\ new.probeUntil = lane.probeUntil
      BY Zenon, <3>4, <3>5, <3>7
    <3>8. CASE record.epoch = lane.epoch /\ record.decision = "AllowProbe" /\ lane.probe = id
      BY Zenon, <3>4, <3>5, <3>6, <3>8
    <3> QED BY Zenon, <3>3, <3>7, <3>8
  <2> QED BY Zenon, <1>2, <2>1, <2>2 DEF ProbeInv
<1>14. CircuitInv(new, H)
  <2>1. \A e, k : /\ Failed(G, e, k) \subseteq Failed(H, e, k)
                  /\ Cardinality(Failed(G, e, k)) <= Cardinality(Failed(H, e, k))
                  /\ Cardinality(Failed(G, e, k)) \in Nat /\ Cardinality(Failed(H, e, k)) \in Nat
    BY Zenon, <1>1, <1>5, FiniteParts DEF PartsKept, GrantsInv
  <2>2. ASSUME settlement = "AvailabilityFailure"
        PROVE  /\ g1 \in Failed(H, g0.epoch, g0.kind)
               /\ Cardinality(Failed(H, g0.epoch, g0.kind)) =
                     Cardinality(Failed(G, g0.epoch, g0.kind)) + 1
    BY Zenon, <1>5, <2>2 DEF PartsKept
  <2>3. lane.openUntil = Never => lane.failures <= Cardinality(Failed(G, lane.epoch, "Allow"))
    BY Zenon, <1>1 DEF CircuitInv
  <2>4. ASSUME new.openUntil = Never
        PROVE  new.failures <= Cardinality(Failed(H, new.epoch, "Allow"))
    <3>1. new.epoch = lane.epoch
      BY Zenon, <2>4 DEF Settled
    <3>2. \/ new.failures = 0
          \/ lane.openUntil = Never /\ new.failures = lane.failures
          \/ /\ lane.openUntil = Never /\ settlement = "AvailabilityFailure"
             /\ new.failures = lane.failures + 1 /\ g0.epoch = lane.epoch /\ g0.kind = "Allow"
      BY Zenon, <2>4 DEF Settled
    <3>3. PICK m \in Nat, n \in Nat : /\ m = Cardinality(Failed(G, lane.epoch, "Allow"))
                                      /\ n = Cardinality(Failed(H, lane.epoch, "Allow"))
                                      /\ m <= n
      BY Zenon, <2>1
    <3>4. g0.epoch = lane.epoch /\ g0.kind = "Allow" /\ settlement = "AvailabilityFailure"
             => n = m + 1
      BY Zenon, <2>2, <3>3
    <3>5. lane.openUntil = Never => lane.failures <= m
      BY Zenon, <2>3, <3>3
    <3>6. new.failures <= n
      BY <1>8, <3>2, <3>3, <3>4, <3>5
    <3> QED BY Zenon, <3>1, <3>3, <3>6
  <2>5. ASSUME NEW e \in 1 .. lane.epoch - 1
        PROVE  \/ Cardinality(Failed(H, e, "Allow")) >= p.threshold
               \/ Failed(H, e, "AllowProbe") # {}
    <3>1. \/ Cardinality(Failed(G, e, "Allow")) >= p.threshold
          \/ Failed(G, e, "AllowProbe") # {}
      BY Zenon, <1>1, <1>2 DEF CircuitInv
    <3>2. CASE Cardinality(Failed(G, e, "Allow")) >= p.threshold
      <4>1. PICK m \in Nat, n \in Nat : /\ m = Cardinality(Failed(G, e, "Allow"))
                                        /\ n = Cardinality(Failed(H, e, "Allow")) /\ m <= n
        BY Zenon, <2>1
      <4>2. n >= p.threshold
        BY <1>8, <3>2, <4>1
      <4> QED BY Zenon, <4>1, <4>2
    <3>3. CASE Failed(G, e, "AllowProbe") # {}
      BY Zenon, <2>1, <3>3
    <3> QED BY Zenon, <3>1, <3>2, <3>3
  <2>6. ASSUME new.epoch = lane.epoch + 1
        PROVE  \/ Cardinality(Failed(H, lane.epoch, "Allow")) >= p.threshold
               \/ Failed(H, lane.epoch, "AllowProbe") # {}
    <3>1. /\ record.epoch = lane.epoch /\ settlement = "AvailabilityFailure"
          /\ \/ record.decision = "Allow" /\ lane.failures + 1 >= p.threshold
             \/ record.decision = "AllowProbe"
      <4>1. lane.epoch # lane.epoch + 1
        BY <1>8
      <4> QED BY Zenon, <1>2, <2>6, <4>1 DEF Settled
    <3>2. CASE record.decision = "AllowProbe"
      BY Zenon, <2>2, <3>1, <3>2
    <3>3. CASE record.decision = "Allow" /\ lane.failures + 1 >= p.threshold
      <4>1. lane.openUntil = Never
        <5>1. "Allow" # "AllowProbe"
          BY Zenon
        <5> QED BY Zenon, <1>1, <1>4, <3>1, <3>3, <5>1 DEF OpenInv
      <4>2. PICK m \in Nat, n \in Nat : /\ m = Cardinality(Failed(G, lane.epoch, "Allow"))
                                        /\ n = Cardinality(Failed(H, lane.epoch, "Allow"))
        BY Zenon, <2>1
      <4>3. n = m + 1 /\ lane.failures <= m
        BY Zenon, <2>2, <2>3, <3>1, <3>3, <4>1, <4>2
      <4>4. n >= p.threshold
        BY <1>8, <3>3, <4>3
      <4> QED BY Zenon, <4>2, <4>4
    <3> QED BY Zenon, <3>1, <3>2, <3>3
  <2>7. ASSUME NEW e \in 1 .. new.epoch - 1
        PROVE  e \in 1 .. lane.epoch - 1 \/ (e = lane.epoch /\ new.epoch = lane.epoch + 1)
    <3>1. lane.epoch \in Nat /\ lane.epoch >= 1
      BY Zenon, <1>8
    <3> QED BY <1>9, <3>1
  <2>8. \A e \in 1 .. new.epoch - 1 : \/ Cardinality(Failed(H, e, "Allow")) >= p.threshold
                                      \/ Failed(H, e, "AllowProbe") # {}
    BY Zenon, <2>5, <2>6, <2>7
  <2> QED BY Zenon, <1>2, <2>4, <2>8 DEF CircuitInv
<1> QED BY Zenon, <1>1, <1>10, <1>11, <1>12, <1>13, <1>14 DEF LaneInv

\* The settled request has the grant that records its settlement, and no longer owns the
\* lane if its probe did.
LEMMA SettleKeepsRequest ==
    ASSUME NEW lane, NEW G, LaneInv(lane, G), NEW id \in AdmissionIds,
           NEW record \in AdmissionRecords, record.decision \in Allowed,
           AdmissionInv(id, record, lane, G), NEW settlement \in Settlements, NEW new,
           Settled(lane, id, record, settlement, new), NEW g0, NEW g1, NEW H,
           g0.id = id, g0.at = record.admittedAt, g0.kind = record.decision,
           g0.epoch = record.epoch, g0.nth = Cardinality(Same(G, id, record.admittedAt)) - 1,
           GrantSettled(G, H, g0, g1, settlement)
    PROVE  AdmissionInv(id, [record EXCEPT !.settlement = settlement], new, H)
<1>1. PartsKept(G, H, g0, g1, settlement)
  <2>1. IsFiniteSet(G) /\ G \subseteq GrantRecords
    BY Zenon DEF LaneInv, GrantsInv
  <2> QED BY Zenon, <2>1, SettledParts
<1>2. PICK after : after = [record EXCEPT !.settlement = settlement]
  BY Zenon
<1>3. /\ after.policy = record.policy /\ after.epoch = record.epoch
      /\ after.decision = record.decision /\ after.admittedAt = record.admittedAt
      /\ after.settlement = settlement
  BY Zenon, <1>2 DEF AdmissionRecords
<1>4. record.epoch <= new.epoch
  <2>1. record.epoch <= lane.epoch
    BY Zenon DEF AdmissionInv
  <2>2. new.epoch = lane.epoch \/ new.epoch = lane.epoch + 1
    BY Zenon DEF Settled
  <2>3. lane.epoch \in Nat /\ record.epoch \in Nat
    BY Zenon DEF LaneInv, LaneRecords, AdmissionRecords
  <2> QED BY <2>1, <2>2, <2>3
<1>5. new.policy = record.policy
  BY Zenon DEF Settled, AdmissionInv
<1>6. g1 \in Same(H, id, record.admittedAt)
  <2>1. g1.id = id /\ g1.at = record.admittedAt
    BY Zenon, <1>1 DEF PartsKept
  <2>2. g1 \in H
    BY Zenon DEF GrantSettled
  <2> QED BY Zenon, <2>1, <2>2 DEF Same
<1>7. /\ g1.nth = Cardinality(Same(H, id, record.admittedAt)) - 1
      /\ g1.kind = record.decision /\ g1.epoch = record.epoch /\ g1.settlement = settlement
  <2>1. Cardinality(Same(H, id, record.admittedAt)) = Cardinality(Same(G, id, record.admittedAt))
    BY Zenon, <1>1 DEF PartsKept
  <2>2. g1.nth = g0.nth /\ g1.kind = g0.kind /\ g1.epoch = g0.epoch /\ g1.settlement = settlement
    BY Zenon, <1>1 DEF PartsKept
  <2> QED BY Zenon, <2>1, <2>2
<1>8. ASSUME record.decision = "AllowProbe", record.epoch = new.epoch, new.probe = id
      PROVE  new.probeUntil = record.admittedAt + new.policy.probe
  <2>1. NoId # id /\ "AllowProbe" # "Allow"
    BY Zenon, GovernorAssumption
  <2>2. lane = new
    BY Zenon, <1>8, <2>1 DEF Settled
  <2> QED BY Zenon, <1>8, <2>2 DEF AdmissionInv
<1>9. AdmissionInv(id, after, new, H)
  BY Zenon, <1>3, <1>4, <1>5, <1>6, <1>7, <1>8 DEF AdmissionInv
<1> QED BY Zenon, <1>2, <1>9

\* The other requests of a lane keep what they had when one of them is settled.
LEMMA SettleKeepsOthers ==
    ASSUME NEW lane, NEW G, NEW id, NEW settled, NEW settlement, NEW new,
           lane \in LaneRecords, Settled(lane, id, settled, settlement, new), NEW H,
           NEW other \in AdmissionIds, other # id, OthersKept(G, H, id),
           NEW record \in AdmissionRecords, AdmissionInv(other, record, lane, G)
    PROVE  AdmissionInv(other, record, new, H)
<1>1. new.policy = lane.policy
  BY Zenon DEF Settled
<1>2. record.epoch <= new.epoch
  <2>1. record.epoch <= lane.epoch
    BY Zenon DEF AdmissionInv
  <2>2. new.epoch = lane.epoch \/ new.epoch = lane.epoch + 1
    BY Zenon DEF Settled
  <2>3. lane.epoch \in Nat /\ record.epoch \in Nat
    BY Zenon DEF LaneRecords, AdmissionRecords
  <2> QED BY <2>1, <2>2, <2>3
<1>3. new.probe = other =>
         /\ lane.probe = other /\ new.probeUntil = lane.probeUntil /\ new.epoch = lane.epoch
  <2>1. NoId # other
    BY Zenon, GovernorAssumption
  <2> QED BY Zenon, <2>1 DEF Settled
<1>4. record.decision \in Allowed =>
        \E g \in Same(H, other, record.admittedAt) :
            /\ g.nth = Cardinality(Same(H, other, record.admittedAt)) - 1
            /\ g.kind = record.decision /\ g.epoch = record.epoch
            /\ g.settlement = record.settlement
  BY Zenon DEF AdmissionInv, OthersKept
<1>5. record.decision = "AllowProbe" /\ record.epoch = new.epoch /\ new.probe = other =>
        new.probeUntil = record.admittedAt + new.policy.probe
  BY Zenon, <1>1, <1>3 DEF AdmissionInv
<1>6. new.policy = record.policy
  BY Zenon, <1>1 DEF AdmissionInv
<1> QED BY Zenon, <1>2, <1>4, <1>5, <1>6 DEF AdmissionInv

-----------------------------------------------------------------------------
(* The store: every lane with its grants, every admission with its lane.    *)

\* The grants of a lane after a request was decided, and the record of that request.
GrantsAfter(key, id, kind, lane, G, now, H) ==
    H = IF kind \in Allowed THEN G \cup {NewGrant(key, id, kind, lane, G, now)} ELSE G

Recorded(record, lane, kind, now) ==
    /\ record.policy = lane.policy /\ record.epoch = lane.epoch /\ record.decision = kind
    /\ record.admittedAt = now /\ record.settlement = "None"

\* The record of a request that has been decided belongs to its lane.
LEMMA DecidedRequest ==
    ASSUME NEW lane \in LaneRecords, NEW G, GrantsInv(lane, G), NEW key \in LaneKeys,
           NEW id \in AdmissionIds, NEW now \in Times, NEW kind, NEW new,
           Decided(lane, id, now, kind, new), NEW H, GrantsAfter(key, id, kind, lane, G, now, H),
           NEW record, Recorded(record, lane, kind, now)
    PROVE  AdmissionInv(id, record, new, H) /\ OthersKept(G, H, id)
<1>0. PICK g : g = NewGrant(key, id, kind, lane, G, now)
  BY Zenon
<1> USE DEF Recorded
<1>1. new.policy = lane.policy /\ new.epoch = lane.epoch
  BY Zenon DEF Decided
<1>2. record.epoch <= new.epoch
  <2>1. lane.epoch \in Nat
    BY Zenon DEF LaneRecords
  <2> QED BY <1>1, <2>1
<1>3. kind = "AllowProbe" => new.probeUntil = now + new.policy.probe
  BY Zenon, <1>1 DEF Decided
<1>4. CASE kind \in Allowed
  <2>1. GrantAdded(G, H, g, id, kind, now)
    BY Zenon, <1>0, <1>4, GrantAdds DEF GrantsAfter
  <2>2. /\ g.kind = kind /\ g.epoch = lane.epoch /\ g.settlement = "None"
        /\ g.nth = Cardinality(Same(G, id, now))
    BY Zenon, <1>0 DEF NewGrant
  <2>3. g.nth = Cardinality(Same(H, id, now)) - 1
    <3>1. Cardinality(Same(H, id, now)) = g.nth + 1 /\ g.nth \in Nat
      BY Zenon, <2>1 DEF GrantAdded, GrantRecords
    <3> QED BY <3>1
  <2>4. g \in Same(H, id, now)
    BY Zenon, <2>1 DEF GrantAdded
  <2>5. AdmissionInv(id, record, new, H)
    BY Zenon, <1>1, <1>2, <1>3, <2>2, <2>3, <2>4 DEF AdmissionInv
  <2> QED BY Zenon, <2>1, <2>5 DEF GrantAdded, OthersKept
<1>5. CASE kind \notin Allowed
  <2>1. kind # "AllowProbe"
    BY Zenon, <1>5 DEF Allowed
  <2> QED BY Zenon, <1>1, <1>2, <1>5, <2>1 DEF AdmissionInv, GrantsAfter, OthersKept
<1> QED BY Zenon, <1>4, <1>5

\* A step that keeps the lanes and the grants, and drops admissions at most, keeps the
\* invariant (prune_memory, prune_sql).
LEMMA PruneKeeps ==
    ASSUME GovernorInv, NEW at, UNCHANGED << lanes, grants >>,
           admissions' = admissions \/ admissions' = Restrict(admissions, Retained(at))
    PROVE  GovernorInv'
<1>1. lanes' = lanes /\ grants' = grants
  BY Zenon
<1>2. /\ DOMAIN admissions' \subseteq DOMAIN admissions
      /\ \A k \in DOMAIN admissions' : admissions'[k] = admissions[k]
  <2>1. Retained(at) \subseteq DOMAIN admissions
    BY Zenon DEF Retained
  <2> QED BY Zenon, <2>1 DEF Restrict
<1>3. /\ IsFiniteSet(DOMAIN admissions')
      /\ Cardinality(DOMAIN admissions') <= MAX_ADMISSIONS
  <2>1. /\ IsFiniteSet(DOMAIN admissions) /\ Cardinality(DOMAIN admissions) \in Nat
        /\ Cardinality(DOMAIN admissions) <= MAX_ADMISSIONS
    BY Zenon, FS_CardinalityType DEF GovernorInv
  <2>2. /\ IsFiniteSet(DOMAIN admissions')
        /\ Cardinality(DOMAIN admissions') <= Cardinality(DOMAIN admissions)
    BY Zenon, <1>2, <2>1, FS_Subset
  <2>3. Cardinality(DOMAIN admissions') \in Nat
    BY Zenon, <2>2, FS_CardinalityType
  <2> QED BY <2>1, <2>2, <2>3, GovernorAssumption
<1>4. \A k \in DOMAIN admissions' :
        /\ admissions'[k] \in AdmissionRecords
        /\ LaneOf(k)' = LaneOf(k) /\ LaneOf(k) \in DOMAIN lanes
        /\ AdmissionInv(k[2], admissions'[k], lanes[LaneOf(k)], GrantsOf(LaneOf(k)))
  <2>1. \A k \in DOMAIN admissions' : LaneOf(k)' = LaneOf(k)
    BY Zenon, <1>2 DEF LaneOf
  <2> QED BY Zenon, <1>2, <2>1 DEF GovernorInv
<1>5. \A k : GrantsOf(k)' = GrantsOf(k)
  BY Zenon, <1>1 DEF GrantsOf
<1>6. \A k \in DOMAIN admissions' :
        /\ admissions'[k] \in AdmissionRecords /\ LaneOf(k)' \in DOMAIN lanes'
        /\ AdmissionInv(k[2], admissions'[k], lanes'[LaneOf(k)'], GrantsOf(LaneOf(k))')
  BY Zenon, <1>1, <1>4, <1>5 DEF GrantsOf
<1>7. /\ DOMAIN lanes' \subseteq LaneKeys /\ IsFiniteSet(DOMAIN lanes')
      /\ Cardinality(DOMAIN lanes') <= MAX_LANES
      /\ \A g \in grants' : g.lane \in DOMAIN lanes'
      /\ \A k \in DOMAIN lanes' : LaneInv(lanes'[k], GrantsOf(k)')
  BY Zenon, <1>1, <1>5 DEF GovernorInv
<1>8. DOMAIN admissions' \subseteq Tenants \X AdmissionIds
  BY Zenon, <1>2 DEF GovernorInv
<1> QED BY Zenon, <1>3, <1>6, <1>7, <1>8 DEF GovernorInv

\* The lane of a request has a key.
LEMMA LaneKeyed ==
    ASSUME NEW tenant \in Tenants, NEW op \in Operations, NEW p \in Policies
    PROVE  LaneKey(tenant, op, p) \in LaneKeys
BY DEF LaneKeys

\* A step that concerns one lane and one request, after which the two are in step and the
\* other requests of the lane keep what they had.
LaneStep(tenant, id, key, new, H) ==
    /\ DOMAIN lanes' = DOMAIN lanes \cup {key} /\ lanes'[key] = new
    /\ \A k \in DOMAIN lanes : k # key => lanes'[k] = lanes[k]
    /\ IsFiniteSet(DOMAIN lanes') /\ Cardinality(DOMAIN lanes') <= MAX_LANES
    /\ GrantsOf(key)' = H /\ \A k : k # key => GrantsOf(k)' = GrantsOf(k)
    /\ \A g \in grants' : g.lane \in DOMAIN lanes'
    /\ LaneInv(new, H)
    /\ << tenant, id >> \in DOMAIN admissions'
    /\ \A k \in DOMAIN admissions' : k # << tenant, id >> =>
          k \in DOMAIN admissions /\ admissions'[k] = admissions[k]
    /\ IsFiniteSet(DOMAIN admissions') /\ Cardinality(DOMAIN admissions') <= MAX_ADMISSIONS
    /\ admissions'[<< tenant, id >>] \in AdmissionRecords
    /\ LaneOf(<< tenant, id >>)' = key
    /\ AdmissionInv(id, admissions'[<< tenant, id >>], new, H)
    /\ \A other \in AdmissionIds, record \in AdmissionRecords :
          /\ other # id /\ key \in DOMAIN lanes
          /\ AdmissionInv(other, record, lanes[key], GrantsOf(key))
          => AdmissionInv(other, record, new, H)

\* Such a step keeps the invariant.
LEMMA LaneStepKeeps ==
    ASSUME GovernorInv, NEW tenant \in Tenants, NEW id \in AdmissionIds, NEW op, NEW p,
           NEW new, NEW H, LaneKey(tenant, op, p) \in LaneKeys,
           LaneStep(tenant, id, LaneKey(tenant, op, p), new, H)
    PROVE  GovernorInv'
<1>0. PICK key \in LaneKeys : key = LaneKey(tenant, op, p)
  BY Zenon
<1>a. /\ DOMAIN lanes' = DOMAIN lanes \cup {key} /\ lanes'[key] = new
      /\ \A k \in DOMAIN lanes : k # key => lanes'[k] = lanes[k]
      /\ IsFiniteSet(DOMAIN lanes') /\ Cardinality(DOMAIN lanes') <= MAX_LANES
      /\ GrantsOf(key)' = H /\ \A k : k # key => GrantsOf(k)' = GrantsOf(k)
      /\ \A g \in grants' : g.lane \in DOMAIN lanes'
      /\ LaneInv(new, H)
  BY Zenon, <1>0 DEF LaneStep
<1>b. /\ << tenant, id >> \in DOMAIN admissions'
      /\ \A k \in DOMAIN admissions' : k # << tenant, id >> =>
            k \in DOMAIN admissions /\ admissions'[k] = admissions[k]
      /\ IsFiniteSet(DOMAIN admissions') /\ Cardinality(DOMAIN admissions') <= MAX_ADMISSIONS
      /\ admissions'[<< tenant, id >>] \in AdmissionRecords
      /\ LaneOf(<< tenant, id >>)' = key
      /\ AdmissionInv(id, admissions'[<< tenant, id >>], new, H)
  BY Zenon, <1>0 DEF LaneStep
<1>c. \A other \in AdmissionIds, record \in AdmissionRecords :
         /\ other # id /\ key \in DOMAIN lanes
         /\ AdmissionInv(other, record, lanes[key], GrantsOf(key))
         => AdmissionInv(other, record, new, H)
  BY Zenon, <1>0 DEF LaneStep
<1>1. /\ DOMAIN lanes \subseteq LaneKeys
      /\ DOMAIN admissions \subseteq Tenants \X AdmissionIds
      /\ \A k \in DOMAIN lanes : LaneInv(lanes[k], GrantsOf(k))
      /\ \A k \in DOMAIN admissions :
           /\ admissions[k] \in AdmissionRecords
           /\ LaneOf(k) \in DOMAIN lanes
           /\ AdmissionInv(k[2], admissions[k], lanes[LaneOf(k)], GrantsOf(LaneOf(k)))
  BY Zenon DEF GovernorInv
<1>2. \A k \in DOMAIN lanes' : LaneInv(lanes'[k], GrantsOf(k)')
  <2>1. LaneInv(lanes'[key], GrantsOf(key)')
    BY Zenon, <1>a
  <2>2. ASSUME NEW k \in DOMAIN lanes', k # key PROVE LaneInv(lanes'[k], GrantsOf(k)')
    BY Zenon, <1>1, <1>a, <2>2
  <2> QED BY Zenon, <2>1, <2>2
<1>3. DOMAIN lanes' \subseteq LaneKeys
  BY Zenon, <1>1, <1>a
<1>4. DOMAIN admissions' \subseteq Tenants \X AdmissionIds
  <2>1. << tenant, id >> \in Tenants \X AdmissionIds
    BY Zenon
  <2> QED BY Zenon, <1>1, <1>b, <2>1
<1>5. ASSUME NEW k \in DOMAIN admissions'
      PROVE  /\ admissions'[k] \in AdmissionRecords /\ LaneOf(k)' \in DOMAIN lanes'
             /\ AdmissionInv(k[2], admissions'[k], lanes'[LaneOf(k)'], GrantsOf(LaneOf(k))')
  <2>1. CASE k = << tenant, id >>
    <3>1. k[2] = id
      BY Zenon, <2>1
    <3>2. LaneOf(k)' = key
      BY Zenon, <1>b, <2>1
    <3>3. GrantsOf(LaneOf(k))' = H
      BY Zenon, <1>a, <3>2 DEF GrantsOf
    <3> QED BY Zenon, <1>a, <1>b, <2>1, <3>1, <3>2, <3>3
  <2>2. CASE k # << tenant, id >>
    <3>1. k \in DOMAIN admissions /\ admissions'[k] = admissions[k]
      BY Zenon, <1>b, <2>2
    <3>2. PICK l : l = LaneOf(k)
      BY Zenon
    <3>3. LaneOf(k)' = l
      BY Zenon, <3>1, <3>2 DEF LaneOf
    <3>4. GrantsOf(LaneOf(k))' = GrantsOf(l)'
      BY Zenon, <3>3 DEF GrantsOf
    <3>5. l \in DOMAIN lanes /\ AdmissionInv(k[2], admissions[k], lanes[l], GrantsOf(l))
          /\ admissions[k] \in AdmissionRecords
      BY Zenon, <1>1, <3>1, <3>2
    <3>6. AdmissionInv(k[2], admissions[k], lanes'[l], GrantsOf(l)')
      <4>1. CASE l # key
        BY Zenon, <1>a, <3>5, <4>1
      <4>2. CASE l = key
        <5>1. k[1] = tenant
          <6>1. LaneKey(k[1], admissions[k].op, admissions[k].policy) = LaneKey(tenant, op, p)
            BY Zenon, <1>0, <3>2, <4>2 DEF LaneOf
          <6> QED BY Zenon, <6>1 DEF LaneKey
        <5>2. k[2] \in AdmissionIds /\ k = << k[1], k[2] >>
          BY <1>1, <3>1
        <5>3. k[2] # id
          BY Zenon, <2>2, <5>1, <5>2
        <5>4. AdmissionInv(k[2], admissions[k], lanes[key], GrantsOf(key)) /\ key \in DOMAIN lanes
          BY Zenon, <3>5, <4>2
        <5>5. AdmissionInv(k[2], admissions[k], new, H)
          BY Zenon, <1>c, <3>5, <5>2, <5>3, <5>4
        <5> QED BY Zenon, <1>a, <4>2, <5>5
      <4> QED BY Zenon, <4>1, <4>2
    <3> QED BY Zenon, <1>a, <3>1, <3>3, <3>4, <3>5, <3>6
  <2> QED BY Zenon, <2>1, <2>2
<1> QED BY Zenon, <1>a, <1>b, <1>2, <1>3, <1>4, <1>5 DEF GovernorInv

\* admit keeps the invariant when the request is new.
LEMMA AdmitNewKeeps ==
    ASSUME GovernorInv, NEW tenant \in Tenants, NEW id \in AdmissionIds,
           NEW op \in Operations, NEW p \in Policies, NEW now \in Times,
           AdmitNew(tenant, id, op, p, now)
    PROVE  GovernorInv'
<1>1. PICK key : key = LaneKey(tenant, op, p)
  BY Zenon
<1>2. PICK kept : kept = Retained(now)
  BY Zenon
<1>3. PICK lane : lane = IF key \in DOMAIN lanes THEN lanes[key] ELSE InitialLane(p, now)
  BY Zenon
<1>4. PICK made : made = Decide(lane, id, p, now)
  BY Zenon
<1>5. PICK record : record = [op |-> op, policy |-> p, admittedAt |-> now,
                              expiresAt |-> now + p.retention, epoch |-> lane.epoch,
                              decision |-> made.kind, settlement |-> "None"]
  BY Zenon
<1>6. PICK G : G = GrantsOf(key)
  BY Zenon
<1>7. PICK g : g = NewGrant(key, id, made.kind, lane, G, now)
  BY Zenon
<1>8. SameRequest(key, id, now) = Same(G, id, now)
  BY Zenon, <1>6 DEF SameRequest, Same, GrantsOf
<1>9. /\ << tenant, id >> \notin kept
      /\ \/ Refused(now)
         \/ /\ CapacityLeft(kept, key) /\ ValidateLanePolicy(lane, p) /\ ~ (now < lane.observed)
            /\ lanes' = [k \in DOMAIN lanes \cup {key} |->
                           IF k = key THEN made.lane ELSE lanes[k]]
            /\ admissions' = [k \in kept \cup {<< tenant, id >>} |->
                                IF k = << tenant, id >> THEN record ELSE admissions[k]]
            /\ grants' = IF made.kind \in Allowed THEN grants \cup {g} ELSE grants
  <2>1. g = [lane |-> key, id |-> id, kind |-> made.kind, at |-> now,
             nth |-> Cardinality(SameRequest(key, id, now)),
             epoch |-> lane.epoch, settlement |-> "None"]
    BY Zenon, <1>7, <1>8 DEF NewGrant
  <2> QED BY Zenon, <1>1, <1>2, <1>3, <1>4, <1>5, <2>1 DEF AdmitNew
<1>10. CASE Refused(now)
  BY Zenon, <1>10, PruneKeeps DEF Refused
<1>11. CASE /\ CapacityLeft(kept, key) /\ ValidateLanePolicy(lane, p) /\ ~ (now < lane.observed)
            /\ lanes' = [k \in DOMAIN lanes \cup {key} |->
                           IF k = key THEN made.lane ELSE lanes[k]]
            /\ admissions' = [k \in kept \cup {<< tenant, id >>} |->
                                IF k = << tenant, id >> THEN record ELSE admissions[k]]
            /\ grants' = IF made.kind \in Allowed THEN grants \cup {g} ELSE grants
  <2>1. key \in LaneKeys
    BY Zenon, <1>1, LaneKeyed
  <2>2. LaneInv(lane, G) /\ lane.policy = p
    <3>1. lane.policy = p
      BY Zenon, <1>11 DEF ValidateLanePolicy
    <3>2. CASE key \in DOMAIN lanes
      BY Zenon, <1>3, <1>6, <3>1, <3>2 DEF GovernorInv
    <3>3. CASE key \notin DOMAIN lanes
      <4>1. G = {}
        BY Zenon, <1>6, <3>3 DEF GovernorInv, GrantsOf
      <4>2. lane = InitialLane(p, now)
        BY Zenon, <1>3, <3>3
      <4> QED BY Zenon, <3>1, <4>1, <4>2, FirstLane
    <3> QED BY Zenon, <3>2, <3>3
  <2>3. now >= lane.observed /\ lane \in LaneRecords /\ GrantsInv(lane, G)
    <3>1. lane \in LaneRecords /\ GrantsInv(lane, G)
      BY Zenon, <2>2 DEF LaneInv
    <3> QED BY <1>11, <3>1 DEF LaneRecords, Times
  <2>4. PICK kind, new : kind = made.kind /\ new = made.lane
    BY Zenon
  <2>5. Decided(lane, id, now, kind, new)
    BY Zenon, <1>4, <2>2, <2>3, <2>4, DecideShape
  <2>6. PICK H : H = IF kind \in Allowed THEN G \cup {g} ELSE G
    BY Zenon
  <2>7. LaneInv(new, H)
    <3>1. CASE kind \in Allowed
      <4>1. H = G \cup {g} /\ g = NewGrant(key, id, kind, lane, G, now)
        BY Zenon, <1>7, <2>4, <2>6, <3>1
      <4> QED BY Zenon, <2>1, <2>2, <2>3, <2>5, <3>1, <4>1, AdmitKeepsLane
    <3>2. CASE kind \notin Allowed
      BY Zenon, <2>2, <2>3, <2>5, <2>6, <3>2, RefusalKeepsLane
    <3> QED BY Zenon, <3>1, <3>2
  <2>8. /\ record \in AdmissionRecords /\ record.op = op /\ record.policy = p
        /\ record.epoch = lane.epoch /\ record.decision = kind /\ record.admittedAt = now
        /\ record.settlement = "None"
    <3>1. PICK expires \in Nat : expires = now + p.retention
      BY PolicyNumbers DEF Times
    <3>2. kind \in Allowed \cup {"RateLimited", "CircuitOpen"}
      BY Zenon, <2>5 DEF Decided, Allowed
    <3>3. lane.epoch \in Nat \ {0}
      BY Zenon, <2>3 DEF LaneRecords
    <3> QED BY Zenon, <1>5, <2>4, <3>1, <3>2, <3>3 DEF AdmissionRecords
  <2>9. AdmissionInv(id, record, new, H) /\ OthersKept(G, H, id)
    <3>1. GrantsAfter(key, id, kind, lane, G, now, H)
      BY Zenon, <1>7, <2>4, <2>6 DEF GrantsAfter
    <3>2. Recorded(record, lane, kind, now)
      BY Zenon, <2>2, <2>8 DEF Recorded
    <3> QED BY Zenon, <2>1, <2>3, <2>5, <3>1, <3>2, DecidedRequest
  <2>10. /\ DOMAIN lanes' = DOMAIN lanes \cup {key} /\ lanes'[key] = new
         /\ \A k \in DOMAIN lanes : k # key => lanes'[k] = lanes[k]
    BY Zenon, <1>11, <2>4
  <2>11. IsFiniteSet(DOMAIN lanes') /\ Cardinality(DOMAIN lanes') <= MAX_LANES
    <3>1. IsFiniteSet(DOMAIN lanes) /\ Cardinality(DOMAIN lanes) \in Nat
      BY Zenon, FS_CardinalityType DEF GovernorInv
    <3>2. /\ IsFiniteSet(DOMAIN lanes \cup {key})
          /\ Cardinality(DOMAIN lanes \cup {key}) =
               IF key \in DOMAIN lanes THEN Cardinality(DOMAIN lanes)
                                       ELSE Cardinality(DOMAIN lanes) + 1
      BY Zenon, <3>1, FS_AddElement
    <3>3. /\ key \in DOMAIN lanes \/ Cardinality(DOMAIN lanes) < MAX_LANES
          /\ Cardinality(DOMAIN lanes) <= MAX_LANES
      BY Zenon, <1>11 DEF CapacityLeft, GovernorInv
    <3>4. Cardinality(DOMAIN lanes \cup {key}) <= MAX_LANES
      BY <3>1, <3>2, <3>3, GovernorAssumption
    <3> QED BY Zenon, <2>10, <3>2, <3>4
  <2>12. GrantsOf(key)' = H /\ \A k : k # key => GrantsOf(k)' = GrantsOf(k)
    <3>1. g.lane = key
      BY Zenon, <1>7 DEF NewGrant
    <3>2. CASE kind \in Allowed
      <4>1. grants' = grants \cup {g} /\ H = G \cup {g}
        BY Zenon, <1>11, <2>4, <2>6, <3>2
      <4> QED BY Zenon, <1>6, <3>1, <4>1 DEF GrantsOf
    <3>3. CASE kind \notin Allowed
      <4>1. grants' = grants /\ H = G
        BY Zenon, <1>11, <2>4, <2>6, <3>3
      <4> QED BY Zenon, <1>6, <4>1 DEF GrantsOf
    <3> QED BY Zenon, <3>2, <3>3
  <2>13. \A h \in grants' : h.lane \in DOMAIN lanes'
    <3>1. g.lane = key
      BY Zenon, <1>7 DEF NewGrant
    <3>2. \A h \in grants : h.lane \in DOMAIN lanes
      BY Zenon DEF GovernorInv
    <3>3. \A h \in grants' : h \in grants \/ h = g
      BY Zenon, <1>11
    <3> QED BY Zenon, <2>10, <3>1, <3>2, <3>3
  <2>14. kept \subseteq DOMAIN admissions
    BY Zenon, <1>2 DEF Retained
  <2>15. /\ DOMAIN admissions' = kept \cup {<< tenant, id >>}
         /\ admissions'[<< tenant, id >>] = record
         /\ \A k \in DOMAIN admissions' : k # << tenant, id >> =>
               k \in DOMAIN admissions /\ admissions'[k] = admissions[k]
    BY Zenon, <1>11, <2>14
  <2>16. /\ IsFiniteSet(DOMAIN admissions')
         /\ Cardinality(DOMAIN admissions') <= MAX_ADMISSIONS
    <3>1. IsFiniteSet(kept) /\ Cardinality(kept) \in Nat
      <4>1. IsFiniteSet(DOMAIN admissions)
        BY Zenon DEF GovernorInv
      <4> QED BY Zenon, <2>14, <4>1, FS_Subset, FS_CardinalityType
    <3>2. PICK k : k = << tenant, id >>
      BY Zenon
    <3>3. /\ IsFiniteSet(kept \cup {k})
          /\ Cardinality(kept \cup {k}) =
               IF k \in kept THEN Cardinality(kept) ELSE Cardinality(kept) + 1
      BY Zenon, <3>1, FS_AddElement
    <3>4. Cardinality(kept) < MAX_ADMISSIONS
      BY Zenon, <1>11 DEF CapacityLeft
    <3>5. Cardinality(kept \cup {k}) <= MAX_ADMISSIONS
      BY <3>1, <3>3, <3>4, GovernorAssumption
    <3> QED BY Zenon, <2>15, <3>2, <3>3, <3>5
  <2>17. LaneOf(<< tenant, id >>)' = key
    <3>1. << tenant, id >>[1] = tenant
      BY Zenon
    <3> QED BY Zenon, <1>1, <2>8, <2>15, <3>1 DEF LaneOf
  <2>18. ASSUME NEW other \in AdmissionIds, NEW rec \in AdmissionRecords, other # id,
                key \in DOMAIN lanes, AdmissionInv(other, rec, lanes[key], GrantsOf(key))
         PROVE  AdmissionInv(other, rec, new, H)
    <3>1. AdmissionInv(other, rec, lane, G)
      BY Zenon, <1>3, <1>6, <2>18
    <3> QED BY Zenon, <2>5, <2>9, <2>18, <3>1, DecideKeepsOthers
  <2>19. << tenant, id >> \in DOMAIN admissions'
    BY Zenon, <2>15
  <2>20. LaneStep(tenant, id, key, new, H)
    <3>1. admissions'[<< tenant, id >>] \in AdmissionRecords
          /\ AdmissionInv(id, admissions'[<< tenant, id >>], new, H)
      BY Zenon, <2>8, <2>9, <2>15
    <3> QED BY Zenon, <2>7, <2>10, <2>11, <2>12, <2>13, <2>15, <2>16, <2>17, <2>18, <2>19, <3>1
            DEF LaneStep
  <2> QED BY Zenon, <1>1, <2>1, <2>20, LaneStepKeeps
<1> QED BY Zenon, <1>9, <1>10, <1>11

\* A settlement that is recorded: of the grants it changes the one of the request, and the
\* lane by the rule of apply_settlement.
SettleMoves(tenant, id, settlement, record, g0, g1) ==
    LET lane == LaneKey(tenant, record.op, record.policy) IN
    /\ << tenant, id >> \in DOMAIN admissions /\ record = admissions[<< tenant, id >>]
    /\ record \in AdmissionRecords /\ record.decision \in Allowed
    /\ lane \in DOMAIN lanes
    /\ AdmissionInv(id, record, lanes[lane], GrantsOf(lane))
    /\ g0.id = id /\ g0.at = record.admittedAt /\ g0.kind = record.decision
    /\ g0.epoch = record.epoch
    /\ g0.nth = Cardinality(Same(GrantsOf(lane), id, record.admittedAt)) - 1
    /\ GrantSettled(GrantsOf(lane), GrantsOf(lane)', g0, g1, settlement)
    /\ \A k : k # lane => GrantsOf(k)' = GrantsOf(k)
    /\ g0 \in grants /\ g1 \in grants' \ grants
    /\ \A g \in grants' : g.lane \in DOMAIN lanes
    /\ Settled(lanes[lane], id, record, settlement, lanes'[lane])
    /\ DOMAIN lanes' = DOMAIN lanes
    /\ \A k \in DOMAIN lanes : k # lane => lanes'[k] = lanes[k]
    /\ DOMAIN admissions' = DOMAIN admissions
    /\ \A k \in DOMAIN admissions : k # << tenant, id >> => admissions'[k] = admissions[k]
    /\ admissions'[<< tenant, id >>] = [record EXCEPT !.settlement = settlement]

\* Every step of settle has that form.
LEMMA SettleForm ==
    ASSUME GovernorInv, NEW tenant \in Tenants, NEW id \in AdmissionIds,
           NEW settlement \in Settlements, NEW now \in Times,
           SettleAs(tenant, id, settlement, now)
    PROVE  \E record, g0, g1 : SettleMoves(tenant, id, settlement, record, g0, g1)
<1>1. PICK key : key = << tenant, id >>
  BY Zenon
<1>2. PICK record : record = admissions[key]
  BY Zenon
<1>3. PICK l : l = LaneKey(tenant, record.op, record.policy)
  BY Zenon
<1>4. PICK G : G = GrantsOf(l)
  BY Zenon
<1>5. PICK S : S = Same(G, id, record.admittedAt)
  BY Zenon
<1>6. SameRequest(l, id, record.admittedAt) = S
  BY Zenon, <1>4, <1>5 DEF SameRequest, Same, GrantsOf
<1>7. /\ key \in DOMAIN admissions /\ Settleable(record, now)
      /\ lanes' = [lanes EXCEPT ![l] = ApplySettlement(@, id, record, settlement, now)]
      /\ admissions' = [admissions EXCEPT ![key].settlement = settlement]
      /\ grants' = {IF g \in S /\ g.nth = Cardinality(S) - 1
                    THEN [g EXCEPT !.settlement = settlement] ELSE g : g \in grants}
  BY Zenon, <1>1, <1>2, <1>3, <1>6 DEF SettleAs
<1>8. record.decision \in Allowed /\ record.settlement = "None"
  BY Zenon, <1>7 DEF Settleable
<1>9. /\ record \in AdmissionRecords /\ l \in DOMAIN lanes
      /\ AdmissionInv(id, record, lanes[l], G) /\ LaneInv(lanes[l], G)
  <2>1. key[1] = tenant /\ key[2] = id
    BY Zenon, <1>1
  <2>2. LaneOf(key) = l
    BY Zenon, <1>2, <1>3, <2>1 DEF LaneOf
  <2> QED BY Zenon, <1>2, <1>4, <1>7, <2>1, <2>2 DEF GovernorInv
<1>10. PICK g0 \in S : /\ g0.nth = Cardinality(S) - 1 /\ g0.kind = record.decision
                       /\ g0.epoch = record.epoch /\ g0.settlement = "None"
  BY Zenon, <1>5, <1>8, <1>9 DEF AdmissionInv
<1>11. PICK g1 : g1 = [g0 EXCEPT !.settlement = settlement]
  BY Zenon
<1>12. /\ g0 \in G /\ g0.id = id /\ g0.at = record.admittedAt
       /\ g0 \in grants /\ g0.lane = l /\ g0 \in GrantRecords
  <2>1. g0 \in G /\ g0.id = id /\ g0.at = record.admittedAt
    BY Zenon, <1>5, <1>10 DEF Same
  <2>2. g0 \in grants /\ g0.lane = l
    BY Zenon, <1>4, <2>1 DEF GrantsOf
  <2> QED BY Zenon, <1>9, <2>1, <2>2 DEF LaneInv, GrantsInv
<1>13. /\ g1.id = g0.id /\ g1.at = g0.at /\ g1.nth = g0.nth /\ g1.lane = l
       /\ g1.settlement = settlement /\ settlement # "None"
  BY Zenon, <1>11, <1>12 DEF GrantRecords, Settlements
<1>14. g1 \notin G /\ g1 \notin grants
  <2>1. g1 \notin G
    <3>1. SUFFICES ASSUME g1 \in G PROVE FALSE
      BY Zenon
    <3>2. g1 = g0
      BY Zenon, <1>9, <1>12, <1>13, <3>1 DEF LaneInv, GrantsInv
    <3> QED BY Zenon, <1>10, <1>13, <3>2
  <2> QED BY Zenon, <1>4, <1>13, <2>1 DEF GrantsOf
<1>15. \A g \in grants : g \in S /\ g.nth = Cardinality(S) - 1 <=> g = g0
  <2>1. ASSUME NEW g \in grants, g \in S, g.nth = Cardinality(S) - 1 PROVE g = g0
    <3>1. g \in G /\ g.id = id /\ g.at = record.admittedAt
      BY Zenon, <1>5, <2>1 DEF Same
    <3> QED BY Zenon, <1>9, <1>10, <1>12, <2>1, <3>1 DEF LaneInv, GrantsInv
  <2> QED BY Zenon, <1>10, <2>1
<1>16. grants' = (grants \ {g0}) \cup {g1}
  <2>1. grants' = {IF g = g0 THEN [g EXCEPT !.settlement = settlement] ELSE g : g \in grants}
    <3>1. ASSUME NEW g \in grants
          PROVE  (IF g \in S /\ g.nth = Cardinality(S) - 1
                  THEN [g EXCEPT !.settlement = settlement] ELSE g)
                 = (IF g = g0 THEN [g EXCEPT !.settlement = settlement] ELSE g)
      BY Zenon, <1>15
    <3> QED BY Zenon, <1>7, <3>1
  <2>2. \A g \in grants' : (g \in grants /\ g # g0) \/ g = g1
    BY Zenon, <1>11, <2>1
  <2>3. g1 \in grants'
    BY Zenon, <1>11, <1>12, <2>1
  <2>4. \A g \in grants : g # g0 => g \in grants'
    BY Zenon, <2>1
  <2>5. g0 \notin grants'
    BY Zenon, <1>12, <1>14, <2>2
  <2> QED BY Zenon, <2>2, <2>3, <2>4, <2>5
<1>17. /\ GrantsOf(l)' = (G \ {g0}) \cup {g1}
       /\ \A k : k # l => GrantsOf(k)' = GrantsOf(k)
  <2>1. GrantsOf(l)' = (G \ {g0}) \cup {g1}
    BY Zenon, <1>4, <1>13, <1>16 DEF GrantsOf
  <2>2. ASSUME NEW k, k # l PROVE GrantsOf(k)' = GrantsOf(k)
    BY Zenon, <1>12, <1>13, <1>16, <2>2 DEF GrantsOf
  <2> QED BY Zenon, <2>1, <2>2
<1>18. GrantSettled(G, GrantsOf(l)', g0, g1, settlement)
  BY Zenon, <1>10, <1>11, <1>12, <1>14, <1>17 DEF GrantSettled
<1>19. Settled(lanes[l], id, record, settlement, lanes'[l])
  <2>1. lanes[l] \in LaneRecords /\ record.policy = lanes[l].policy
    BY Zenon, <1>9 DEF LaneInv, AdmissionInv
  <2>2. Settled(lanes[l], id, record, settlement,
                ApplySettlement(lanes[l], id, record, settlement, now))
    BY Zenon, <1>8, <1>9, <2>1, SettleShape
  <2>3. lanes'[l] = ApplySettlement(lanes[l], id, record, settlement, now)
    BY Zenon, <1>7, <1>9
  <2> QED BY Zenon, <2>2, <2>3
<1>20. /\ DOMAIN lanes' = DOMAIN lanes
       /\ \A k \in DOMAIN lanes : k # l => lanes'[k] = lanes[k]
       /\ DOMAIN admissions' = DOMAIN admissions
       /\ \A k \in DOMAIN admissions : k # key => admissions'[k] = admissions[k]
       /\ admissions'[key] = [record EXCEPT !.settlement = settlement]
  BY Zenon, <1>2, <1>7
<1>21. \A g \in grants' : g.lane \in DOMAIN lanes
  <2>1. \A g \in grants : g.lane \in DOMAIN lanes
    BY Zenon DEF GovernorInv
  <2> QED BY Zenon, <1>9, <1>13, <1>16, <2>1
<1>22. g1 \in grants' \ grants
  BY Zenon, <1>14, <1>16
<1>23. SettleMoves(tenant, id, settlement, record, g0, g1)
  BY Zenon, <1>1, <1>2, <1>3, <1>4, <1>5, <1>7, <1>8, <1>9, <1>10, <1>12, <1>17, <1>18,
     <1>19, <1>20, <1>21, <1>22 DEF SettleMoves
<1> QED BY Zenon, <1>23

\* settle keeps the invariant.
LEMMA SettleKeeps ==
    ASSUME GovernorInv, NEW tenant \in Tenants, NEW id \in AdmissionIds,
           NEW settlement \in Settlements, NEW now \in Times,
           SettleAs(tenant, id, settlement, now)
    PROVE  GovernorInv'
<1>1. PICK record, g0, g1 : SettleMoves(tenant, id, settlement, record, g0, g1)
  BY Zenon, SettleForm
<1>2. PICK l : l = LaneKey(tenant, record.op, record.policy)
  BY Zenon
<1>3. PICK lane, G, new, H : /\ lane = lanes[l] /\ G = GrantsOf(l)
                             /\ new = lanes'[l] /\ H = GrantsOf(l)'
  BY Zenon
<1>4. /\ record \in AdmissionRecords /\ record.decision \in Allowed
      /\ l \in DOMAIN lanes /\ AdmissionInv(id, record, lane, G)
      /\ g0.id = id /\ g0.at = record.admittedAt /\ g0.kind = record.decision
      /\ g0.epoch = record.epoch /\ g0.nth = Cardinality(Same(G, id, record.admittedAt)) - 1
      /\ GrantSettled(G, H, g0, g1, settlement)
      /\ Settled(lane, id, record, settlement, new)
  BY Zenon, <1>1, <1>2, <1>3 DEF SettleMoves
<1>5. LaneInv(lane, G) /\ l \in LaneKeys
  BY Zenon, <1>3, <1>4 DEF GovernorInv
<1>6. LaneInv(new, H)
  BY Zenon, <1>4, <1>5, SettleKeepsLane
<1>7. AdmissionInv(id, [record EXCEPT !.settlement = settlement], new, H)
  BY Zenon, <1>4, <1>5, SettleKeepsRequest
<1>8. OthersKept(G, H, id)
  <2>1. IsFiniteSet(G) /\ G \subseteq GrantRecords
    BY Zenon, <1>5 DEF LaneInv, GrantsInv
  <2>2. PartsKept(G, H, g0, g1, settlement)
    BY Zenon, <1>4, <2>1, SettledParts
  <2> QED BY Zenon, <1>4, <2>2 DEF PartsKept, OthersKept
<1>9. ASSUME NEW other \in AdmissionIds, NEW rec \in AdmissionRecords, other # id,
             AdmissionInv(other, rec, lanes[l], GrantsOf(l))
      PROVE  AdmissionInv(other, rec, new, H)
  <2>1. AdmissionInv(other, rec, lane, G) /\ lane \in LaneRecords
    BY Zenon, <1>3, <1>5, <1>9 DEF LaneInv
  <2> QED BY Zenon, <1>4, <1>8, <1>9, <2>1, SettleKeepsOthers
<1>10. PICK after : after = [record EXCEPT !.settlement = settlement]
  BY Zenon
<1>11. after \in AdmissionRecords /\ after.op = record.op /\ after.policy = record.policy
  BY Zenon, <1>4, <1>10 DEF AdmissionRecords
<1>12. /\ << tenant, id >> \in DOMAIN admissions'
       /\ admissions'[<< tenant, id >>] = after
       /\ DOMAIN admissions' = DOMAIN admissions
       /\ \A k \in DOMAIN admissions' : k # << tenant, id >> =>
             k \in DOMAIN admissions /\ admissions'[k] = admissions[k]
       /\ DOMAIN lanes' = DOMAIN lanes \cup {l}
       /\ DOMAIN lanes' = DOMAIN lanes
       /\ \A k \in DOMAIN lanes : k # l => lanes'[k] = lanes[k]
       /\ \A k : k # l => GrantsOf(k)' = GrantsOf(k)
       /\ \A g \in grants' : g.lane \in DOMAIN lanes'
  BY Zenon, <1>1, <1>2, <1>4, <1>10 DEF SettleMoves
<1>13. LaneOf(<< tenant, id >>)' = l
  <2>1. << tenant, id >>[1] = tenant
    BY Zenon
  <2> QED BY Zenon, <1>2, <1>11, <1>12, <2>1 DEF LaneOf
<1>14. /\ IsFiniteSet(DOMAIN lanes') /\ Cardinality(DOMAIN lanes') <= MAX_LANES
       /\ IsFiniteSet(DOMAIN admissions') /\ Cardinality(DOMAIN admissions') <= MAX_ADMISSIONS
  BY Zenon, <1>12 DEF GovernorInv
<1>15. LaneStep(tenant, id, l, new, H)
  <2>1. /\ admissions'[<< tenant, id >>] \in AdmissionRecords
        /\ AdmissionInv(id, admissions'[<< tenant, id >>], new, H)
    BY Zenon, <1>7, <1>10, <1>11, <1>12
  <2> QED BY Zenon, <1>3, <1>6, <1>9, <1>12, <1>13, <1>14, <2>1 DEF LaneStep
<1> QED BY Zenon, <1>2, <1>5, <1>15, LaneStepKeeps

\* The invariant of the store holds in every reachable state, for any number of lanes,
\* requests and retries.
THEOREM GovernorAlways == Spec => []GovernorInv
<1>1. Init => GovernorInv
  <2>1. SUFFICES ASSUME Init PROVE GovernorInv
    BY Zenon
  <2>2. DOMAIN lanes = {} /\ DOMAIN admissions = {} /\ grants = {}
    <3>1. DOMAIN << >> = {}
      OBVIOUS
    <3> QED BY Zenon, <2>1, <3>1 DEF Init
  <2>3. IsFiniteSet({}) /\ Cardinality({}) = 0
    BY Zenon, FS_EmptySet
  <2>4. 0 <= MAX_LANES /\ 0 <= MAX_ADMISSIONS
    BY GovernorAssumption
  <2> QED BY Zenon, <2>2, <2>3, <2>4 DEF GovernorInv
<1>2. GovernorInv /\ [Next]_vars => GovernorInv'
  <2>1. SUFFICES ASSUME GovernorInv, [Next]_vars PROVE GovernorInv'
    BY Zenon
  <2>2. ASSUME NEW tenant \in Tenants, NEW id \in AdmissionIds, NEW now \in Times,
               NEW op \in Operations, NEW p \in Policies, AdmitAgain(tenant, id, op, p, now)
        PROVE  GovernorInv'
    <3>1. /\ UNCHANGED << lanes, grants >>
          /\ admissions' = admissions \/ admissions' = Restrict(admissions, Retained(now))
      BY Zenon, <2>2 DEF AdmitAgain, Refused
    <3> QED BY Zenon, <2>1, <3>1, PruneKeeps
  <2>3. ASSUME NEW tenant \in Tenants, NEW id \in AdmissionIds, NEW now \in Times,
               NEW op \in Operations, NEW p \in Policies, AdmitNew(tenant, id, op, p, now)
        PROVE  GovernorInv'
    BY Zenon, <2>1, <2>3, AdmitNewKeeps
  <2>4. ASSUME NEW tenant \in Tenants, NEW id \in AdmissionIds, NEW now \in Times,
               NEW settlement \in Settlements, SettleAs(tenant, id, settlement, now)
        PROVE  GovernorInv'
    BY Zenon, <2>1, <2>4, SettleKeeps
  <2>5. CASE UNCHANGED vars
    <3>1. UNCHANGED << lanes, grants >> /\ admissions' = admissions
      BY Zenon, <2>5 DEF vars
    <3> QED BY Zenon, <2>1, <3>1, PruneKeeps
  <2> QED BY Zenon, <2>1, <2>2, <2>3, <2>4, <2>5 DEF Next
<1> QED BY <1>1, <1>2, PTL DEF Spec

\* The stored records have their types and the stores stay within their capacities, so
\* load_lane and load_admission never meet a record they refuse.
THEOREM GovernorTyped == Spec => []TypeOK
<1>1. GovernorInv => TypeOK
  <2>1. SUFFICES ASSUME GovernorInv PROVE TypeOK
    BY Zenon
  <2>2. \A k \in DOMAIN lanes : lanes[k] \in LaneRecords
    BY Zenon, <2>1 DEF GovernorInv, LaneInv
  <2>3. \A k \in DOMAIN admissions : admissions[k] \in AdmissionRecords
    BY Zenon, <2>1 DEF GovernorInv
  <2> QED BY Zenon, <2>1, <2>2, <2>3 DEF GovernorInv, TypeOK, LaneRecords, AdmissionRecords
<1> QED BY <1>1, GovernorAlways, PTL

\* A retained admission always finds the lane it was decided on, under the same policy.
THEOREM AdmissionsAlwaysMatch == Spec => []AdmissionsMatchLanes
<1>1. GovernorInv => AdmissionsMatchLanes
  BY Zenon DEF GovernorInv, AdmissionInv, LaneOf, AdmissionsMatchLanes
<1> QED BY <1>1, GovernorAlways, PTL

\* No window lets more dispatches through than the policy says, in any lane and for any
\* order of the clock readings.
THEOREM WindowBoundAlways == Spec => []WindowBound
<1>1. GovernorInv => WindowBound
  <2>1. SUFFICES ASSUME GovernorInv, NEW k \in DOMAIN lanes, NEW g \in GrantsOf(k)
                 PROVE  Cardinality({h \in GrantsOf(k) :
                            /\ h.kind = "Allow"
                            /\ FixedWindowStart(h.at, lanes[k].policy.window)
                                 = FixedWindowStart(g.at, lanes[k].policy.window)})
                          <= lanes[k].policy.max
    BY Zenon DEF WindowBound
  <2>2. PICK lane, G, p : lane = lanes[k] /\ G = GrantsOf(k) /\ p = lane.policy
    BY Zenon
  <2>3. LaneInv(lane, G)
    BY Zenon, <2>1, <2>2 DEF GovernorInv
  <2>4. p \in Policies /\ g.at \in Nat
    BY <2>1, <2>2, <2>3 DEF LaneInv, LaneRecords, GrantsInv, GrantRecords, Times
  <2>5. FixedWindowStart(g.at, p.window) \in Nat
    <3>1. p.window \in Nat \ {0}
      BY Zenon, <2>4, PolicyNumbers
    <3>2. g.at <= g.at
      BY <2>4
    <3>3. FixedWindowStart(g.at, p.window) \in 0 .. g.at
      BY Zenon, <2>4, <3>1, <3>2, WindowStarts
    <3> QED BY <3>3
  <2>6. Cardinality(Window(G, p, FixedWindowStart(g.at, p.window))) <= p.max
    BY Zenon, <2>2, <2>3, <2>5 DEF LaneInv, WindowInv
  <2> QED BY Zenon, <2>2, <2>6 DEF Window
<1> QED BY <1>1, GovernorAlways, PTL

\* While a circuit is open, what its epoch let through are probes made after the open
\* duration.
THEOREM OpenExcludesAlways == Spec => []OpenExcludes
<1>1. GovernorInv => OpenExcludes
  <2>1. SUFFICES ASSUME GovernorInv, NEW k \in DOMAIN lanes, lanes[k].openUntil # Never,
                        NEW g \in GrantsOf(k)
                 PROVE  /\ g.epoch <= lanes[k].epoch
                        /\ g.epoch = lanes[k].epoch =>
                             g.kind = "AllowProbe" /\ g.at >= lanes[k].openUntil
    BY Zenon DEF OpenExcludes
  <2>2. LaneInv(lanes[k], GrantsOf(k))
    BY Zenon, <2>1 DEF GovernorInv
  <2> QED BY Zenon, <2>1, <2>2 DEF LaneInv, GrantsInv, OpenInv
<1> QED BY <1>1, GovernorAlways, PTL

\* Two probes of one opening never overlap.
THEOREM ProbesAlwaysExclusive == Spec => []ProbesExclusive
<1>1. GovernorInv => ProbesExclusive
  BY Zenon DEF GovernorInv, LaneInv, ProbeInv, Exclusive, ProbesExclusive
<1> QED BY <1>1, GovernorAlways, PTL

\* Every opening of a circuit rests on as many distinct failures of its epoch as the policy
\* asks for, or on a failed probe.
THEOREM OpeningAlwaysJustified == Spec => []OpeningJustified
<1>1. GovernorInv => OpeningJustified
  <2>1. SUFFICES ASSUME GovernorInv, NEW k \in DOMAIN lanes,
                        NEW e \in 1 .. lanes[k].epoch - 1
                 PROVE  \/ Cardinality(Failed(GrantsOf(k), e, "Allow"))
                             >= lanes[k].policy.threshold
                        \/ Failed(GrantsOf(k), e, "AllowProbe") # {}
    BY Zenon DEF OpeningJustified, Failed
  <2>2. LaneInv(lanes[k], GrantsOf(k))
    BY Zenon, <2>1 DEF GovernorInv
  <2> QED BY Zenon, <2>1, <2>2 DEF LaneInv, CircuitInv
<1> QED BY <1>1, GovernorAlways, PTL

\* An open circuit closes in one way only: the probe that owns it is settled healthy in
\* that very step.
THEOREM ClosingNeedsProbe == Spec => CloseNeedsProbe
<1> DEFINE Closes(k) == lanes[k].openUntil # Never /\ lanes'[k].openUntil = Never
           Proved(k) == \E g \in grants' \ grants :
                            /\ g.lane = k /\ g.kind = "AllowProbe" /\ g.id = lanes[k].probe
                            /\ g.epoch = lanes[k].epoch /\ g.at >= lanes[k].openUntil
                            /\ g.settlement = "Healthy"
<1>1. ASSUME GovernorInv, [Next]_vars, NEW k \in DOMAIN lanes, Closes(k) PROVE Proved(k)
  <2>1. ASSUME lanes' = lanes PROVE FALSE
    BY Zenon, <1>1, <2>1
  <2>2. ASSUME NEW tenant \in Tenants, NEW id \in AdmissionIds, NEW now \in Times,
               NEW op \in Operations, NEW p \in Policies, AdmitNew(tenant, id, op, p, now)
        PROVE  FALSE
    <3>1. PICK key : key = LaneKey(tenant, op, p)
      BY Zenon
    <3>2. PICK lane : lane = IF key \in DOMAIN lanes THEN lanes[key] ELSE InitialLane(p, now)
      BY Zenon
    <3>3. PICK made, new : made = Decide(lane, id, p, now) /\ new = made.lane
      BY Zenon
    <3>4. /\ ValidateLanePolicy(lane, p)
          /\ lanes' = [j \in DOMAIN lanes \cup {key} |-> IF j = key THEN new ELSE lanes[j]]
      BY Zenon, <2>1, <2>2, <3>1, <3>2, <3>3 DEF AdmitNew, Refused
    <3>5. k = key
      BY Zenon, <1>1, <3>4
    <3>6. lane = lanes[k] /\ lanes'[k] = new /\ lane.policy = p
      BY Zenon, <1>1, <3>2, <3>4, <3>5 DEF ValidateLanePolicy
    <3>7. lane \in LaneRecords
      BY Zenon, <1>1, <3>6 DEF GovernorInv, LaneInv
    <3>8. new.openUntil = lane.openUntil
      <4>1. Decided(lane, id, now, made.kind, made.lane)
        BY Zenon, <3>3, <3>6, <3>7, DecideShape
      <4> QED BY Zenon, <3>3, <4>1 DEF Decided
    <3> QED BY Zenon, <1>1, <3>6, <3>8
  <2>3. ASSUME NEW tenant \in Tenants, NEW id \in AdmissionIds, NEW now \in Times,
               NEW settlement \in Settlements, SettleAs(tenant, id, settlement, now)
        PROVE  Proved(k)
    <3>1. PICK record, g0, g1 : SettleMoves(tenant, id, settlement, record, g0, g1)
      BY Zenon, <1>1, <2>3, SettleForm
    <3>2. PICK l : l = LaneKey(tenant, record.op, record.policy)
      BY Zenon
    <3>3. PICK G, H : G = GrantsOf(l) /\ H = GrantsOf(l)'
      BY Zenon
    <3>4. /\ \A j \in DOMAIN lanes : j # l => lanes'[j] = lanes[j]
          /\ Settled(lanes[l], id, record, settlement, lanes'[l])
          /\ g0.id = id /\ g0.kind = record.decision /\ g0.epoch = record.epoch
          /\ GrantSettled(G, H, g0, g1, settlement)
          /\ g1 \in grants' \ grants
      BY Zenon, <3>1, <3>2, <3>3 DEF SettleMoves
    <3>5. k = l
      BY Zenon, <1>1, <3>4
    <3>6. /\ record.epoch = lanes[k].epoch /\ record.decision = "AllowProbe"
          /\ lanes[k].probe = id /\ settlement = "Healthy"
      BY Zenon, <1>1, <3>4, <3>5 DEF Settled
    <3>7. LaneInv(lanes[k], G)
      BY Zenon, <1>1, <3>3, <3>5 DEF GovernorInv
    <3>8. PartsKept(G, H, g0, g1, settlement)
      <4>1. IsFiniteSet(G) /\ G \subseteq GrantRecords
        BY Zenon, <3>7 DEF LaneInv, GrantsInv
      <4> QED BY Zenon, <3>4, <4>1, SettledParts
    <3>9. g0 \in G /\ g0.lane = k
      BY Zenon, <3>3, <3>4, <3>5 DEF GrantSettled, GrantsOf
    <3>10. g0.at >= lanes[k].openUntil
      BY Zenon, <1>1, <3>4, <3>6, <3>7, <3>9 DEF LaneInv, OpenInv
    <3>11. /\ g1.lane = k /\ g1.kind = "AllowProbe" /\ g1.id = lanes[k].probe
           /\ g1.epoch = lanes[k].epoch /\ g1.at >= lanes[k].openUntil
           /\ g1.settlement = "Healthy"
      BY Zenon, <3>4, <3>6, <3>8, <3>9, <3>10 DEF PartsKept
    <3> QED BY Zenon, <3>4, <3>11
  <2>4. CASE Next
    <3>1. ASSUME NEW tenant \in Tenants, NEW id \in AdmissionIds, NEW now \in Times,
                 NEW op \in Operations, NEW p \in Policies, AdmitAgain(tenant, id, op, p, now)
          PROVE  lanes' = lanes
      BY Zenon, <3>1 DEF AdmitAgain, Refused
    <3> QED BY Zenon, <2>1, <2>2, <2>3, <2>4, <3>1 DEF Next
  <2>5. CASE UNCHANGED vars
    BY Zenon, <2>1, <2>5 DEF vars
  <2> QED BY Zenon, <1>1, <2>4, <2>5
<1>2. GovernorInv /\ [Next]_vars =>
        [\A key \in DOMAIN lanes :
            (lanes[key].openUntil # Never /\ lanes'[key].openUntil = Never) =>
               \E g \in grants' \ grants :
                  /\ g.lane = key /\ g.kind = "AllowProbe" /\ g.id = lanes[key].probe
                  /\ g.epoch = lanes[key].epoch /\ g.at >= lanes[key].openUntil
                  /\ g.settlement = "Healthy"]_vars
  BY Zenon, <1>1
<1> QED BY <1>2, GovernorAlways, PTL DEF Spec, CloseNeedsProbe

===========================================================================
