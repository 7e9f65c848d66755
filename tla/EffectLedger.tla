---------------------------- MODULE EffectLedger ----------------------------
(***************************************************************************)
(* The Effect coordinator of src/effect/coordinator.rs: the durable map     *)
(* from (tenant, effect id) to aggregates, with revision compare-and-swap,  *)
(* command idempotency and the unique idempotency coordinate.  Memory and   *)
(* SQLite coordinators run each operation under one lock or one immediate   *)
(* transaction, so an operation is one step.                                *)
(*                                                                          *)
(* Callers are unconstrained: any actor may submit any command at any       *)
(* revision and at any time its own clock shows.  Command identities are    *)
(* only compared for equality, so the n-th committed command of an          *)
(* aggregate is named n; a caller may also re-submit a committed identity,  *)
(* which stands for a duplicated or retried request.                        *)
(***************************************************************************)
EXTENDS Effect

CONSTANTS
    Tenants,
    EffectIds,
    TenantOf                 \* [Actors -> Tenants], the authority's tenant

ASSUME LedgerAssumption == TenantOf \in [Actors -> Tenants]

VARIABLE effects             \* [Tenants \X EffectIds -> Effect]

vars == << effects >>

EffectKeys == Tenants \X EffectIds

Exists(k) == effects[k].transitions # << >>

Init == effects = [k \in EffectKeys |-> NoEffect]

\* The identities a caller may put on its next command to k: a fresh one, or
\* that of the last committed command when it retries.
CommandIds(k) == {Revision(effects[k]), Revision(effects[k]) + 1} \ {0}

\* create_as inserts the aggregate; an existing identity or an existing
\* idempotency coordinate returns the canonical aggregate or an error.
CreateAs(k, id, key, input, notBefore, now, actor) ==
    /\ TenantOf[actor] = k[1]
    /\ ~ Exists(k)
    /\ \A j \in EffectKeys : j[1] = k[1] /\ Exists(j) => effects[j].key # key
    /\ effects' = [effects EXCEPT ![k] =
                     NewEffect(id, key, input, notBefore, actor, now)]

\* What apply_as answers; only "applied" changes the store.  Recognition of a
\* committed command comes before the revision comparison.
Reply(k, revision, cmd, now, actor) ==
    LET e == effects[k]
    IN  IF TenantOf[actor] # k[1] \/ ~ Exists(k) THEN "missing"
        ELSE IF Recognizes(e, cmd, actor) THEN "duplicate"
        ELSE IF KnownId(e, cmd.id) THEN "reused"
        ELSE IF Revision(e) # revision THEN "conflict"
        ELSE IF ~ CanApply(e, cmd, now, actor) THEN "refused"
        ELSE "applied"

\* apply_as on a command that commits.
ApplyAs(k, revision, cmd, now, actor) ==
    /\ Reply(k, revision, cmd, now, actor) = "applied"
    /\ effects' = [effects EXCEPT ![k] = AppliedTo(@, cmd, now, actor)]

-----------------------------------------------------------------------------
(* One action per command kind.  Only a caller that names the current       *)
(* revision commits; the others get "conflict" and change nothing.          *)

Submit(k, id, kind, lease, attempt, ms, now, actor) ==
    ApplyAs(k, Revision(effects[k]), Command(id, kind, lease, attempt, ms),
            now, actor)

Create(k, now, actor) ==
    \E id \in CommandIds(k), key \in Keys, input \in Inputs, notBefore \in Times :
        CreateAs(k, id, key, input, notBefore, now, actor)

Claim(k, now, actor) ==
    \E id \in CommandIds(k), lease \in LeaseIds, duration \in LeaseDurations :
        Submit(k, id, "Claim", lease, 0, duration, now, actor)

RenewLease(k, now, actor) ==
    \E id \in CommandIds(k), lease \in LeaseIds, duration \in LeaseDurations :
        Submit(k, id, "RenewLease", lease, 0, duration, now, actor)

RecordApplied(k, now, actor) ==
    \E id \in CommandIds(k), lease \in LeaseIds, observedAt \in Times :
        Submit(k, id, "RecordApplied", lease, 0, observedAt, now, actor)

RecordNotApplied(k, now, actor) ==
    \E id \in CommandIds(k), lease \in LeaseIds, retryAt \in Times \cup {NoRetry} :
        Submit(k, id, "RecordNotApplied", lease, 0, retryAt, now, actor)

RecordUnknown(k, now, actor) ==
    \E id \in CommandIds(k), lease \in LeaseIds :
        Submit(k, id, "RecordUnknown", lease, 0, 0, now, actor)

ExpireLease(k, now, actor) ==
    \E id \in CommandIds(k), lease \in LeaseIds :
        Submit(k, id, "ExpireLease", lease, 0, 0, now, actor)

ReconcileApplied(k, now, actor) ==
    \E id \in CommandIds(k), lease \in LeaseIds,
       attempt \in 1 .. MAX_EFFECT_ATTEMPTS, observedAt \in Times :
        Submit(k, id, "ReconcileApplied", lease, attempt, observedAt, now, actor)

ReconcileNotApplied(k, now, actor) ==
    \E id \in CommandIds(k), lease \in LeaseIds,
       attempt \in 1 .. MAX_EFFECT_ATTEMPTS, retryAt \in Times \cup {NoRetry} :
        Submit(k, id, "ReconcileNotApplied", lease, attempt, retryAt, now, actor)

Cancel(k, now, actor) ==
    \E id \in CommandIds(k) : Submit(k, id, "Cancel", NoLease, 0, 0, now, actor)

Next ==
    \E k \in EffectKeys, now \in Times, actor \in Actors :
        \/ Create(k, now, actor)
        \/ Claim(k, now, actor)
        \/ RenewLease(k, now, actor)
        \/ RecordApplied(k, now, actor)
        \/ RecordNotApplied(k, now, actor)
        \/ RecordUnknown(k, now, actor)
        \/ ExpireLease(k, now, actor)
        \/ ReconcileApplied(k, now, actor)
        \/ ReconcileNotApplied(k, now, actor)
        \/ Cancel(k, now, actor)

Spec == Init /\ [][Next]_vars

-----------------------------------------------------------------------------
(* Properties.                                                              *)

Transitions == [id      : Nat,
                kind    : CommandKinds \cup {"Create"},
                lease   : LeaseIds \cup {NoLease},
                attempt : 0 .. MAX_EFFECT_ATTEMPTS,
                ms      : 0 .. MaxTime,
                actor   : Actors,
                at      : Times]

Effects == [key         : Keys \cup {NoKey},
            input       : Inputs \cup {NoInput},
            status      : Status,
            transitions : Seq(Transitions)]

\* Every stored aggregate is a well-typed Effect within its transition bound.
TypeOK ==
    /\ effects \in [EffectKeys -> Effects]
    /\ \A k \in EffectKeys : Revision(effects[k]) <= MAX_EFFECT_TRANSITIONS

NotAppliedKinds == {"RecordNotApplied", "ReconcileNotApplied"}
AppliedKinds == {"RecordApplied", "ReconcileApplied"}

IsClaim(t) == t.kind = "Claim"

\* The two implementations of the lifecycle agree: the status apply_kind
\* leaves is the one validate() derives from the history, so no committed
\* aggregate is ever refused when it is read back.
HistoryValid ==
    \A k \in EffectKeys : Exists(k) => Validate(effects[k])

\* A transition of tr after i and before j proves that the attempt claimed at
\* i was not applied and schedules a retry.
ProvenNotApplied(tr, i, j) ==
    \E r \in i + 1 .. j - 1 :
        /\ tr[r].kind \in NotAppliedKinds
        /\ tr[r].lease = tr[i].lease
        /\ tr[r].ms # NoRetry

RetriesProven(tr) ==
    \A i, j \in DOMAIN tr :
        i < j /\ IsClaim(tr[i]) /\ IsClaim(tr[j]) => ProvenNotApplied(tr, i, j)

\* An attempt is followed by another one only after a transition that proves
\* the first one was not applied and schedules a retry; lease expiry alone
\* never leads back to a claim ("expired lease becomes unknown, never pending").
RetryNeedsProof == \A k \in EffectKeys : RetriesProven(effects[k].transitions)

UncertainKinds == {"RecordUnknown", "ExpireLease"}

UncertaintyReconciled(tr) ==
    \A i \in DOMAIN tr :
        tr[i].kind \in UncertainKinds /\ i < Len(tr) =>
            /\ tr[i + 1].kind \in ReconcileKinds
            /\ tr[i + 1].lease = tr[i].lease
            /\ tr[i + 1].attempt = tr[i].attempt

\* An uncertain attempt is left only by a reconciliation that names exactly
\* that attempt and lease.
UncertaintyNeedsReconciliation ==
    \A k \in EffectKeys : UncertaintyReconciled(effects[k].transitions)

SettlementKinds == AppliedKinds \cup NotAppliedKinds

SettledOnce(tr) ==
    \A i, j \in DOMAIN tr :
        /\ /\ tr[i].kind \in SettlementKinds
           /\ tr[j].kind \in SettlementKinds
           /\ tr[i].attempt = tr[j].attempt
           => i = j
        /\ tr[i].kind \in AppliedKinds => i = Len(tr)

\* Each attempt is settled at most once, and nothing follows the settlement
\* that says the effect was applied.
OneSettlementPerAttempt ==
    \A k \in EffectKeys : SettledOnce(effects[k].transitions)

\* Every earlier attempt is proven not applied when the aggregate is open to
\* a claim; while one attempt is claimed or uncertain, every other one is.
OpenWhenProven(s, tr) ==
    \A i \in DOMAIN tr : IsClaim(tr[i]) =>
        /\ s.state = "pending" => ProvenNotApplied(tr, i, Len(tr) + 1)
        /\ s.state \in {"claimed", "unknown"} /\ tr[i].lease # s.lease
             => ProvenNotApplied(tr, i, Len(tr) + 1)

\* A history that ends in uncertainty leaves the status on that attempt.
UncertaintyTracked(s, tr) ==
    tr # << >> /\ tr[Len(tr)].kind \in UncertainKinds =>
        /\ s.state = "unknown"
        /\ s.lease = tr[Len(tr)].lease
        /\ s.attempt = tr[Len(tr)].attempt

\* A live attempt is newer than every settled one.
AttemptIsNew(s, tr) ==
    ~ IsTerminal(s) =>
        \A i \in DOMAIN tr :
            tr[i].kind \in SettlementKinds =>
                tr[i].kind \in NotAppliedKinds /\ tr[i].attempt < s.attempt

\* The status sums the history up: what it allows next is safe for every
\* attempt the history records.  RetryNeedsProof, OneSettlementPerAttempt and
\* UncertaintyNeedsReconciliation rest on it.
StatusCoversHistory ==
    \A k \in EffectKeys :
        LET s  == effects[k].status
            tr == effects[k].transitions
        IN  /\ OpenWhenProven(s, tr)
            /\ UncertaintyTracked(s, tr)
            /\ AttemptIsNew(s, tr)

\* When the lease of transition i was due to end, seen from the claim and the
\* renewals that precede it.
DueBefore(tr, i) ==
    LET grants == {g \in 1 .. i - 1 : /\ tr[g].kind \in {"Claim", "RenewLease"}
                                      /\ tr[g].lease = tr[i].lease}
        last == CHOOSE g \in grants : \A h \in grants : h <= g
    IN  tr[last].at + tr[last].ms

\* Settlement by the worker and expiry by anybody exclude each other: the
\* claiming actor reports strictly before the lease it last extended ends,
\* and an expiry is recorded only at or after that instant.
LeaseFence ==
    \A k \in EffectKeys :
        LET tr == effects[k].transitions
        IN  \A i \in DOMAIN tr :
              /\ tr[i].kind \in {"RenewLease", "RecordApplied",
                                 "RecordNotApplied", "RecordUnknown"} =>
                   /\ tr[i].at < DueBefore(tr, i)
                   /\ \E c \in 1 .. i - 1 :
                        IsClaim(tr[c]) /\ tr[c].lease = tr[i].lease
                                       /\ tr[c].actor = tr[i].actor
              /\ tr[i].kind = "ExpireLease" => tr[i].at >= DueBefore(tr, i)

\* Within a tenant an idempotency coordinate is bound to one aggregate.
KeyUnique ==
    \A j, k \in EffectKeys :
        j[1] = k[1] /\ Exists(j) /\ Exists(k) /\ effects[j].key = effects[k].key
            => j = k

\* A terminal aggregate never changes again: no late report, expiry, renewal
\* or cancellation is committed after applied, rejected or cancelled.
TerminalIsFinal ==
    [][\A k \in EffectKeys :
         IsTerminal(effects[k].status) => effects'[k] = effects[k]]_vars
=============================================================================
