-------------------------- MODULE EffectExecution --------------------------
(***************************************************************************)
(* The Effect ledger with the processes that drive it: Executor workers     *)
(* (src/effect/executor.rs), Reconciler workers (src/effect/reconciler.rs), *)
(* the expiry part of the Temporal Driver (src/temporal/mod.rs) and the     *)
(* external target behind the connectors.                                   *)
(*                                                                          *)
(* A worker's await points are its steps: between two of them any other     *)
(* process, the clock and the target may move, and the worker may stop for  *)
(* good.  A sweep is identified by its cycle; hosts may run one cycle on    *)
(* several workers at once, or again after a crash.                         *)
(***************************************************************************)
EXTENDS EffectLedger

CONSTANTS
    Workers,                 \* Executor workers, each executing one prepared Effect
    Cycles,                  \* the cycle_id a host gives a sweep
    ActorOf,                 \* [Cycles -> Actors], the authority of the sweep
    Reconcilers, Drivers,
    HostActor,               \* the authority of reconcilers, drivers and clients
    LeaseDuration,           \* lease_duration_ms of the Executor configuration
    RetryDelays, NoDelay     \* retry_after_ms values a connector may choose

ASSUME ExecutionAssumption ==
    /\ ActorOf \in [Cycles -> Actors]
    /\ HostActor \in Actors
    /\ Cycles \X EffectKeys \X (1 .. MAX_EFFECT_TRANSITIONS) \subseteq LeaseIds
    /\ LeaseDuration \in LeaseDurations
    /\ RetryDelays \subseteq Nat
    /\ NoDelay \notin RetryDelays

VARIABLES
    now,                     \* the trusted clock of the hosts
    worker,                  \* [Workers -> local state of execute_prepared]
    reconciler,              \* [Reconcilers -> local state of reconcile_prepared]
    driver,                  \* [Drivers -> one due lease of a tick]
    inFlight,                \* leases whose request the target may still act on
    landed,                  \* leases whose request took effect at the target
    entries                  \* [LeaseIds -> how often execute() was entered]

execVars == << effects, now, worker, reconciler, driver, inFlight, landed, entries >>
target == << inFlight, landed, entries >>

\* The local state of execute_prepared: the sweep's cycle, the effect, the scanned
\* revision, the last time read and, once known, the settlement's kind and operand.
Idle == [pc |-> "idle", cycle |-> "none", k |-> << >>, rev |-> 0, at |-> 0,
         kind |-> "none", ms |-> 0]

\* The local state of reconcile_prepared: the uncertain attempt it looks up.
NoLookup == [pc |-> "idle", k |-> << >>, rev |-> 0, lease |-> NoLease,
             attempt |-> 0, kind |-> "none", delay |-> NoDelay]

\* One due lease of a Temporal tick.
NoDue == [k |-> << >>, rev |-> 0, lease |-> NoLease, at |-> 0]

ExecInit ==
    /\ Init
    /\ now = 1
    /\ worker = [w \in Workers |-> Idle]
    /\ reconciler = [r \in Reconcilers |-> NoLookup]
    /\ driver = [d \in Drivers |-> NoDue]
    /\ inFlight = {}
    /\ landed = {}
    /\ entries = [l \in LeaseIds |-> 0]

-----------------------------------------------------------------------------
(* Clients and the clock.                                                   *)

CreateEffect(k) ==
    /\ \E key \in Keys, input \in Inputs, notBefore \in Times :
          CreateAs(k, << "create", k >>, key, input, notBefore, now, HostActor)
    /\ UNCHANGED << now, worker, reconciler, driver, target >>

CancelEffect(k) ==
    /\ ApplyAs(k, Revision(effects[k]),
               Command(<< "cancel", k >>, "Cancel", NoLease, 0, 0), now, HostActor)
    /\ UNCHANGED << now, worker, reconciler, driver, target >>

Tick ==
    /\ now < MaxTime
    /\ now' = now + 1
    /\ UNCHANGED << effects, worker, reconciler, driver, target >>

-----------------------------------------------------------------------------
(* Executor: execute_prepared, one action per await point.                  *)

Actor(w) == ActorOf[worker[w].cycle]

\* execution_identities: a digest of cycle, actor, tenant, effect, observed
\* revision and attempt names both the lease and the Claim command.
LeaseOf(w) == << worker[w].cycle, worker[w].k, worker[w].rev >>

\* What the worker's Claim answers, and what its settlement answers.
ClaimCommand(w) ==
    Command(<< "claim", LeaseOf(w) >>, "Claim", LeaseOf(w), 0, LeaseDuration)

SettleCommand(w) ==
    Command(<< worker[w].kind, LeaseOf(w) >>, worker[w].kind, LeaseOf(w), 0,
            worker[w].ms)

Become(w, state) == worker' = [worker EXCEPT ![w] = state]

\* run_once_as: the effect is pending and due when the page is scanned.  The host
\* names the cycle, which another worker may run as well.
Scan(w, k, cycle) ==
    /\ worker[w] = Idle
    /\ effects[k].status.state = "pending"
    /\ effects[k].status.notBefore <= now
    /\ Become(w, [Idle EXCEPT !.pc = "authorize", !.cycle = cycle, !.k = k,
                              !.rev = Revision(effects[k])])
    /\ UNCHANGED << effects, now, reconciler, driver, target >>

\* The policy allows the attempt and claim_time is read.  A denial, an error,
\* a timeout, a missing connector or a cancellation is a Stop.
Authorize(w) ==
    /\ worker[w].pc = "authorize"
    /\ Become(w, [worker[w] EXCEPT !.pc = "claim", !.at = now])
    /\ UNCHANGED << effects, now, reconciler, driver, target >>

\* Faulty variant: a duplicate Claim is taken for a Claim of one's own.
ClaimGrantedReplay(reply) == reply \in {"applied", "duplicate"}

\* Only a freshly committed Claim is authority to enter the connector.
ClaimGranted(reply) == reply = "applied"

CommitClaim(w) ==
    LET s == worker[w]
        cmd == ClaimCommand(w)
        reply == Reply(s.k, s.rev, cmd, s.at, Actor(w))
    IN  /\ s.pc = "claim"
        /\ Become(w, IF ClaimGranted(reply) THEN [s EXCEPT !.pc = "admit"] ELSE Idle)
        /\ \/ ApplyAs(s.k, s.rev, cmd, s.at, Actor(w))
           \/ reply # "applied" /\ UNCHANGED effects
        /\ UNCHANGED << now, reconciler, driver, target >>

\* The settlement of an attempt that never reached the connector: immediately
\* retryable after a cancellation, later after a governor denial
\* (retry_at_ms.max(settled_at_ms)).
SettleUnentered(w, retryAt) ==
    Become(w, [worker[w] EXCEPT !.pc = "settle", !.at = now,
                                !.kind = "RecordNotApplied", !.ms = retryAt])

Admit(w) ==
    /\ worker[w].pc = "admit"
    /\ \/ Become(w, [worker[w] EXCEPT !.pc = "dispatch"])
       \/ \E retryAt \in now .. MaxTime : SettleUnentered(w, retryAt)
    /\ UNCHANGED << effects, now, reconciler, driver, target >>

CancelDispatch(w) ==
    /\ worker[w].pc = "dispatch"
    /\ SettleUnentered(w, now)
    /\ UNCHANGED << effects, now, reconciler, driver, target >>

\* connector.execute: the request carries lease_expires_at_ms, and a connector
\* sends nothing to the target once that boundary is reached.
Enter(w) ==
    LET l == LeaseOf(w)
    IN  /\ worker[w].pc = "dispatch"
        /\ Become(w, [worker[w] EXCEPT !.pc = "await"])
        /\ entries' = [entries EXCEPT ![l] = @ + 1]
        /\ inFlight' = inFlight \cup
             (IF now < worker[w].at + LeaseDuration THEN {l} ELSE {})
        /\ UNCHANGED << effects, now, reconciler, driver, landed >>

\* Faulty variant: a timeout or an error is taken for a failed request.
OutcomesOptimistic(l) ==
    (IF l \in landed THEN {<< "RecordApplied", now >>} ELSE {})
    \cup {<< "RecordNotApplied", retryAt >> :
            retryAt \in {now + d : d \in RetryDelays} \cup {NoRetry}}

\* What an entered connector call may end with, normalize_connector_outcome
\* included.  Applied and NotApplied are authoritative answers; everything
\* else (error, panic, timeout, cancellation, invalid outcome, a retry time
\* that overflows) is Unknown and may happen at any time.
Outcomes(l) ==
    {<< "RecordUnknown", 0 >>}
    \cup (IF l \in landed THEN {<< "RecordApplied", now >>} ELSE {})
    \cup (IF l \notin landed \cup inFlight
          THEN {<< "RecordNotApplied", retryAt >> :
                  retryAt \in ({now + d : d \in RetryDelays} \cap Times)
                              \cup {NoRetry}}
          ELSE {})

Return(w) ==
    /\ worker[w].pc = "await"
    /\ \E o \in Outcomes(LeaseOf(w)) :
          Become(w, [worker[w] EXCEPT !.pc = "settle", !.at = now,
                                      !.kind = o[1], !.ms = o[2]])
    /\ UNCHANGED << effects, now, reconciler, driver, target >>

\* Faulty variant: the settlement overwrites whatever the ledger holds.
SettleUnfenced(w) ==
    LET s == worker[w]
    IN  /\ s.pc = "settle"
        /\ Become(w, Idle)
        /\ effects' = [effects EXCEPT ![s.k] =
                         AppliedTo(@, SettleCommand(w), s.at, Actor(w))]
        /\ UNCHANGED << now, reconciler, driver, target >>

\* settle_at: the settlement names the revision the Claim produced, so that
\* any transition in between fences it.
Settle(w) ==
    LET s == worker[w]
        cmd == SettleCommand(w)
    IN  /\ s.pc = "settle"
        /\ Become(w, Idle)
        /\ \/ ApplyAs(s.k, s.rev + 1, cmd, s.at, Actor(w))
           \/ /\ Reply(s.k, s.rev + 1, cmd, s.at, Actor(w)) # "applied"
              /\ UNCHANGED effects
        /\ UNCHANGED << now, reconciler, driver, target >>

\* The worker ends early without touching the ledger: before the Claim it was
\* refused or cancelled; at any point its clock failed, it panicked, or its
\* host crashed.
Stop(w) ==
    /\ worker[w] # Idle
    /\ Become(w, Idle)
    /\ UNCHANGED << effects, now, reconciler, driver, target >>

-----------------------------------------------------------------------------
(* The external target.                                                     *)

\* A request in flight takes effect, or is lost or refused for good.
Land(l) ==
    /\ l \in inFlight
    /\ inFlight' = inFlight \ {l}
    /\ landed' = landed \cup {l}
    /\ UNCHANGED << effects, now, worker, reconciler, driver, entries >>

Drop(l) ==
    /\ l \in inFlight
    /\ inFlight' = inFlight \ {l}
    /\ UNCHANGED << effects, now, worker, reconciler, driver, landed, entries >>

-----------------------------------------------------------------------------
(* Reconciler: reconcile_prepared and settle.                               *)

ScanUnknown(r, k) ==
    LET s == effects[k].status
    IN  /\ reconciler[r] = NoLookup
        /\ s.state = "unknown"
        /\ reconciler' = [reconciler EXCEPT ![r] =
             [NoLookup EXCEPT !.pc = "query", !.k = k, !.rev = Revision(effects[k]),
                              !.lease = s.lease, !.attempt = s.attempt]]
        /\ UNCHANGED << effects, now, worker, driver, target >>

\* The authoritative answers of connector.query; a policy refusal, an error, a
\* timeout, invalid evidence and StillUnknown leave the ledger alone (GiveUp).
Evidence(l) ==
    IF l \in landed THEN {<< "ReconcileApplied", NoDelay >>}
    ELSE IF l \in inFlight THEN {}
    ELSE {<< "ReconcileNotApplied", d >> : d \in RetryDelays \cup {NoDelay}}

Query(r) ==
    LET s == reconciler[r]
    IN  /\ s.pc = "query"
        /\ \E e \in Evidence(s.lease) :
              reconciler' = [reconciler EXCEPT ![r] =
                 [s EXCEPT !.pc = "settle", !.kind = e[1], !.delay = e[2]]]
        /\ UNCHANGED << effects, now, worker, driver, target >>

GiveUp(r) ==
    /\ reconciler[r] # NoLookup
    /\ reconciler' = [reconciler EXCEPT ![r] = NoLookup]
    /\ UNCHANGED << effects, now, worker, driver, target >>

\* Faulty variant: the next attempt is named instead of the uncertain one.
ReconcileNextAttempt(s) ==
    Command(<< s.kind, s.lease, s.rev, s.delay >>, s.kind, s.lease, s.attempt + 1,
            IF s.kind = "ReconcileApplied" THEN now ELSE NoRetry)

ReconcileCommand(s) ==
    Command(<< s.kind, s.lease, s.rev, s.delay >>, s.kind, s.lease, s.attempt,
            IF s.kind = "ReconcileApplied" THEN now
            ELSE IF s.delay = NoDelay THEN NoRetry ELSE now + s.delay)

\* The settlement names the scanned revision; a retry time that overflows is
\* invalid evidence.
SettleUnknown(r) ==
    LET s == reconciler[r]
        cmd == ReconcileCommand(s)
    IN  /\ s.pc = "settle"
        /\ reconciler' = [reconciler EXCEPT ![r] = NoLookup]
        /\ \/ cmd.ms <= MaxTime /\ ApplyAs(s.k, s.rev, cmd, now, HostActor)
           \/ /\ cmd.ms > MaxTime \/ Reply(s.k, s.rev, cmd, now, HostActor) # "applied"
              /\ UNCHANGED effects
        /\ UNCHANGED << now, worker, driver, target >>

-----------------------------------------------------------------------------
(* Temporal Driver: tick_as scans due leases first, then expires each one   *)
(* at the tick's time and the scanned revision.                             *)

\* Faulty variant: the tick names the revision before the one it scanned.
ScanDueStale(d, k) ==
    /\ driver[d] = NoDue
    /\ effects[k].status.state = "claimed"
    /\ effects[k].status.expires <= now
    /\ driver' = [driver EXCEPT ![d] =
         [k |-> k, rev |-> Revision(effects[k]) - 1,
          lease |-> effects[k].status.lease, at |-> now]]
    /\ UNCHANGED << effects, now, worker, reconciler, target >>

ScanDue(d, k) ==
    LET s == effects[k].status
    IN  /\ driver[d] = NoDue
        /\ s.state = "claimed"
        /\ s.expires <= now
        /\ driver' = [driver EXCEPT ![d] =
             [k |-> k, rev |-> Revision(effects[k]), lease |-> s.lease, at |-> now]]
        /\ UNCHANGED << effects, now, worker, reconciler, target >>

Expire(d) ==
    LET s == driver[d]
        cmd == Command(<< "expire", s.lease >>, "ExpireLease", s.lease, 0, 0)
    IN  /\ s # NoDue
        /\ driver' = [driver EXCEPT ![d] = NoDue]
        /\ \/ ApplyAs(s.k, s.rev, cmd, s.at, HostActor)
           \/ /\ Reply(s.k, s.rev, cmd, s.at, HostActor) # "applied"
              /\ UNCHANGED effects
        /\ UNCHANGED << now, worker, reconciler, target >>

-----------------------------------------------------------------------------
ExecNext ==
    \/ Tick
    \/ \E k \in EffectKeys : CreateEffect(k) \/ CancelEffect(k)
    \/ \E w \in Workers :
         \/ \E k \in EffectKeys, cycle \in Cycles : Scan(w, k, cycle)
         \/ Authorize(w) \/ CommitClaim(w) \/ Admit(w) \/ CancelDispatch(w)
         \/ Enter(w) \/ Return(w) \/ Settle(w) \/ Stop(w)
    \/ \E l \in inFlight : Land(l) \/ Drop(l)
    \/ \E r \in Reconcilers :
         \/ \E k \in EffectKeys : ScanUnknown(r, k)
         \/ Query(r) \/ GiveUp(r) \/ SettleUnknown(r)
    \/ \E d \in Drivers :
         \/ \E k \in EffectKeys : ScanDue(d, k)
         \/ Expire(d)

ExecSpec == ExecInit /\ [][ExecNext]_execVars

\* An answer that settles the attempt whatever its number: at the attempt limit
\* settled_not_applied refuses every answer that asks for a retry.
FinalQuery(r) == Query(r) /\ reconciler'[r].delay = NoDelay
FinalSettle(r) == SettleUnknown(r) /\ reconciler[r].delay = NoDelay

\* The host keeps calling tick and the reconciler's run_once, the clock
\* advances, the target decides each request, and repeated lookups are at last
\* answered and settled.  Executor workers get no fairness: they may stop.
Fairness ==
    /\ WF_execVars(Tick)
    /\ \A d \in Drivers : /\ WF_execVars(\E k \in EffectKeys : ScanDue(d, k))
                          /\ WF_execVars(Expire(d))
    /\ \A l \in LeaseIds : WF_execVars(Land(l) \/ Drop(l))
    /\ \A r \in Reconcilers :
         /\ WF_execVars(\E k \in EffectKeys : ScanUnknown(r, k))
         /\ WF_execVars(SettleUnknown(r) \/ GiveUp(r))
         /\ SF_execVars(FinalQuery(r))
         /\ SF_execVars(FinalSettle(r))

FairExecSpec == ExecSpec /\ Fairness

-----------------------------------------------------------------------------
(* Properties.                                                              *)

Kinds == {"none", "RecordApplied", "RecordNotApplied", "RecordUnknown",
          "ReconcileApplied", "ReconcileNotApplied"}

\* A connector is entered at most once for a lease, however often and on how
\* many hosts the sweep that derives this lease runs ("never enter the
\* Connector from the duplicate caller").
EnteredOnce == \A l \in LeaseIds : entries[l] <= 1

LeasesOf(k) ==
    {effects[k].transitions[i].lease :
        i \in {j \in DOMAIN effects[k].transitions : IsClaim(effects[k].transitions[j])}}

\* The ledger tells the truth about the target: an applied effect took effect;
\* a pending, rejected or cancelled one did not and never will, since no
\* request of its claims is in flight.
LedgerIsTrue ==
    \A k \in EffectKeys :
        LET state == effects[k].status.state
        IN  /\ state = "applied" => LeasesOf(k) \cap landed # {}
            /\ state \in {"pending", "rejected", "cancelled"} =>
                 LeasesOf(k) \cap (landed \cup inFlight) = {}

\* The external effect happens at most once even when the target does not
\* suppress duplicates: requests of two attempts are never both accepted.
AtMostOnce ==
    \A k \in EffectKeys : \A l, m \in LeasesOf(k) \cap (landed \cup inFlight) : l = m

\* A claimed effect does not stay claimed, although its worker may crash at
\* any point: the Temporal Driver expires what nobody settles.
ClaimEnds ==
    \A k \in EffectKeys :
        effects[k].status.state = "claimed" ~> effects[k].status.state # "claimed"

\* An uncertain effect is eventually settled by the Reconciler.
UncertaintyEnds ==
    \A k \in EffectKeys :
        effects[k].status.state = "unknown" ~> effects[k].status.state # "unknown"
=============================================================================
