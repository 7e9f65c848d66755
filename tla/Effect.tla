------------------------------- MODULE Effect -------------------------------
(***************************************************************************)
(* The Effect aggregate of src/effect/mod.rs: one external side effect, its *)
(* lifecycle status and the immutable history of the commands that produced *)
(* it.  The module has no variables: it defines what a command does to an   *)
(* aggregate (apply, apply_kind) and how an aggregate read back from        *)
(* storage is re-derived from its history (validate, apply_projected_kind). *)
(*                                                                          *)
(* The payloads, reason codes and receipts' contents are left out: no       *)
(* decision of the code depends on them.  What the code compares is kept:   *)
(* identities, attempts, owners and the millisecond operands of commands.   *)
(***************************************************************************)
EXTENDS Integers, Sequences

CONSTANTS
    Actors,                  \* authorities that issue commands
    LeaseIds,                \* identities a Claim may propose for its lease
    Keys,                    \* (capability, operation, idempotency key) coordinates
    Inputs,                  \* immutable request payloads
    LeaseDurations,          \* durations validate_lease_duration accepts
    MAX_EFFECT_TRANSITIONS,  \* 4096 in the code
    MAX_EFFECT_ATTEMPTS,     \* 1000000 in the code
    MaxTime,                 \* the largest u64: checked_add overflows above it
    NoLease, NoActor, NoKey, NoInput

ASSUME EffectAssumption ==
    /\ MAX_EFFECT_TRANSITIONS \in Nat \ {0}
    /\ MAX_EFFECT_ATTEMPTS \in Nat \ {0}
    /\ MaxTime \in Nat \ {0}
    /\ LeaseDurations \subseteq 1 .. MaxTime
    /\ NoLease \notin LeaseIds
    /\ NoActor \notin Actors
    /\ NoKey \notin Keys

\* Millisecond times validate_application_time accepts.
Times == 1 .. MaxTime

\* retry_at_ms = None.
NoRetry == 0

-----------------------------------------------------------------------------
(* Status: EffectStatus with its payload flattened into one record.         *)

\* The status of an aggregate that was never created.
States == {"absent", "pending", "claimed", "unknown",
           "applied", "rejected", "cancelled"}

Status == [state     : States,
           attempt   : 0 .. MAX_EFFECT_ATTEMPTS,
           lease     : LeaseIds \cup {NoLease},
           owner     : Actors \cup {NoActor},
           expires   : 0 .. MaxTime,
           notBefore : 0 .. MaxTime]

Bare(state, attempt) ==
    [state |-> state, attempt |-> attempt, lease |-> NoLease,
     owner |-> NoActor, expires |-> 0, notBefore |-> 0]

Absent == Bare("absent", 0)
Pending(attempt, notBefore) ==
    [Bare("pending", attempt) EXCEPT !.notBefore = notBefore]
Claimed(lease, owner, attempt, expires) ==
    [state |-> "claimed", attempt |-> attempt, lease |-> lease,
     owner |-> owner, expires |-> expires, notBefore |-> 0]
Unknown(attempt, lease) == [Bare("unknown", attempt) EXCEPT !.lease = lease]
Applied(attempt) == Bare("applied", attempt)
Rejected(attempt) == Bare("rejected", attempt)
Cancelled == Bare("cancelled", 0)

IsTerminal(status) == status.state \in {"applied", "rejected", "cancelled"}

-----------------------------------------------------------------------------
(* Commands and transitions.  A command is [id, kind, lease, attempt, ms]:   *)
(* `ms' is the lease duration of Claim and RenewLease, the observation time *)
(* of the receipt of the Applied commands and the retry time of the         *)
(* NotApplied ones; fields a kind does not have are NoLease or 0.  A        *)
(* transition is the command with its actor, its trusted time and the       *)
(* attempt it concerned.  The creation transition has kind "Create" and     *)
(* keeps not_before_ms in `ms'.                                             *)

CommandKinds == {"Claim", "RenewLease", "RecordApplied", "RecordNotApplied",
                 "RecordUnknown", "ExpireLease", "ReconcileApplied",
                 "ReconcileNotApplied", "Cancel"}

ReconcileKinds == {"ReconcileApplied", "ReconcileNotApplied"}

Command(id, kind, lease, attempt, ms) ==
    [id |-> id, kind |-> kind, lease |-> lease, attempt |-> attempt, ms |-> ms]

Transition(cmd, actor, now, attempt) ==
    [id |-> cmd.id, kind |-> cmd.kind, lease |-> cmd.lease,
     attempt |-> attempt, ms |-> cmd.ms, actor |-> actor, at |-> now]

\* transition_command_kind: the command a transition was produced by.
TransitionCommand(t) ==
    Command(t.id, t.kind, t.lease,
            IF t.kind \in ReconcileKinds THEN t.attempt ELSE 0, t.ms)

NoEffect == [key |-> NoKey, input |-> NoInput,
             status |-> Absent, transitions |-> << >>]

\* Effect::new: transition 1 and the status it creates.
NewEffect(id, key, input, notBefore, actor, now) ==
    [key |-> key, input |-> input, status |-> Pending(1, notBefore),
     transitions |->
        << Transition(Command(id, "Create", NoLease, 0, notBefore),
                      actor, now, 0) >>]

Revision(effect) == Len(effect.transitions)

\* The times of the last transition; commands may not be older.
LastAt(effect) == effect.transitions[Revision(effect)].at

\* Effect::create_matches, within one tenant.
CreateMatches(effect, id, key, input, notBefore, actor) ==
    LET first == effect.transitions[1]
    IN  /\ first.id = id
        /\ first.actor = actor
        /\ first.ms = notBefore
        /\ effect.key = key
        /\ effect.input = input

\* Effect::recognizes_command finds a transition with the command's identity;
\* an equal digest makes the command a duplicate, a different one an error.
KnownId(effect, id) ==
    \E i \in DOMAIN effect.transitions : effect.transitions[i].id = id

Recognizes(effect, cmd, actor) ==
    \E i \in DOMAIN effect.transitions :
        /\ effect.transitions[i].actor = actor
        /\ TransitionCommand(effect.transitions[i]) = cmd

-----------------------------------------------------------------------------
(* apply_kind: what each command requires and the status it leads to.       *)

\* Faulty variant: the expiration instant still belongs to the owner.
ActiveOwnedLeaseInclusive(status, lease, actor, now) ==
    /\ status.state = "claimed"
    /\ status.lease = lease
    /\ status.owner = actor
    /\ now <= status.expires

ActiveOwnedLease(status, lease, actor, now) ==
    /\ status.state = "claimed"
    /\ status.lease = lease
    /\ status.owner = actor
    /\ now < status.expires

\* Faulty variant: any uncertain attempt may be reconciled.
ValidateUnknownAny(status, lease, attempt) == status.state = "unknown"

ValidateUnknown(status, lease, attempt) ==
    /\ status.state = "unknown"
    /\ status.lease = lease
    /\ status.attempt = attempt

\* Faulty variant: a lease identity may be claimed again.
ValidateNewLeaseIdNever(transitions, lease) == TRUE

ValidateNewLeaseId(transitions, lease) ==
    \A i \in DOMAIN transitions :
        ~ (transitions[i].kind = "Claim" /\ transitions[i].lease = lease)

\* validate_retry_time with the attempt bound of settled_not_applied.
RetryAllowed(attempt, retryAt, now) ==
    retryAt # NoRetry => retryAt >= now /\ attempt + 1 <= MAX_EFFECT_ATTEMPTS

SettledNotApplied(attempt, retryAt) ==
    IF retryAt = NoRetry THEN Rejected(attempt) ELSE Pending(attempt + 1, retryAt)

LeaseExpiration(now, duration) == now + duration

\* Only a never-claimed pending Effect may be cancelled.
NeverClaimed(status) == status.state = "pending" /\ status.attempt = 1

Accepts(effect, cmd, now, actor) ==
    LET s == effect.status
        owned == ActiveOwnedLease(s, cmd.lease, actor, now)
        uncertain == ValidateUnknown(s, cmd.lease, cmd.attempt)
    IN  CASE cmd.kind = "Claim" ->
               /\ s.state = "pending"
               /\ now >= s.notBefore
               /\ ValidateNewLeaseId(effect.transitions, cmd.lease)
               /\ cmd.ms \in LeaseDurations
               /\ LeaseExpiration(now, cmd.ms) <= MaxTime
          [] cmd.kind = "RenewLease" ->
               /\ owned
               /\ cmd.ms \in LeaseDurations
               /\ LeaseExpiration(now, cmd.ms) <= MaxTime
               /\ LeaseExpiration(now, cmd.ms) > s.expires
          [] cmd.kind = "RecordApplied" -> owned /\ cmd.ms <= now
          [] cmd.kind = "RecordNotApplied" ->
               owned /\ RetryAllowed(s.attempt, cmd.ms, now)
          [] cmd.kind = "RecordUnknown" -> owned
          [] cmd.kind = "ExpireLease" ->
               /\ s.state = "claimed"
               /\ s.lease = cmd.lease
               /\ now >= s.expires
          [] cmd.kind = "ReconcileApplied" -> uncertain /\ cmd.ms <= now
          [] cmd.kind = "ReconcileNotApplied" ->
               uncertain /\ RetryAllowed(s.attempt, cmd.ms, now)
          [] cmd.kind = "Cancel" -> NeverClaimed(s)

\* Faulty variant: an expired or uncertain attempt is queued again.
UncertainRequeued(status, cmd, now) == Pending(status.attempt + 1, now)

\* The status RecordUnknown and ExpireLease lead to.
Uncertain(status, cmd, now) == Unknown(status.attempt, cmd.lease)

NextStatus(status, cmd, now, actor) ==
    CASE cmd.kind = "Claim" ->
           Claimed(cmd.lease, actor, status.attempt,
                   LeaseExpiration(now, cmd.ms))
      [] cmd.kind = "RenewLease" ->
           [status EXCEPT !.expires = LeaseExpiration(now, cmd.ms)]
      [] cmd.kind \in {"RecordApplied", "ReconcileApplied"} ->
           Applied(status.attempt)
      [] cmd.kind \in {"RecordNotApplied", "ReconcileNotApplied"} ->
           SettledNotApplied(status.attempt, cmd.ms)
      [] cmd.kind \in {"RecordUnknown", "ExpireLease"} ->
           Uncertain(status, cmd, now)
      [] cmd.kind = "Cancel" -> Cancelled

\* Effect::apply on a command that is not recognized.  Its closing call of
\* validate() is the invariant HistoryValid of EffectLedger: it never refuses.
CanApply(effect, cmd, now, actor) ==
    /\ Revision(effect) < MAX_EFFECT_TRANSITIONS
    /\ now >= LastAt(effect)
    /\ Accepts(effect, cmd, now, actor)

AppliedTo(effect, cmd, now, actor) ==
    [key |-> effect.key, input |-> effect.input,
     status |-> NextStatus(effect.status, cmd, now, actor),
     transitions |-> Append(effect.transitions, Transition(cmd, actor, now,
        IF cmd.kind = "Cancel" THEN 0 ELSE effect.status.attempt))]

-----------------------------------------------------------------------------
(* validate: the status re-derived from the history alone.  Its rules are a *)
(* second implementation of the ones above (apply_projected_kind), run on   *)
(* every load from storage.                                                 *)

\* The replay has refused a transition.
Invalid == Bare("absent", 1)

ProjectedOwnedLease(status, t) ==
    /\ ActiveOwnedLease(status, t.lease, t.actor, t.at)
    /\ status.attempt = t.attempt

ProjectedUncertain(status, t) == ValidateUnknown(status, t.lease, t.attempt)

\* The transition t, the i-th one, replayed on the status of those before it.
ProjectTransition(transitions, i, status) ==
    LET t == transitions[i]
        \* BTreeSet::insert of the lease identity
        newLease == \A j \in 1 .. i - 1 :
                      ~ (transitions[j].kind = "Claim" /\ transitions[j].lease = t.lease)
        next(ok, s) == IF ok THEN s ELSE Invalid
    IN  CASE t.kind = "Create" ->
               next(i = 1 /\ t.ms \in Times, Pending(1, t.ms))
          [] t.kind = "Claim" ->
               next(/\ status.state = "pending"
                    /\ t.at >= status.notBefore
                    /\ t.attempt = status.attempt
                    /\ t.ms \in LeaseDurations
                    /\ newLease,
                    Claimed(t.lease, t.actor, t.attempt, LeaseExpiration(t.at, t.ms)))
          [] t.kind = "RenewLease" ->
               next(/\ ProjectedOwnedLease(status, t)
                    /\ t.ms \in LeaseDurations
                    /\ LeaseExpiration(t.at, t.ms) > status.expires,
                    [status EXCEPT !.expires = LeaseExpiration(t.at, t.ms)])
          [] t.kind = "RecordApplied" ->
               next(ProjectedOwnedLease(status, t) /\ t.ms <= t.at, Applied(t.attempt))
          [] t.kind = "ReconcileApplied" ->
               next(ProjectedUncertain(status, t) /\ t.ms <= t.at, Applied(t.attempt))
          [] t.kind = "RecordNotApplied" ->
               next(ProjectedOwnedLease(status, t) /\ RetryAllowed(t.attempt, t.ms, t.at),
                    SettledNotApplied(t.attempt, t.ms))
          [] t.kind = "ReconcileNotApplied" ->
               next(ProjectedUncertain(status, t) /\ RetryAllowed(t.attempt, t.ms, t.at),
                    SettledNotApplied(t.attempt, t.ms))
          [] t.kind = "RecordUnknown" ->
               next(ProjectedOwnedLease(status, t), Unknown(t.attempt, t.lease))
          [] t.kind = "ExpireLease" ->
               next(/\ status.state = "claimed"
                    /\ status.lease = t.lease
                    /\ status.attempt = t.attempt
                    /\ t.at >= status.expires,
                    Unknown(t.attempt, t.lease))
          [] t.kind = "Cancel" ->
               next(status.state = "pending" /\ status.attempt = 1, Cancelled)

Projection(transitions) ==
    LET p[i \in 0 .. Len(transitions)] ==
          IF i = 0 THEN Absent
          ELSE ProjectTransition(transitions, i, p[i - 1])
    IN  p[Len(transitions)]

Validate(effect) ==
    LET tr == effect.transitions
    IN  /\ Len(tr) \in 1 .. MAX_EFFECT_TRANSITIONS
        /\ \A i, j \in DOMAIN tr : i < j => tr[i].at <= tr[j].at
        /\ \A i, j \in DOMAIN tr : i # j => tr[i].id # tr[j].id
        /\ Projection(tr) = effect.status
=============================================================================
