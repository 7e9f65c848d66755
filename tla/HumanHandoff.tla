---------------------------- MODULE HumanHandoff ----------------------------
(***************************************************************************)
(* Human Handoff cases: the aggregate of src/human_handoff/mod.rs and the   *)
(* store of src/human_handoff/coordinator.rs.  A case waits in an operator  *)
(* queue, is claimed under a lease by one operator, and is resolved by that *)
(* operator, released, expired by anybody once the lease is over, or        *)
(* cancelled.  Reasons, outcomes and summaries are left out.  Times are     *)
(* small: lease_expiration cannot overflow.                                 *)
(***************************************************************************)
EXTENDS Integers, Sequences, FiniteSets

CONSTANTS
    CaseIds,                       \* ordered: scans page through them
    ClaimIds, Operators,
    Priorities,
    HandoffLeases,                 \* durations validate_lease_duration accepts
    MAX_HANDOFF_WORK_TRANSITIONS   \* 4096 in the code

ASSUME HandoffAssumption ==
    /\ CaseIds \subseteq Nat \ {0}
    /\ ClaimIds \subseteq Nat \ {0}
    /\ MAX_HANDOFF_WORK_TRANSITIONS \in Nat \ {0}
    /\ HandoffLeases \subseteq Nat \ {0}

\* A priority is a u8, and the store holds finitely many cases.
ASSUME QueueAssumption == IsFiniteSet(CaseIds) /\ Priorities \subseteq Nat

HANDOFF_SETTLEMENT_TRANSITION_RESERVE == 2
MAX_HANDOFF_TRANSITIONS ==
    MAX_HANDOFF_WORK_TRANSITIONS + HANDOFF_SETTLEMENT_TRANSITION_RESERVE

VARIABLE cases                     \* [CaseIds -> case or NoCase]

-----------------------------------------------------------------------------
(* Commands and cases.  A transition is a command with its actor, its time  *)
(* and, for a renewal, the expiry it replaced.                              *)

NoClaim == [id |-> 0, owner |-> "", expires |-> 0]

HandoffCommand(id, kind, claim, lease) ==
    [id |-> id, kind |-> kind, claim |-> claim, lease |-> lease]

Recorded(cmd, actor, now, previous) ==
    [command |-> cmd, actor |-> actor, at |-> now, previous |-> previous]

NoCase == [status |-> "Absent", claim |-> NoClaim, priority |-> 0,
           requestedAt |-> 0, transitions |-> << >>]

CaseExists(case) == case.status # "Absent"
CaseOpen == {"Queued", "Claimed"}
CaseRevision(case) == Len(case.transitions)

\* HumanHandoff::new
NewCase(id, priority, actor, now) ==
    [status |-> "Queued", claim |-> NoClaim, priority |-> priority,
     requestedAt |-> now,
     transitions |-> << Recorded(HandoffCommand(id, "Create", 0, priority), actor, now, 0) >>]

\* recognizes_command: the digest covers the actor, so a second operator that
\* reuses an identity is refused and never told it succeeded.
KnownCaseId(case, id) ==
    \E i \in DOMAIN case.transitions : case.transitions[i].command.id = id
RecognizesCase(case, cmd, actor) ==
    \E i \in DOMAIN case.transitions :
        case.transitions[i].command = cmd /\ case.transitions[i].actor = actor

SettlesCase(kind) == kind \in {"ReleaseClaim", "ExpireClaim", "Resolve", "Cancel"}

\* Faulty variant: work may use the last transitions.
CaseCapacityLeftAll(n, kind) == n < MAX_HANDOFF_TRANSITIONS

\* validate_transition_capacity
CaseCapacityLeft(n, kind) ==
    /\ n < MAX_HANDOFF_TRANSITIONS
    /\ SettlesCase(kind) \/ n < MAX_HANDOFF_WORK_TRANSITIONS

\* validate_new_claim_id
NewClaimId(case, claim) ==
    \A i \in DOMAIN case.transitions :
        LET c == case.transitions[i].command
        IN  c.kind = "Claim" => c.claim # claim

\* Faulty variant: the claim is compared and its owner is not.
ActiveOwnedClaimAnyone(case, claim, actor, now) ==
    /\ case.status = "Claimed"
    /\ case.claim.id = claim
    /\ now < case.claim.expires

\* active_owned_claim, and validate_projected_owner in the replay
ActiveOwnedClaim(case, claim, actor, now) ==
    /\ case.status = "Claimed"
    /\ case.claim.id = claim
    /\ case.claim.owner = actor
    /\ now < case.claim.expires

-----------------------------------------------------------------------------
(* apply_kind                                                               *)

CaseAccepts(case, cmd, actor, now) ==
    CASE cmd.kind = "Claim" ->
           /\ case.status = "Queued"
           /\ NewClaimId(case, cmd.claim)
           /\ cmd.lease \in HandoffLeases
      [] cmd.kind = "RenewClaim" ->
           /\ cmd.lease \in HandoffLeases
           /\ ActiveOwnedClaim(case, cmd.claim, actor, now)
           /\ now + cmd.lease > case.claim.expires
      [] cmd.kind \in {"ReleaseClaim", "Resolve"} ->
           ActiveOwnedClaim(case, cmd.claim, actor, now)
      [] cmd.kind = "ExpireClaim" ->
           /\ case.status = "Claimed"
           /\ case.claim.id = cmd.claim
           /\ now >= case.claim.expires
      [] cmd.kind = "Cancel" -> case.status \in CaseOpen

CaseNextStatus(cmd) ==
    CASE cmd.kind \in {"Claim", "RenewClaim"} -> "Claimed"
      [] cmd.kind \in {"ReleaseClaim", "ExpireClaim"} -> "Queued"
      [] cmd.kind = "Resolve" -> "Resolved"
      [] cmd.kind = "Cancel" -> "Cancelled"

CaseNextClaim(cmd, actor, now) ==
    IF cmd.kind \in {"Claim", "RenewClaim"}
    THEN [id |-> cmd.claim, owner |-> actor, expires |-> now + cmd.lease]
    ELSE NoClaim

\* HumanHandoff::apply on a command that is not recognized.  Its closing call
\* of validate() never refuses: that is the invariant CaseReplays.
CaseCanApply(case, cmd, actor, now) ==
    /\ CaseCapacityLeft(CaseRevision(case), cmd.kind)
    /\ now >= case.transitions[CaseRevision(case)].at
    /\ CaseAccepts(case, cmd, actor, now)

CaseAppliedTo(case, cmd, actor, now) ==
    [case EXCEPT
       !.status = CaseNextStatus(cmd),
       !.claim = CaseNextClaim(cmd, actor, now),
       !.transitions = Append(@, Recorded(cmd, actor, now,
           IF cmd.kind = "RenewClaim" THEN case.claim.expires ELSE 0))]

-----------------------------------------------------------------------------
(* validate: the case re-derived from its transitions on every load.        *)

CaseRefused == [NoCase EXCEPT !.priority = -1]

\* Transition i replayed on the projection p of those before it.
ProjectCaseTransition(tr, i, p) ==
    LET t  == tr[i]
        c  == t.command
        ok ==
          CASE c.kind = "Create" -> i = 1
            [] c.kind = "Claim" ->
                 /\ p.status = "Queued"
                 /\ c.lease \in HandoffLeases
                 /\ \A j \in 1 .. i - 1 :
                      tr[j].command.kind = "Claim" => tr[j].command.claim # c.claim
            [] c.kind = "RenewClaim" ->
                 /\ c.lease \in HandoffLeases
                 /\ p.status = "Claimed"
                 /\ p.claim.id = c.claim
                 /\ p.claim.owner = t.actor
                 /\ p.claim.expires = t.previous
                 /\ t.at < p.claim.expires
                 /\ t.at + c.lease > p.claim.expires
            [] c.kind \in {"ReleaseClaim", "Resolve"} ->
                 /\ p.status = "Claimed"
                 /\ p.claim.id = c.claim
                 /\ p.claim.owner = t.actor
                 /\ t.at < p.claim.expires
            [] c.kind = "ExpireClaim" ->
                 p.status = "Claimed" /\ p.claim.id = c.claim /\ t.at >= p.claim.expires
            [] c.kind = "Cancel" -> p.status \in CaseOpen
    IN  IF ~ ok \/ p = CaseRefused THEN CaseRefused
        ELSE IF c.kind = "Create"
             THEN [NoCase EXCEPT !.status = "Queued", !.priority = c.lease,
                                 !.requestedAt = t.at]
             ELSE [p EXCEPT !.status = CaseNextStatus(c),
                            !.claim = CaseNextClaim(c, t.actor, t.at)]

CaseProjection(tr) ==
    LET p[i \in 0 .. Len(tr)] ==
          IF i = 0 THEN NoCase ELSE ProjectCaseTransition(tr, i, p[i - 1])
    IN  p[Len(tr)]

ValidateCase(case) ==
    LET tr == case.transitions
    IN  /\ Len(tr) \in 1 .. MAX_HANDOFF_TRANSITIONS
        /\ \A i, j \in DOMAIN tr : i < j =>
             /\ tr[i].at <= tr[j].at
             /\ tr[i].command.id # tr[j].command.id
        /\ \A i \in DOMAIN tr :
             ~ SettlesCase(tr[i].command.kind) => i <= MAX_HANDOFF_WORK_TRANSITIONS
        /\ CaseProjection(tr) = [case EXCEPT !.transitions = << >>]

-----------------------------------------------------------------------------
(* The coordinator.                                                         *)

HandoffInit == cases = [h \in CaseIds |-> NoCase]

\* create_as; the engine's look at the subject is external.  An existing case
\* is returned or refused and not changed.
CreateCase(h, priority, actor, now) ==
    /\ ~ CaseExists(cases[h])
    /\ cases' = [cases EXCEPT ![h] = NewCase(<< "caller", 1 >>, priority, actor, now)]

\* What apply_as answers; only "applied" changes the store.
CaseReply(case, revision, cmd, actor, now) ==
    IF ~ CaseExists(case) THEN "missing"
    ELSE IF RecognizesCase(case, cmd, actor) THEN "duplicate"
    ELSE IF KnownCaseId(case, cmd.id) THEN "reused"
    ELSE IF CaseRevision(case) # revision THEN "conflict"
    ELSE IF CaseCanApply(case, cmd, actor, now) THEN "applied" ELSE "refused"

ApplyCase(h, revision, cmd, actor, now) ==
    /\ CaseReply(cases[h], revision, cmd, actor, now) = "applied"
    /\ cases' = [cases EXCEPT ![h] = CaseAppliedTo(@, cmd, actor, now)]

\* A caller's next identity: fresh, or that of the last command when it retries.
SubmitCase(h, kind, claim, lease, actor, now) ==
    \E n \in {CaseRevision(cases[h]), CaseRevision(cases[h]) + 1} :
        ApplyCase(h, CaseRevision(cases[h]),
                  HandoffCommand(<< "caller", n >>, kind, claim, lease), actor, now)

\* The claim an operator proposes: the next identity, or the last one again.
ProposedClaims(case) ==
    LET n == Cardinality({i \in DOMAIN case.transitions :
                            case.transitions[i].command.kind = "Claim"})
    IN  {n, n + 1} \cap ClaimIds

Claim(h, actor, now) ==
    \E claim \in ProposedClaims(cases[h]), lease \in HandoffLeases :
        SubmitCase(h, "Claim", claim, lease, actor, now)

RenewClaim(h, actor, now) ==
    \E claim \in ClaimIds, lease \in HandoffLeases :
        SubmitCase(h, "RenewClaim", claim, lease, actor, now)

ReleaseClaim(h, actor, now) ==
    \E claim \in ClaimIds : SubmitCase(h, "ReleaseClaim", claim, 0, actor, now)

Resolve(h, actor, now) ==
    \E claim \in ClaimIds : SubmitCase(h, "Resolve", claim, 0, actor, now)

CancelCase(h, actor, now) == SubmitCase(h, "Cancel", 0, 0, actor, now)

\* ExpireClaim by any actor that names the claim; the Temporal Driver is one.
Temporal == "temporal"

ExpireCommand(claim) ==
    HandoffCommand(<< "handoff-expire", claim >>, "ExpireClaim", claim, 0)

ExpireClaim(h, revision, claim, actor, now) ==
    ApplyCase(h, revision, ExpireCommand(claim), actor, now)

CaseNext(h, actor, now) ==
    \/ \E priority \in Priorities : CreateCase(h, priority, actor, now)
    \/ Claim(h, actor, now)
    \/ RenewClaim(h, actor, now)
    \/ ReleaseClaim(h, actor, now)
    \/ Resolve(h, actor, now)
    \/ CancelCase(h, actor, now)

HandoffNext ==
    \E h \in CaseIds, now \in Nat \ {0} :
        \/ \E actor \in Operators : CaseNext(h, actor, now)
        \/ \E actor \in Operators \cup {Temporal} :
             ExpireClaim(h, CaseRevision(cases[h]), cases[h].claim.id, actor, now)

HandoffSpec == HandoffInit /\ [][HandoffNext]_cases

-----------------------------------------------------------------------------
(* list_queued_as: one page of a queue after a cursor.                      *)

Queued == {h \in CaseIds : cases[h].status = "Queued"}

\* queue_order
BeforeInQueue(g, h) ==
    \/ cases[g].priority > cases[h].priority
    \/ /\ cases[g].priority = cases[h].priority
       /\ \/ cases[g].requestedAt < cases[h].requestedAt
          \/ cases[g].requestedAt = cases[h].requestedAt /\ g < h

\* Faulty variant: cases asked for in the same millisecond are one position.
ComesAfterByTime(h, c) ==
    \/ cases[h].priority < cases[c].priority
    \/ /\ cases[h].priority = cases[c].priority
       /\ cases[h].requestedAt > cases[c].requestedAt

\* comes_after
ComesAfter(h, c) ==
    \/ cases[h].priority < cases[c].priority
    \/ /\ cases[h].priority = cases[c].priority
       /\ \/ cases[h].requestedAt > cases[c].requestedAt
          \/ cases[h].requestedAt = cases[c].requestedAt /\ h > c

\* page_from_candidates; a cursor is the set with the last listed case in it.
QueuePage(cursor, limit) ==
    LET candidates == {h \in Queued : \A c \in cursor : ComesAfter(h, c)}
    IN  {h \in candidates :
           Cardinality({g \in candidates : BeforeInQueue(g, h)}) < limit}

NextCursor(page) == {h \in page : \A g \in page \ {h} : BeforeInQueue(g, h)}

-----------------------------------------------------------------------------
(* Properties.                                                              *)

\* Every stored case is one that validate() accepts when it is read back: the
\* claim, its owner and its lease follow from the transitions alone.
CaseReplays == \A h \in CaseIds : CaseExists(cases[h]) => ValidateCase(cases[h])

\* A case that is not terminal has room to be cancelled, and a claimed one to
\* be released or expired and then cancelled.
CaseReserve ==
    \A h \in CaseIds :
        /\ cases[h].status \in CaseOpen =>
             CaseCapacityLeft(CaseRevision(cases[h]), "Cancel")
        /\ cases[h].status = "Claimed" =>
             CaseCapacityLeft(CaseRevision(cases[h]) + 1, "Cancel")

\* What is seen by as many calls of list_queued_as as there are cases, each with
\* the cursor the last one returned.
ListedBy(limit) ==
    LET read[n \in 0 .. Cardinality(CaseIds)] ==
          IF n = 0 THEN [seen |-> {}, cursor |-> {}]
          ELSE LET page == QueuePage(read[n - 1].cursor, limit)
               IN  [seen   |-> read[n - 1].seen \cup page,
                    cursor |-> IF page = {} THEN read[n - 1].cursor
                               ELSE NextCursor(page)]
    IN  read[Cardinality(CaseIds)].seen

\* An operator who follows the cursors of list_queued_as sees every queued case
\* and no other, with pages of one and of two cases.
QueueListed == \A limit \in 1 .. 2 : ListedBy(limit) = Queued
=============================================================================
