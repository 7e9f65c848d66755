------------------------- MODULE EffectLedgerProofs -------------------------
(***************************************************************************)
(* Proofs about EffectLedger, for every set of actors, tenants, effects,    *)
(* leases and durations and every bound.                                    *)
(***************************************************************************)
EXTENDS EffectLedger, WellFoundedInduction, TLAPS

\* The commands the actions of Next submit.
Commands == [id : Nat, kind : CommandKinds, lease : LeaseIds \cup {NoLease},
             attempt : 0 .. MAX_EFFECT_ATTEMPTS, ms : 0 .. MaxTime]

\* A step of the ledger creates one aggregate or applies one command to one.
LEMMA NextCases ==
    ASSUME TypeOK, Next
    PROVE  \E k \in EffectKeys, now \in Times, actor \in Actors :
              \/ \E id \in {1}, key \in Keys, input \in Inputs, nb \in Times :
                    CreateAs(k, id, key, input, nb, now, actor)
              \/ \E cmd \in Commands : ApplyAs(k, Revision(effects[k]), cmd, now, actor)
<1>1. PICK k \in EffectKeys, now \in Times, actor \in Actors :
        \/ Create(k, now, actor)
        \/ Claim(k, now, actor)
        \/ RenewLease(k, now, actor)
        \/ RecordApplied(k, now, actor)
        \/ RecordNotApplied(k, now, actor)
        \/ RecordUnknown(k, now, actor)
        \/ ExpireLease(k, now, actor)
        \/ ReconcileApplied(k, now, actor)
        \/ ReconcileNotApplied(k, now, actor)
        \/ Cancel(k, now, actor)
  BY Zenon DEF Next
<1>2. effects[k] \in Effects /\ Revision(effects[k]) \in Nat
  BY DEF TypeOK, Effects, Revision
<1>3. CommandIds(k) \subseteq Nat
  BY <1>2 DEF CommandIds
<1> DEFINE Goal == \E cmd \in Commands :
                      ApplyAs(k, Revision(effects[k]), cmd, now, actor)
<1>4. ASSUME NEW id \in Nat, NEW kind \in CommandKinds,
             NEW lease \in LeaseIds \cup {NoLease},
             NEW attempt \in 0 .. MAX_EFFECT_ATTEMPTS, NEW ms \in 0 .. MaxTime,
             Submit(k, id, kind, lease, attempt, ms, now, actor)
      PROVE  Goal
  <2>1. Command(id, kind, lease, attempt, ms) \in Commands
    BY Zenon DEF Command, Commands
  <2> QED BY Zenon, <2>1, <1>4 DEF Submit
<1>5. Times \subseteq 0 .. MaxTime /\ 0 \in 0 .. MaxTime
      /\ LeaseDurations \subseteq 0 .. MaxTime
      /\ Times \cup {NoRetry} \subseteq 0 .. MaxTime /\ 0 \in 0 .. MAX_EFFECT_ATTEMPTS
      /\ 1 .. MAX_EFFECT_ATTEMPTS \subseteq 0 .. MAX_EFFECT_ATTEMPTS
  BY EffectAssumption DEF Times, NoRetry
<1> HIDE DEF Goal
<1>6. CASE Create(k, now, actor)
  <2>1. PICK id \in CommandIds(k), key \in Keys, input \in Inputs, nb \in Times :
           CreateAs(k, id, key, input, nb, now, actor)
    BY Zenon, <1>6 DEF Create
  <2>2. effects[k].transitions = << >>
    BY Zenon, <2>1 DEF CreateAs, Exists
  <2>3. id = 1
    BY <2>2, <1>2 DEF CommandIds, Revision
  <2> QED BY Zenon, <2>1, <2>3
<1>7. CASE Claim(k, now, actor)
  BY Zenon, <1>3, <1>4, <1>5, <1>7 DEF Claim, CommandKinds, Goal
<1>8. CASE RenewLease(k, now, actor)
  BY Zenon, <1>3, <1>4, <1>5, <1>8 DEF RenewLease, CommandKinds, Goal
<1>9. CASE RecordApplied(k, now, actor)
  BY Zenon, <1>3, <1>4, <1>5, <1>9 DEF RecordApplied, CommandKinds, Goal
<1>10. CASE RecordNotApplied(k, now, actor)
  BY Zenon, <1>3, <1>4, <1>5, <1>10 DEF RecordNotApplied, CommandKinds, Goal
<1>11. CASE RecordUnknown(k, now, actor)
  BY Zenon, <1>3, <1>4, <1>5, <1>11 DEF RecordUnknown, CommandKinds, Goal
<1>12. CASE ExpireLease(k, now, actor)
  BY Zenon, <1>3, <1>4, <1>5, <1>12 DEF ExpireLease, CommandKinds, Goal
<1>13. CASE ReconcileApplied(k, now, actor)
  BY Zenon, <1>3, <1>4, <1>5, <1>13 DEF ReconcileApplied, CommandKinds, Goal
<1>14. CASE ReconcileNotApplied(k, now, actor)
  BY Zenon, <1>3, <1>4, <1>5, <1>14 DEF ReconcileNotApplied, CommandKinds, Goal
<1>15. CASE Cancel(k, now, actor)
  BY Zenon, <1>3, <1>4, <1>5, <1>15 DEF Cancel, CommandKinds, Goal
<1> QED
  BY Zenon, <1>1, <1>6, <1>7, <1>8, <1>9, <1>10, <1>11, <1>12, <1>13, <1>14, <1>15
     DEF Goal

-----------------------------------------------------------------------------
(* Type correctness.                                                        *)

\* The status constructors build well-typed statuses.
LEMMA StatusTypes ==
    ASSUME NEW attempt \in 0 .. MAX_EFFECT_ATTEMPTS, NEW lease \in LeaseIds \cup {NoLease},
           NEW owner \in Actors, NEW time \in 0 .. MaxTime
    PROVE  /\ Absent \in Status
           /\ Pending(attempt, time) \in Status
           /\ Claimed(lease, owner, attempt, time) \in Status
           /\ Unknown(attempt, lease) \in Status
           /\ Applied(attempt) \in Status
           /\ Rejected(attempt) \in Status
           /\ Cancelled \in Status
BY EffectAssumption
   DEF Absent, Pending, Claimed, Unknown, Applied, Rejected, Cancelled, Bare,
       Status, States

\* A command that is accepted leaves a well-typed status.
LEMMA NextStatusType ==
    ASSUME NEW effect \in Effects, NEW cmd \in Commands, NEW now \in Times,
           NEW actor \in Actors, Accepts(effect, cmd, now, actor)
    PROVE  NextStatus(effect.status, cmd, now, actor) \in Status
<1> DEFINE s == effect.status
<1>1. /\ s \in Status
      /\ s.attempt \in 0 .. MAX_EFFECT_ATTEMPTS
      /\ now \in 1 .. MaxTime /\ MaxTime \in Nat /\ MAX_EFFECT_ATTEMPTS \in Nat
  BY Zenon, EffectAssumption DEF Effects, Status, Times
<1>2. /\ cmd.kind \in CommandKinds
      /\ cmd.ms \in 0 .. MaxTime
      /\ cmd.lease \in LeaseIds \cup {NoLease}
  BY Zenon DEF Commands
<1>3. CASE cmd.kind = "Claim"
  <2>1. LeaseExpiration(now, cmd.ms) \in 0 .. MaxTime
    BY <1>1, <1>2, <1>3 DEF Accepts, LeaseExpiration
  <2>2. NextStatus(s, cmd, now, actor)
          = Claimed(cmd.lease, actor, s.attempt, LeaseExpiration(now, cmd.ms))
    BY Zenon, <1>3 DEF NextStatus
  <2> QED BY Zenon, <1>1, <1>2, <2>1, <2>2, StatusTypes
<1>4. CASE cmd.kind = "RenewLease"
  <2>1. LeaseExpiration(now, cmd.ms) \in 0 .. MaxTime
    BY <1>1, <1>2, <1>4 DEF Accepts, LeaseExpiration
  <2>2. NextStatus(s, cmd, now, actor)
          = [s EXCEPT !.expires = LeaseExpiration(now, cmd.ms)]
    BY Zenon, <1>4 DEF NextStatus
  <2> QED BY Zenon, <1>1, <2>1, <2>2 DEF Status
<1>5. CASE cmd.kind \in {"RecordApplied", "ReconcileApplied"}
  <2>1. NextStatus(s, cmd, now, actor) = Applied(s.attempt)
    BY Zenon, <1>5 DEF NextStatus
  <2> QED BY Zenon, <1>1, <1>2, <2>1, StatusTypes
<1>6. CASE cmd.kind \in {"RecordNotApplied", "ReconcileNotApplied"}
  <2>1. NextStatus(s, cmd, now, actor) = SettledNotApplied(s.attempt, cmd.ms)
    BY Zenon, <1>6 DEF NextStatus
  <2>2. RetryAllowed(s.attempt, cmd.ms, now)
    BY Zenon, <1>6 DEF Accepts
  <2>3. CASE cmd.ms = NoRetry
    BY Zenon, <1>1, <1>2, <2>1, <2>3, StatusTypes DEF SettledNotApplied
  <2>4. CASE cmd.ms # NoRetry
    <3>1. s.attempt + 1 \in 0 .. MAX_EFFECT_ATTEMPTS
      BY <1>1, <2>2, <2>4 DEF RetryAllowed
    <3>2. SettledNotApplied(s.attempt, cmd.ms) = Pending(s.attempt + 1, cmd.ms)
      BY Zenon, <2>4 DEF SettledNotApplied
    <3> QED BY Zenon, <1>2, <2>1, <3>1, <3>2, StatusTypes
  <2> QED BY Zenon, <2>3, <2>4
<1>7. CASE cmd.kind \in {"RecordUnknown", "ExpireLease"}
  <2>1. NextStatus(s, cmd, now, actor) = Unknown(s.attempt, cmd.lease)
    BY Zenon, <1>7 DEF NextStatus, Uncertain
  <2> QED BY Zenon, <1>1, <1>2, <2>1, StatusTypes
<1>8. CASE cmd.kind = "Cancel"
  <2>1. NextStatus(s, cmd, now, actor) = Cancelled
    BY Zenon, <1>8 DEF NextStatus
  <2> QED BY Zenon, <1>1, <1>2, <2>1, StatusTypes
<1> QED
  BY Zenon, <1>2, <1>3, <1>4, <1>5, <1>6, <1>7, <1>8 DEF CommandKinds

\* The transition apply records for a command is well typed.
LEMMA TransitionType ==
    ASSUME NEW e \in Effects, NEW cmd \in Commands, NEW now \in Times, NEW actor \in Actors
    PROVE  Transition(cmd, actor, now, IF cmd.kind = "Cancel" THEN 0 ELSE e.status.attempt)
             \in Transitions
<1> DEFINE attempt == IF cmd.kind = "Cancel" THEN 0 ELSE e.status.attempt
<1>1. attempt \in 0 .. MAX_EFFECT_ATTEMPTS
  BY EffectAssumption DEF Effects, Status
<1>2. /\ cmd.id \in Nat /\ cmd.kind \in CommandKinds \cup {"Create"}
      /\ cmd.lease \in LeaseIds \cup {NoLease} /\ cmd.ms \in 0 .. MaxTime
  BY Zenon DEF Commands
<1> HIDE DEF attempt
<1>3. Transition(cmd, actor, now, attempt) \in Transitions
  BY Zenon, <1>1, <1>2 DEF Transition, Transitions
<1> QED BY Zenon, <1>3 DEF attempt

\* What a committed command does to the aggregate it names: the guard of
\* apply held, the status moved and one transition was appended.
LEMMA ApplyEffect ==
    ASSUME TypeOK, NEW k \in EffectKeys, NEW now \in Times, NEW actor \in Actors,
           NEW cmd \in Commands,
           ApplyAs(k, Revision(effects[k]), cmd, now, actor)
    PROVE  LET e == effects[k]
               t == Transition(cmd, actor, now,
                               IF cmd.kind = "Cancel" THEN 0 ELSE e.status.attempt)
           IN  /\ Exists(k)
               /\ CanApply(e, cmd, now, actor)
               /\ t \in Transitions
               /\ effects' = [effects EXCEPT ![k] =
                    [key |-> e.key, input |-> e.input,
                     status |-> NextStatus(e.status, cmd, now, actor),
                     transitions |-> Append(e.transitions, t)]]
<1> DEFINE e == effects[k]
           t == Transition(cmd, actor, now,
                           IF cmd.kind = "Cancel" THEN 0 ELSE e.status.attempt)
<1>1. e \in Effects
  BY Zenon DEF TypeOK
<1>2. /\ Exists(k)
      /\ CanApply(e, cmd, now, actor)
      /\ effects' = [effects EXCEPT ![k] = AppliedTo(e, cmd, now, actor)]
  BY Zenon DEF ApplyAs, Reply
<1>3. AppliedTo(e, cmd, now, actor)
        = [key |-> e.key, input |-> e.input,
           status |-> NextStatus(e.status, cmd, now, actor),
           transitions |-> Append(e.transitions, t)]
  BY Zenon, <1>1 DEF AppliedTo, Effects
<1>4. t \in Transitions
  BY Zenon, <1>1, TransitionType
<1> QED BY Zenon, <1>2, <1>3, <1>4

\* Types are preserved by every step.
LEMMA TypePreserved == TypeOK /\ [Next]_vars => TypeOK'
<1> SUFFICES ASSUME TypeOK, [Next]_vars PROVE TypeOK'
  BY Zenon
<1>1. CASE UNCHANGED vars
  BY Zenon, <1>1 DEF vars, TypeOK, Revision
<1>2. CASE Next
  <2>1. PICK k \in EffectKeys, now \in Times, actor \in Actors :
          \/ \E id \in {1}, key \in Keys, input \in Inputs, nb \in Times :
                CreateAs(k, id, key, input, nb, now, actor)
          \/ \E cmd \in Commands : ApplyAs(k, Revision(effects[k]), cmd, now, actor)
    BY Zenon, <1>2, NextCases
  <2>2. CASE \E id \in {1}, key \in Keys, input \in Inputs, nb \in Times :
                CreateAs(k, id, key, input, nb, now, actor)
    <3>1. PICK key \in Keys, input \in Inputs, nb \in Times :
            CreateAs(k, 1, key, input, nb, now, actor)
      BY Zenon, <2>2
    <3> DEFINE new == NewEffect(1, key, input, nb, actor, now)
    <3> effects' = [effects EXCEPT ![k] = new]
      BY Zenon, <3>1 DEF CreateAs
    <3>2. 1 \in 0 .. MAX_EFFECT_ATTEMPTS /\ nb \in 0 .. MaxTime
      BY EffectAssumption DEF Times
    <3>3. Pending(1, nb) \in Status
      BY Zenon, <3>2, StatusTypes
    <3>4. /\ new \in Effects
          /\ Len(new.transitions) = 1
      BY <3>2, <3>3, EffectAssumption
         DEF NewEffect, Effects, Transitions, Transition, Command
    <3> HIDE DEF new
    <3>5. 1 <= MAX_EFFECT_TRANSITIONS
      BY EffectAssumption
    <3> QED BY Zenon, <3>1, <3>4, <3>5 DEF TypeOK, Revision
  <2>3. CASE \E cmd \in Commands : ApplyAs(k, Revision(effects[k]), cmd, now, actor)
    <3>1. PICK cmd \in Commands : ApplyAs(k, Revision(effects[k]), cmd, now, actor)
      BY Zenon, <2>3
    <3> DEFINE e == effects[k]
               t == Transition(cmd, actor, now,
                               IF cmd.kind = "Cancel" THEN 0 ELSE e.status.attempt)
               st == NextStatus(e.status, cmd, now, actor)
               new == [key |-> e.key, input |-> e.input, status |-> st,
                       transitions |-> Append(e.transitions, t)]
    <3>2. /\ CanApply(e, cmd, now, actor)
          /\ t \in Transitions
          /\ effects' = [effects EXCEPT ![k] = new]
      BY Zenon, <3>1, ApplyEffect
    <3>3. e \in Effects
      BY Zenon DEF TypeOK
    <3>4. st \in Status
      BY Zenon, <3>2, <3>3, NextStatusType DEF CanApply
    <3> HIDE DEF t, st, e
    <3>5. new \in Effects /\ Len(new.transitions) = Len(e.transitions) + 1
      BY <3>2, <3>3, <3>4 DEF Effects
    <3>6. Len(new.transitions) <= MAX_EFFECT_TRANSITIONS
      BY <3>2, <3>3, <3>5, EffectAssumption DEF CanApply, Revision, Effects
    <3> HIDE DEF new
    <3> QED BY Zenon, <3>2, <3>5, <3>6 DEF TypeOK, Revision
  <2> QED BY Zenon, <2>1, <2>2, <2>3
<1> QED BY Zenon, <1>1, <1>2 DEF vars

\* The empty store is well typed.
LEMMA InitType == Init => TypeOK
<1>1. Absent \in Status
  BY EffectAssumption DEF Absent, Bare, Status, States
<1> QED BY <1>1, EffectAssumption DEF Init, TypeOK, NoEffect, Effects, Revision

\* Every aggregate the coordinator holds is well typed and within the
\* transition bound apply checks, for any number of tenants and actors.
THEOREM TypeCorrect == Spec => []TypeOK
BY InitType, TypePreserved, PTL DEF Spec

-----------------------------------------------------------------------------
(* The history: what the status says of the attempts recorded so far.       *)

\* What apply_kind requires of the status and what it makes of it, reduced to
\* the state, the lease and the attempt.
LEMMA KindCases ==
    ASSUME NEW effect \in Effects, NEW cmd \in Commands, NEW now \in Times,
           NEW actor \in Actors, Accepts(effect, cmd, now, actor)
    PROVE  LET s == effect.status
               n == NextStatus(s, cmd, now, actor)
           IN  \/ /\ cmd.kind = "Claim"
                  /\ s.state = "pending"
                  /\ n.state = "claimed" /\ n.lease = cmd.lease /\ n.attempt = s.attempt
               \/ /\ cmd.kind = "RenewLease"
                  /\ s.state = "claimed"
                  /\ n.state = "claimed" /\ n.lease = s.lease /\ n.attempt = s.attempt
               \/ /\ cmd.kind \in UncertainKinds
                  /\ s.state = "claimed" /\ s.lease = cmd.lease
                  /\ n.state = "unknown" /\ n.lease = s.lease /\ n.attempt = s.attempt
               \/ /\ cmd.kind \in AppliedKinds
                  /\ s.state \in {"claimed", "unknown"} /\ s.lease = cmd.lease
                  /\ s.state = "unknown" =>
                       cmd.kind \in ReconcileKinds /\ cmd.attempt = s.attempt
                  /\ n.state = "applied"
               \/ /\ cmd.kind \in NotAppliedKinds
                  /\ s.state \in {"claimed", "unknown"} /\ s.lease = cmd.lease
                  /\ s.state = "unknown" =>
                       cmd.kind \in ReconcileKinds /\ cmd.attempt = s.attempt
                  /\ \/ cmd.ms = NoRetry /\ n.state = "rejected"
                     \/ cmd.ms # NoRetry /\ n.state = "pending" /\ n.attempt = s.attempt + 1
               \/ /\ cmd.kind = "Cancel"
                  /\ s.state = "pending"
                  /\ n.state = "cancelled"
<1> DEFINE s == effect.status
           n == NextStatus(s, cmd, now, actor)
<1>1. cmd.kind \in CommandKinds /\ s \in Status
  BY Zenon DEF Commands, Effects
<1> USE DEF UncertainKinds, AppliedKinds, NotAppliedKinds, ReconcileKinds, Bare
<1>2. CASE cmd.kind = "Claim"
  BY Zenon, <1>2 DEF Accepts, NextStatus, Claimed
<1>3. CASE cmd.kind = "RenewLease"
  BY Zenon, <1>1, <1>3 DEF Accepts, NextStatus, ActiveOwnedLease, Status
<1>4. CASE cmd.kind \in {"RecordApplied", "ReconcileApplied"}
  BY Zenon, <1>4 DEF Accepts, NextStatus, ActiveOwnedLease, ValidateUnknown, Applied
<1>5. CASE cmd.kind \in {"RecordNotApplied", "ReconcileNotApplied"}
  BY Zenon, <1>5 DEF Accepts, NextStatus, ActiveOwnedLease, ValidateUnknown,
              SettledNotApplied, Rejected, Pending
<1>6. CASE cmd.kind \in {"RecordUnknown", "ExpireLease"}
  BY Zenon, <1>6 DEF Accepts, NextStatus, ActiveOwnedLease, Uncertain, Unknown
<1>7. CASE cmd.kind = "Cancel"
  BY Zenon, <1>7 DEF Accepts, NextStatus, NeverClaimed, Cancelled
<1> QED
  BY Zenon, <1>1, <1>2, <1>3, <1>4, <1>5, <1>6, <1>7 DEF CommandKinds

\* The conjunction of history facts for one aggregate.
AggregateOK(s, tr) ==
    /\ OpenWhenProven(s, tr)
    /\ UncertaintyTracked(s, tr)
    /\ AttemptIsNew(s, tr)
    /\ RetriesProven(tr)
    /\ UncertaintyReconciled(tr)
    /\ SettledOnce(tr)
    /\ tr = << >> => s = Absent

\* Appending the transition of an accepted command keeps the history facts.
LEMMA AggregateStep ==
    ASSUME NEW e \in Effects, NEW cmd \in Commands, NEW now \in Times,
           NEW actor \in Actors, e.transitions # << >>,
           CanApply(e, cmd, now, actor), AggregateOK(e.status, e.transitions)
    PROVE  AggregateOK(NextStatus(e.status, cmd, now, actor),
                       Append(e.transitions,
                              Transition(cmd, actor, now,
                                IF cmd.kind = "Cancel" THEN 0 ELSE e.status.attempt)))
<1> DEFINE s == e.status
           tr == e.transitions
           n == Len(tr)
           t == Transition(cmd, actor, now,
                           IF cmd.kind = "Cancel" THEN 0 ELSE s.attempt)
           s2 == NextStatus(s, cmd, now, actor)
           tr2 == Append(tr, t)
<1>1. /\ tr \in Seq(Transitions)
      /\ s \in Status
      /\ s.attempt \in Nat
  BY EffectAssumption DEF Effects, Status
<1>2. /\ n \in Nat /\ n > 0
      /\ DOMAIN tr = 1 .. n
  BY <1>1
<1>3. /\ t.kind = cmd.kind
      /\ t.lease = cmd.lease
      /\ t.ms = cmd.ms
      /\ cmd.kind # "Cancel" => t.attempt = s.attempt
      /\ cmd.kind \in CommandKinds
  BY Zenon DEF Transition, Commands
<1>4. /\ Len(tr2) = n + 1
      /\ DOMAIN tr2 = 1 .. n + 1
      /\ \A i \in 1 .. n : tr2[i] = tr[i]
      /\ tr2[n + 1] = t
  <2>1. t \in Transitions
    BY Zenon, <1>1, TransitionType
  <2> HIDE DEF t, tr, n
  <2> QED BY <1>1, <1>2, <2>1 DEF n
<1>5. ASSUME NEW i \in 1 .. n, NEW j \in 1 .. n + 1, ProvenNotApplied(tr, i, j)
      PROVE  ProvenNotApplied(tr2, i, j) /\ ProvenNotApplied(tr2, i, j + 1)
  <2> HIDE DEF tr, tr2, n
  <2> QED BY <1>2, <1>4, <1>5 DEF ProvenNotApplied
<1>6. \A i \in 1 .. n :
         ProvenNotApplied(tr, i, n + 1) => ProvenNotApplied(tr2, i, n + 2)
  <2> HIDE DEF tr, tr2, n
  <2> QED BY <1>2, <1>5
<1>7. \A i \in DOMAIN tr : tr[i].attempt \in Nat
  <2>1. \A i \in DOMAIN tr : tr[i] \in Transitions
    BY <1>1
  <2>2. \A u \in Transitions : u.attempt \in Nat
    BY EffectAssumption DEF Transitions
  <2> QED BY Zenon, <2>1, <2>2
<1> DEFINE Cases ==
      \/ /\ cmd.kind = "Claim"
         /\ s.state = "pending"
         /\ s2.state = "claimed" /\ s2.lease = cmd.lease /\ s2.attempt = s.attempt
      \/ /\ cmd.kind = "RenewLease"
         /\ s.state = "claimed"
         /\ s2.state = "claimed" /\ s2.lease = s.lease /\ s2.attempt = s.attempt
      \/ /\ cmd.kind \in UncertainKinds
         /\ s.state = "claimed" /\ s.lease = cmd.lease
         /\ s2.state = "unknown" /\ s2.lease = s.lease /\ s2.attempt = s.attempt
      \/ /\ cmd.kind \in AppliedKinds
         /\ s.state \in {"claimed", "unknown"} /\ s.lease = cmd.lease
         /\ s.state = "unknown" =>
              cmd.kind \in ReconcileKinds /\ cmd.attempt = s.attempt
         /\ s2.state = "applied"
      \/ /\ cmd.kind \in NotAppliedKinds
         /\ s.state \in {"claimed", "unknown"} /\ s.lease = cmd.lease
         /\ s.state = "unknown" =>
              cmd.kind \in ReconcileKinds /\ cmd.attempt = s.attempt
         /\ \/ cmd.ms = NoRetry /\ s2.state = "rejected"
            \/ cmd.ms # NoRetry /\ s2.state = "pending" /\ s2.attempt = s.attempt + 1
      \/ /\ cmd.kind = "Cancel"
         /\ s.state = "pending"
         /\ s2.state = "cancelled"
<1>8. Cases
  BY Zenon, KindCases DEF CanApply
<1>9. ~ IsTerminal(s)
  BY Zenon, <1>8 DEF IsTerminal
<1> HIDE DEF t, s2, tr2, s, tr, n
<1>10. OpenWhenProven(s2, tr2)
  <2>0. Len(tr2) + 1 = n + 2
    BY <1>2, <1>4
  <2> SUFFICES ASSUME NEW i \in DOMAIN tr2, IsClaim(tr2[i]),
                      \/ s2.state = "pending"
                      \/ s2.state \in {"claimed", "unknown"} /\ tr2[i].lease # s2.lease
               PROVE  ProvenNotApplied(tr2, i, n + 2)
    BY Zenon, <2>0 DEF OpenWhenProven
  <2>1. i \in 1 .. n
    <3>1. SUFFICES ASSUME i = n + 1 PROVE FALSE
      BY <1>2, <1>4
    <3>2. tr2[i] = t /\ cmd.kind = "Claim"
      BY Zenon, <1>3, <1>4, <3>1 DEF IsClaim
    <3>3. s2.state = "claimed" /\ s2.lease = cmd.lease
      BY Zenon, <1>8, <3>2 DEF NotAppliedKinds, UncertainKinds, AppliedKinds
    <3> QED BY Zenon, <1>3, <3>2, <3>3
  <2>2. IsClaim(tr[i]) /\ tr2[i] = tr[i]
    BY Zenon, <1>4, <2>1
  <2>3. CASE /\ cmd.kind \in NotAppliedKinds
             /\ s.lease = tr[i].lease
    BY <1>2, <1>3, <1>4, <1>8, <2>1, <2>2, <2>3
       DEF ProvenNotApplied, NotAppliedKinds, AppliedKinds, UncertainKinds
  <2>4. CASE ~ (/\ cmd.kind \in NotAppliedKinds
                /\ s.lease = tr[i].lease)
    <3>1. \/ s.state = "pending"
          \/ s.state \in {"claimed", "unknown"} /\ tr[i].lease # s.lease
      BY Zenon, <1>8, <2>2, <2>4 DEF NotAppliedKinds, AppliedKinds, UncertainKinds
    <3>2. ProvenNotApplied(tr, i, n + 1)
      BY Zenon, <1>2, <2>1, <2>2, <3>1 DEF AggregateOK, OpenWhenProven, s, tr, n
    <3> QED BY Zenon, <1>6, <2>1, <3>2
  <2> QED BY Zenon, <2>3, <2>4
<1>11. UncertaintyTracked(s2, tr2)
  BY Zenon, <1>2, <1>3, <1>4, <1>8
     DEF UncertaintyTracked, UncertainKinds, AppliedKinds, NotAppliedKinds
<1>12. AttemptIsNew(s2, tr2)
  <2> SUFFICES ASSUME ~ IsTerminal(s2), NEW i \in DOMAIN tr2,
                      tr2[i].kind \in SettlementKinds
               PROVE  tr2[i].kind \in NotAppliedKinds /\ tr2[i].attempt < s2.attempt
    BY Zenon DEF AttemptIsNew
  <2>1. s2.attempt \in Nat /\ s2.attempt >= s.attempt
    BY <1>1, <1>8 DEF IsTerminal
  <2>2. CASE i = n + 1
    BY <1>1, <1>3, <1>4, <1>8, <2>2
       DEF IsTerminal, SettlementKinds, NotAppliedKinds, AppliedKinds, UncertainKinds
  <2>3. CASE i \in 1 .. n
    <3>1. tr[i].kind \in NotAppliedKinds /\ tr[i].attempt < s.attempt
      BY Zenon, <1>2, <1>4, <1>9, <2>3 DEF AggregateOK, AttemptIsNew, s, tr
    <3>2. tr2[i] = tr[i] /\ tr[i].attempt \in Nat /\ s.attempt \in Nat
      BY Zenon, <1>1, <1>2, <1>4, <1>7, <2>3
    <3> QED BY <2>1, <3>1, <3>2
  <2> QED BY <1>2, <1>4, <2>2, <2>3
<1>13. RetriesProven(tr2)
  <2> SUFFICES ASSUME NEW i \in DOMAIN tr2, NEW j \in DOMAIN tr2,
                      i < j, IsClaim(tr2[i]), IsClaim(tr2[j])
               PROVE  ProvenNotApplied(tr2, i, j)
    BY Zenon DEF RetriesProven
  <2>1. i \in 1 .. n /\ tr2[i] = tr[i]
    BY <1>2, <1>4
  <2>2. CASE j = n + 1
    <3>1. s.state = "pending"
      BY Zenon, <1>3, <1>4, <1>8, <2>2
         DEF IsClaim, NotAppliedKinds, AppliedKinds, UncertainKinds
    <3>2. ProvenNotApplied(tr, i, n + 1)
      BY Zenon, <1>2, <2>1, <3>1 DEF AggregateOK, OpenWhenProven, s, tr, n
    <3> QED BY <1>2, <1>5, <2>1, <2>2, <3>2
  <2>3. CASE j \in 1 .. n
    <3>1. ProvenNotApplied(tr, i, j)
      BY Zenon, <1>2, <1>4, <2>1, <2>3 DEF AggregateOK, RetriesProven, tr
    <3>2. j \in 1 .. n + 1
      BY <1>2, <2>3
    <3> QED BY Zenon, <1>5, <2>1, <3>1, <3>2
  <2> QED BY <1>2, <1>4, <2>2, <2>3
<1>14. UncertaintyReconciled(tr2)
  <2> SUFFICES ASSUME NEW i \in DOMAIN tr2, tr2[i].kind \in UncertainKinds, i < n + 1
               PROVE  /\ tr2[i + 1].kind \in ReconcileKinds
                      /\ tr2[i + 1].lease = tr2[i].lease
                      /\ tr2[i + 1].attempt = tr2[i].attempt
    BY Zenon, <1>4 DEF UncertaintyReconciled
  <2>1. i \in 1 .. n /\ tr2[i] = tr[i]
    BY <1>2, <1>4
  <2>2. CASE i = n
    <3>1. s.state = "unknown" /\ s.lease = tr[n].lease /\ s.attempt = tr[n].attempt
      BY Zenon, <1>2, <2>1, <2>2 DEF AggregateOK, UncertaintyTracked, s, tr, n
    <3> QED BY Zenon, <1>2, <1>3, <1>4, <1>8, <2>1, <2>2, <3>1
            DEF ReconcileKinds, UncertainKinds, AppliedKinds, NotAppliedKinds
  <2>3. CASE i < n
    <3>1. UncertaintyReconciled(tr) /\ i + 1 \in 1 .. n
      BY <1>2, <2>1, <2>3 DEF AggregateOK, tr
    <3>2. tr2[i + 1] = tr[i + 1]
      BY Zenon, <1>4, <3>1
    <3> QED BY Zenon, <1>2, <2>1, <2>3, <3>1, <3>2 DEF UncertaintyReconciled, n
  <2> QED BY <1>2, <2>1, <2>2, <2>3
<1>15. SettledOnce(tr2)
  <2>1. \A i \in 1 .. n : tr2[i].kind \in SettlementKinds =>
           tr2[i].kind \in NotAppliedKinds /\ tr2[i].attempt < s.attempt
    BY Zenon, <1>2, <1>4, <1>9 DEF AggregateOK, AttemptIsNew, s, tr
  <2>2. t.kind \in SettlementKinds => t.attempt = s.attempt
    BY Zenon, <1>3 DEF SettlementKinds, AppliedKinds, NotAppliedKinds
  <2>3. \A i, j \in 1 .. n :
           /\ tr2[i].kind \in SettlementKinds
           /\ tr2[j].kind \in SettlementKinds
           /\ tr2[i].attempt = tr2[j].attempt
           => i = j
    BY Zenon, <1>2, <1>4 DEF AggregateOK, SettledOnce, tr
  <2>4. \A i \in 1 .. n : tr2[i].attempt \in Nat
    BY Zenon, <1>2, <1>4, <1>7
  <2>5. \A i \in 1 .. n : tr2[i].kind \notin AppliedKinds
    BY Zenon, <2>1 DEF SettlementKinds, AppliedKinds, NotAppliedKinds
  <2> QED BY <1>1, <1>2, <1>4, <2>1, <2>2, <2>3, <2>4, <2>5 DEF SettledOnce, s
<1>16. tr2 # << >>
  BY <1>1, <1>2, <1>4
<1> QED BY Zenon, <1>10, <1>11, <1>12, <1>13, <1>14, <1>15, <1>16
        DEF AggregateOK, s, tr, t, s2, tr2

\* The inductive invariant of the ledger.
LedgerInv ==
    /\ TypeOK
    /\ \A k \in EffectKeys : AggregateOK(effects[k].status, effects[k].transitions)
    /\ KeyUnique

\* An empty history and a history of one creation satisfy the history facts.
LEMMA AggregateStart ==
    /\ AggregateOK(Absent, << >>)
    /\ \A s, t : t.kind = "Create" => AggregateOK(s, << t >>)
<1> USE DEF AggregateOK, OpenWhenProven, UncertaintyTracked, AttemptIsNew,
       RetriesProven, UncertaintyReconciled, SettledOnce, IsClaim,
       UncertainKinds, SettlementKinds, AppliedKinds, NotAppliedKinds
<1>1. AggregateOK(Absent, << >>)
  OBVIOUS
<1>2. ASSUME NEW s, NEW t, t.kind = "Create" PROVE AggregateOK(s, << t >>)
  <2>1. /\ DOMAIN << t >> = {1} /\ Len(<< t >>) = 1
        /\ << t >>[1] = t /\ << t >> # << >>
    OBVIOUS
  <2>2. t.kind \notin {"Claim", "RecordUnknown", "ExpireLease", "RecordApplied",
                       "ReconcileApplied", "RecordNotApplied", "ReconcileNotApplied"}
    BY Zenon, <1>2
  <2> QED BY Zenon, <2>1, <2>2
<1> QED BY Zenon, <1>1, <1>2

\* A creation and a committed command preserve the invariant.
LEMMA LedgerInvPreserved == LedgerInv /\ [Next]_vars => LedgerInv'
<1> SUFFICES ASSUME LedgerInv, [Next]_vars PROVE LedgerInv'
  BY Zenon
<1>1. TypeOK /\ TypeOK'
  BY Zenon, TypePreserved DEF LedgerInv
<1>2. CASE UNCHANGED vars
  BY Zenon, <1>1, <1>2 DEF vars, LedgerInv, KeyUnique, Exists
<1>3. CASE Next
  <2>1. PICK k \in EffectKeys, now \in Times, actor \in Actors :
          \/ \E id \in {1}, key \in Keys, input \in Inputs, nb \in Times :
                CreateAs(k, id, key, input, nb, now, actor)
          \/ \E cmd \in Commands : ApplyAs(k, Revision(effects[k]), cmd, now, actor)
    BY Zenon, <1>1, <1>3, NextCases
  <2>2. CASE \E id \in {1}, key \in Keys, input \in Inputs, nb \in Times :
                CreateAs(k, id, key, input, nb, now, actor)
    <3>1. PICK key \in Keys, input \in Inputs, nb \in Times :
            CreateAs(k, 1, key, input, nb, now, actor)
      BY Zenon, <2>2
    <3> DEFINE new == NewEffect(1, key, input, nb, actor, now)
    <3>2. /\ effects' = [effects EXCEPT ![k] = new]
          /\ \A j \in EffectKeys : j[1] = k[1] /\ Exists(j) => effects[j].key # key
      BY Zenon, <3>1 DEF CreateAs
    <3>3. /\ new.key = key
          /\ AggregateOK(new.status, new.transitions)
      BY Zenon, AggregateStart DEF NewEffect, Transition, Command
    <3> HIDE DEF new
    <3>4. \A j \in EffectKeys : effects'[j] = IF j = k THEN new ELSE effects[j]
      BY Zenon, <1>1, <3>2 DEF TypeOK
    <3>5. \A j \in EffectKeys :
             AggregateOK(effects'[j].status, effects'[j].transitions)
      BY Zenon, <3>3, <3>4 DEF LedgerInv
    <3>6. KeyUnique'
      BY <3>2, <3>3, <3>4 DEF LedgerInv, KeyUnique, Exists
    <3> QED BY Zenon, <1>1, <3>5, <3>6 DEF LedgerInv
  <2>3. CASE \E cmd \in Commands : ApplyAs(k, Revision(effects[k]), cmd, now, actor)
    <3>1. PICK cmd \in Commands : ApplyAs(k, Revision(effects[k]), cmd, now, actor)
      BY Zenon, <2>3
    <3> DEFINE e == effects[k]
               t == Transition(cmd, actor, now,
                               IF cmd.kind = "Cancel" THEN 0 ELSE e.status.attempt)
               st == NextStatus(e.status, cmd, now, actor)
               trs == Append(e.transitions, t)
               new == [key |-> e.key, input |-> e.input, status |-> st,
                       transitions |-> trs]
    <3>2. /\ Exists(k)
          /\ CanApply(e, cmd, now, actor)
          /\ effects' = [effects EXCEPT ![k] = new]
      BY Zenon, <1>1, <3>1, ApplyEffect
    <3>3. e \in Effects /\ AggregateOK(e.status, e.transitions)
      BY Zenon, <1>1 DEF TypeOK, LedgerInv
    <3>4. AggregateOK(st, trs)
      BY Zenon, <3>2, <3>3, AggregateStep DEF Exists
    <3> HIDE DEF t, st, trs
    <3>5. new.key = e.key /\ new.status = st /\ new.transitions = trs
      BY Zenon
    <3> HIDE DEF new
    <3>6. \A j \in EffectKeys : effects'[j] = IF j = k THEN new ELSE effects[j]
      BY Zenon, <1>1, <3>2 DEF TypeOK
    <3>7. \A j \in EffectKeys :
             AggregateOK(effects'[j].status, effects'[j].transitions)
      BY Zenon, <3>4, <3>5, <3>6 DEF LedgerInv
    <3>8. KeyUnique'
      BY <3>2, <3>5, <3>6 DEF LedgerInv, KeyUnique, Exists
    <3> QED BY Zenon, <1>1, <3>7, <3>8 DEF LedgerInv
  <2> QED BY Zenon, <2>1, <2>2, <2>3
<1> QED BY Zenon, <1>2, <1>3

\* The invariant holds in every reachable state of the ledger.
LEMMA LedgerInvariant == Spec => []LedgerInv
<1>1. Init => LedgerInv
  <2> SUFFICES ASSUME Init PROVE LedgerInv
    BY Zenon
  <2>1. TypeOK
    BY Zenon, InitType
  <2>2. \A k \in EffectKeys :
           /\ effects[k].status = Absent
           /\ effects[k].transitions = << >>
    BY Zenon DEF Init, NoEffect
  <2> QED BY Zenon, <2>1, <2>2, AggregateStart DEF LedgerInv, KeyUnique, Exists
<1> QED BY <1>1, LedgerInvPreserved, PTL DEF Spec

\* The status always sums the recorded attempts up: the strengthening that
\* makes the three theorems below inductive.
THEOREM StatusCovers == Spec => []StatusCoversHistory
<1>1. LedgerInv => StatusCoversHistory
  BY Zenon DEF LedgerInv, AggregateOK, StatusCoversHistory
<1> QED BY <1>1, LedgerInvariant, PTL

\* No attempt follows another one unless the first was proven not applied:
\* expire_lease and record_unknown never reopen an effect by themselves.
THEOREM RetrySafe == Spec => []RetryNeedsProof
<1>1. LedgerInv => RetryNeedsProof
  BY Zenon DEF LedgerInv, AggregateOK, RetryNeedsProof
<1> QED BY <1>1, LedgerInvariant, PTL

\* Only a reconciliation of exactly that attempt and lease leaves uncertainty.
THEOREM UncertaintySafe == Spec => []UncertaintyNeedsReconciliation
<1>1. LedgerInv => UncertaintyNeedsReconciliation
  BY Zenon DEF LedgerInv, AggregateOK, UncertaintyNeedsReconciliation
<1> QED BY <1>1, LedgerInvariant, PTL

\* An attempt is settled at most once and applied is the last transition.
THEOREM SettlementSafe == Spec => []OneSettlementPerAttempt
<1>1. LedgerInv => OneSettlementPerAttempt
  BY Zenon DEF LedgerInv, AggregateOK, OneSettlementPerAttempt
<1> QED BY <1>1, LedgerInvariant, PTL

\* create_as never binds one idempotency coordinate of a tenant twice.
THEOREM KeySafe == Spec => []KeyUnique
<1>1. LedgerInv => KeyUnique
  BY Zenon DEF LedgerInv
<1> QED BY <1>1, LedgerInvariant, PTL

\* No step changes an aggregate that is applied, rejected or cancelled.
THEOREM TerminalSafe == Spec => TerminalIsFinal
<1>1. LedgerInv /\ [Next]_vars =>
        [\A k \in EffectKeys :
            IsTerminal(effects[k].status) => effects'[k] = effects[k]]_vars
  <2> SUFFICES ASSUME LedgerInv, Next, NEW j \in EffectKeys, IsTerminal(effects[j].status)
               PROVE  effects'[j] = effects[j]
    BY Zenon
  <2> TypeOK
    BY Zenon DEF LedgerInv
  <2>1. PICK k \in EffectKeys, now \in Times, actor \in Actors :
          \/ \E id \in {1}, key \in Keys, input \in Inputs, nb \in Times :
                CreateAs(k, id, key, input, nb, now, actor)
          \/ \E cmd \in Commands : ApplyAs(k, Revision(effects[k]), cmd, now, actor)
    BY Zenon, NextCases
  <2>2. CASE j # k
    BY Zenon, <2>1, <2>2 DEF TypeOK, CreateAs, ApplyAs
  <2>3. CASE j = k
    <3>1. ASSUME NEW cmd \in Commands,
                 ApplyAs(k, Revision(effects[k]), cmd, now, actor)
          PROVE  FALSE
      <4>1. Accepts(effects[k], cmd, now, actor)
        BY Zenon, <3>1, ApplyEffect DEF CanApply
      <4>2. effects[k] \in Effects
        BY Zenon DEF TypeOK
      <4> QED BY Zenon, <2>3, <4>1, <4>2, KindCases DEF IsTerminal
    <3>2. PICK key \in Keys, input \in Inputs, nb \in Times :
            CreateAs(k, 1, key, input, nb, now, actor)
      BY Zenon, <2>1, <3>1
    <3>3. effects[k].status = Absent
      BY Zenon, <3>2 DEF CreateAs, Exists, LedgerInv, AggregateOK
    <3> QED BY <2>3, <3>3 DEF IsTerminal, Absent, Bare
  <2> QED BY Zenon, <2>2, <2>3
<1> QED BY <1>1, LedgerInvariant, PTL DEF Spec, TerminalIsFinal
-----------------------------------------------------------------------------
(* The replay of a stored history.  What validate() computes is a recursion *)
(* over the transitions; it is reasoned about by least counterexamples, for *)
(* which the well-foundedness of < on the naturals is enough.               *)

NatLess == {ss \in Nat \X Nat : ss[1] < ss[2]}

\* A set of naturals that is not empty has a least element.
LEMMA LeastElement ==
    ASSUME NEW S \in SUBSET Nat, S # {}
    PROVE  \E m \in S : \A k \in S : m <= k
<1>1. IsWellFoundedOn(NatLess, Nat)
  BY NatLessThanWellFounded, Zenon DEF OpToRel, NatLess
<1>2. PICK m \in S : \A k \in S : ~ (<<k, m>> \in NatLess)
  BY WFMin, <1>1, Zenon
<1>3. \A k \in S : <<k, m>> \in Nat \X Nat /\ <<k, m>>[1] = k /\ <<k, m>>[2] = m
  BY Zenon
<1>4. \A k \in S : ~ (k < m)
  BY <1>2, <1>3, Zenon DEF NatLess
<1> QED BY <1>4

\* f holds the statuses after each of the first m transitions of tr.
Replays(f, tr, m) ==
    f = [i \in 0 .. m |->
           IF i = 0 THEN Absent ELSE ProjectTransition(tr, i, f[i - 1])]

\* The replay of any number of transitions exists: a first number for which
\* it does not would extend the replay of the transitions before it.
LEMMA ReplayExists ==
    ASSUME NEW tr, NEW n \in Nat
    PROVE  \E f : Replays(f, tr, n)
<1> DEFINE Step(i, s) == ProjectTransition(tr, i, s)
           S == {m \in Nat : ~ \E f : Replays(f, tr, m)}
<1>1. SUFFICES ASSUME S # {} PROVE FALSE
  BY Zenon
<1>2. PICK m \in S : \A k \in S : m <= k
  BY Zenon, <1>1, LeastElement, S \in SUBSET Nat
<1>3. CASE m = 0
  <2>1. Replays([i \in 0 .. 0 |-> Absent], tr, 0)
    BY DEF Replays
  <2> QED BY Zenon, <2>1, <1>2, <1>3
<1>4. CASE m # 0
  <2>1. m \in Nat /\ m - 1 \in Nat /\ m - 1 \notin S
    BY <1>2, <1>4
  <2>2. PICK f : Replays(f, tr, m - 1)
    BY Zenon, <2>1
  <2> HIDE DEF Step
  <2> DEFINE g == [i \in 0 .. m |-> IF i = m THEN Step(m, f[m - 1]) ELSE f[i]]
  <2>3. ASSUME NEW i \in 0 .. m
        PROVE  g[i] = IF i = 0 THEN Absent ELSE Step(i, g[i - 1])
    <3>1. CASE i = m
      BY <3>1, <1>4, <2>1
    <3>2. CASE i # m
      <4>1. g[i] = f[i] /\ (i # 0 => g[i - 1] = f[i - 1])
        BY <3>2, <2>1
      <4>2. f[i] = IF i = 0 THEN Absent ELSE Step(i, f[i - 1])
        BY <2>2, <3>2, <2>1 DEF Replays, Step
      <4> QED BY Zenon, <4>1, <4>2
    <3> QED BY Zenon, <3>1, <3>2
  <2>4. g = [i \in 0 .. m |-> IF i = 0 THEN Absent ELSE Step(i, g[i - 1])]
    BY Zenon, <2>3
  <2>5. Replays(g, tr, m)
    BY Zenon, <2>4 DEF Replays, Step
  <2> QED BY Zenon, <2>5, <1>2
<1> QED BY Zenon, <1>3, <1>4

\* Projection is the last status of the replay.
LEMMA ProjectionReplays ==
    ASSUME NEW tr, Len(tr) \in Nat
    PROVE  \E f : Replays(f, tr, Len(tr)) /\ Projection(tr) = f[Len(tr)]
<1> DEFINE p == CHOOSE f : Replays(f, tr, Len(tr))
<1>1. Replays(p, tr, Len(tr))
  BY Zenon, ReplayExists
<1>2. Projection(tr) = p[Len(tr)]
  BY Zenon DEF Projection, Replays
<1> QED BY Zenon, <1>1, <1>2

\* What a transition is replayed to depends on it and on those before it.
LEMMA ProjectPrefix ==
    ASSUME NEW tr, NEW tr2, NEW i \in Nat \ {0}, NEW s,
           \A j \in 1 .. i : tr2[j] = tr[j]
    PROVE  ProjectTransition(tr2, i, s) = ProjectTransition(tr, i, s)
<1>1. tr2[i] = tr[i] /\ \A j \in 1 .. i - 1 : tr2[j] = tr[j]
  OBVIOUS
<1> DEFINE t == tr[i]
           fresh(h) == \A j \in 1 .. i - 1 : ~ (h[j].kind = "Claim" /\ h[j].lease = t.lease)
<1>2. fresh(tr2) = fresh(tr)
  BY <1>1, Zenon
<1> QED BY <1>1, <1>2, Zenon DEF ProjectTransition

\* Replaying one more transition takes the replay of the history one step on.
LEMMA ProjectionAppend ==
    ASSUME NEW tr \in Seq(Transitions), NEW t \in Transitions
    PROVE  Projection(Append(tr, t))
             = ProjectTransition(Append(tr, t), Len(tr) + 1, Projection(tr))
<1> DEFINE n == Len(tr)
           tr2 == Append(tr, t)
<1>1. /\ n \in Nat
      /\ Len(tr2) = n + 1
      /\ \A j \in 1 .. n : tr2[j] = tr[j]
  OBVIOUS
<1>2. PICK f : Replays(f, tr, n) /\ Projection(tr) = f[n]
  BY <1>1, ProjectionReplays, Zenon
<1> HIDE DEF n, tr2
<1>3. PICK g : Replays(g, tr2, n + 1) /\ Projection(tr2) = g[n + 1]
  BY <1>1, ProjectionReplays, n + 1 \in Nat
<1> DEFINE Step(h, i, s) == ProjectTransition(h, i, s)
<1>4. /\ \A i \in 0 .. n : f[i] = IF i = 0 THEN Absent ELSE Step(tr, i, f[i - 1])
      /\ \A i \in 0 .. n + 1 : g[i] = IF i = 0 THEN Absent ELSE Step(tr2, i, g[i - 1])
  <2> HIDE DEF Step
  <2> QED BY Zenon, <1>2, <1>3 DEF Replays, Step
<1>5. \A i \in 1 .. n : \A s : Step(tr2, i, s) = Step(tr, i, s)
  <2> SUFFICES ASSUME NEW i \in 1 .. n, NEW s PROVE Step(tr2, i, s) = Step(tr, i, s)
    BY Zenon
  <2>1. i \in Nat \ {0} /\ \A j \in 1 .. i : tr2[j] = tr[j]
    BY <1>1
  <2> QED BY <2>1, ProjectPrefix
<1> HIDE DEF Step
<1> DEFINE S == {i \in 0 .. n : g[i] # f[i]}
<1>6. S = {}
  <2> SUFFICES ASSUME S # {} PROVE FALSE
    BY Zenon
  <2>1. S \in SUBSET Nat
    BY <1>1
  <2>2. PICK m \in S : \A k \in S : m <= k
    BY Zenon, <2>1, LeastElement
  <2>3. m \in 0 .. n /\ m \in 0 .. n + 1 /\ g[m] # f[m]
    BY <1>1
  <2>4. CASE m = 0
    BY Zenon, <1>4, <2>3, <2>4
  <2>5. CASE m # 0
    <3>1. m \in 1 .. n /\ m - 1 \in 0 .. n /\ ~ (m <= m - 1)
      BY <1>1, <2>3, <2>5
    <3>2. g[m - 1] = f[m - 1]
      BY Zenon, <2>2, <3>1
    <3>3. f[m] = Step(tr, m, f[m - 1]) /\ g[m] = Step(tr2, m, g[m - 1])
      BY Zenon, <1>4, <2>3, <2>5
    <3> QED BY Zenon, <1>5, <2>3, <3>1, <3>2, <3>3
  <2> QED BY Zenon, <2>4, <2>5
<1>7. g[n] = f[n]
  BY <1>1, <1>6
<1>8. g[n + 1] = Step(tr2, n + 1, g[n])
  <2>1. n + 1 \in 0 .. n + 1 /\ n + 1 # 0 /\ (n + 1) - 1 = n
    BY <1>1
  <2> QED BY Zenon, <1>4, <2>1
<1> QED BY <1>2, <1>3, <1>7, <1>8, Zenon DEF Step, n, tr2

\* apply_projected_kind agrees with apply_kind: the transition of an accepted
\* command is replayed to the status the command led to.
LEMMA ReplayAgrees ==
    ASSUME NEW e \in Effects, NEW cmd \in Commands, NEW now \in Times,
           NEW actor \in Actors, Accepts(e, cmd, now, actor)
    PROVE  LET t == Transition(cmd, actor, now,
                               IF cmd.kind = "Cancel" THEN 0 ELSE e.status.attempt)
           IN  ProjectTransition(Append(e.transitions, t), Len(e.transitions) + 1, e.status)
                 = NextStatus(e.status, cmd, now, actor)
<1> DEFINE s == e.status
           tr == e.transitions
           n == Len(tr)
           t == Transition(cmd, actor, now,
                           IF cmd.kind = "Cancel" THEN 0 ELSE s.attempt)
           tr2 == Append(tr, t)
<1>1. tr \in Seq(Transitions) /\ n \in Nat /\ cmd.kind \in CommandKinds
  BY DEF Effects, Commands
<1>2. /\ t.kind = cmd.kind /\ t.lease = cmd.lease /\ t.ms = cmd.ms
      /\ t.actor = actor /\ t.at = now
      /\ cmd.kind # "Cancel" => t.attempt = s.attempt
  BY Zenon DEF Transition
<1>3. t \in Transitions
  BY Zenon, TransitionType
<1> HIDE DEF t, tr, n
<1>4. /\ tr2[n + 1] = t
      /\ \A j \in 1 .. n : tr2[j] = tr[j]
      /\ 1 .. (n + 1) - 1 = 1 .. n
      /\ 1 .. n = DOMAIN tr
  BY <1>1, <1>3 DEF n
<1> DEFINE fresh == \A j \in 1 .. (n + 1) - 1 :
                      ~ (tr2[j].kind = "Claim" /\ tr2[j].lease = t.lease)
<1>5. cmd.kind = "Claim" => fresh
  <2>1. cmd.kind = "Claim" => ValidateNewLeaseId(tr, cmd.lease)
    BY Zenon DEF Accepts, tr
  <2> QED BY Zenon, <1>2, <1>4, <2>1 DEF ValidateNewLeaseId
<1> HIDE DEF s, tr2
<1> DEFINE proj == ProjectTransition(tr2, n + 1, s)
           nxt == NextStatus(s, cmd, now, actor)
<1>6. SUFFICES ASSUME Accepts(e, cmd, now, actor) PROVE proj = nxt
  BY Zenon DEF t, tr, n, s, tr2
<1>7. CASE cmd.kind = "Claim"
  <2>1. proj = Claimed(t.lease, t.actor, t.attempt, LeaseExpiration(t.at, t.ms))
    BY Zenon, <1>2, <1>4, <1>5, <1>6, <1>7 DEF ProjectTransition, Accepts, s
  <2> QED BY Zenon, <1>2, <1>7, <2>1 DEF NextStatus
<1>8. CASE cmd.kind = "RenewLease"
  BY Zenon, <1>2, <1>4, <1>6, <1>8
     DEF ProjectTransition, Accepts, NextStatus, ProjectedOwnedLease, s
<1>9. CASE cmd.kind = "RecordApplied"
  BY Zenon, <1>2, <1>4, <1>6, <1>9
     DEF ProjectTransition, Accepts, NextStatus, ProjectedOwnedLease, s
<1>10. CASE cmd.kind = "RecordNotApplied"
  BY Zenon, <1>2, <1>4, <1>6, <1>10
     DEF ProjectTransition, Accepts, NextStatus, ProjectedOwnedLease, s
<1>11. CASE cmd.kind = "RecordUnknown"
  BY Zenon, <1>2, <1>4, <1>6, <1>11
     DEF ProjectTransition, Accepts, NextStatus, ProjectedOwnedLease, Uncertain, s
<1>12. CASE cmd.kind = "ExpireLease"
  BY Zenon, <1>2, <1>4, <1>6, <1>12
     DEF ProjectTransition, Accepts, NextStatus, Uncertain, s
<1>13. CASE cmd.kind = "ReconcileApplied"
  BY Zenon, <1>2, <1>4, <1>6, <1>13
     DEF ProjectTransition, Accepts, NextStatus, ProjectedUncertain, ValidateUnknown, s
<1>14. CASE cmd.kind = "ReconcileNotApplied"
  BY Zenon, <1>2, <1>4, <1>6, <1>14
     DEF ProjectTransition, Accepts, NextStatus, ProjectedUncertain, ValidateUnknown, s
<1>15. CASE cmd.kind = "Cancel"
  BY Zenon, <1>2, <1>4, <1>6, <1>15
     DEF ProjectTransition, Accepts, NextStatus, NeverClaimed, s
<1> QED
  BY Zenon, <1>1, <1>7, <1>8, <1>9, <1>10, <1>11, <1>12, <1>13, <1>14, <1>15
     DEF CommandKinds

-----------------------------------------------------------------------------
(* Every stored history is valid, and its leases fence.                      *)

\* The g-th transition grants or extends the lease.
IsGrant(tr, g, lease) == tr[g].kind \in {"Claim", "RenewLease"} /\ tr[g].lease = lease

\* The g-th transition is the last grant of the lease among the first n.
LastGrant(tr, g, lease, n) ==
    /\ g \in 1 .. n /\ IsGrant(tr, g, lease)
    /\ \A h \in 1 .. n : IsGrant(tr, h, lease) => h <= g

ClaimedBy(tr, n, lease, actor) ==
    \E c \in 1 .. n : IsClaim(tr[c]) /\ tr[c].lease = lease /\ tr[c].actor = actor

OwnedKinds == {"RenewLease", "RecordApplied", "RecordNotApplied", "RecordUnknown"}

\* Transition i kept to the lease as the last grant before it left it.
FencedAt(tr, i) ==
    /\ tr[i].kind \in OwnedKinds =>
         /\ \E g \in 1 .. i - 1 : /\ LastGrant(tr, g, tr[i].lease, i - 1)
                                  /\ tr[i].at < tr[g].at + tr[g].ms
         /\ ClaimedBy(tr, i - 1, tr[i].lease, tr[i].actor)
    /\ tr[i].kind = "ExpireLease" =>
         \E g \in 1 .. i - 1 : /\ LastGrant(tr, g, tr[i].lease, i - 1)
                               /\ tr[i].at >= tr[g].at + tr[g].ms

\* The status names the owner of a claim and the end of its last grant.
LeaseTracked(s, tr) ==
    s.state = "claimed" =>
        /\ \E g \in 1 .. Len(tr) : /\ LastGrant(tr, g, s.lease, Len(tr))
                                   /\ s.expires = tr[g].at + tr[g].ms
        /\ ClaimedBy(tr, Len(tr), s.lease, s.owner)

\* What holds of an aggregate that was created.
RecordOK(e) ==
    e.transitions # << >> =>
        /\ Validate(e)
        /\ LeaseTracked(e.status, e.transitions)
        /\ \A i \in DOMAIN e.transitions : FencedAt(e.transitions, i)

\* The accepted command keeps to the lease, and the new status tracks it.
LEMMA FenceStep ==
    ASSUME NEW e \in Effects, NEW cmd \in Commands, NEW now \in Times,
           NEW actor \in Actors, Accepts(e, cmd, now, actor),
           LeaseTracked(e.status, e.transitions)
    PROVE  LET n == Len(e.transitions)
               t == Transition(cmd, actor, now,
                               IF cmd.kind = "Cancel" THEN 0 ELSE e.status.attempt)
               tr2 == Append(e.transitions, t)
           IN  /\ FencedAt(tr2, n + 1)
               /\ LeaseTracked(NextStatus(e.status, cmd, now, actor), tr2)
               /\ \A i \in 1 .. n : FencedAt(e.transitions, i) => FencedAt(tr2, i)
<1> DEFINE s == e.status
           tr == e.transitions
           n == Len(tr)
           t == Transition(cmd, actor, now,
                           IF cmd.kind = "Cancel" THEN 0 ELSE s.attempt)
           tr2 == Append(tr, t)
           s2 == NextStatus(s, cmd, now, actor)
<1>1. tr \in Seq(Transitions) /\ n \in Nat /\ cmd.kind \in CommandKinds
  BY DEF Effects, Commands
<1>2. /\ t.kind = cmd.kind /\ t.lease = cmd.lease /\ t.ms = cmd.ms
      /\ t.actor = actor /\ t.at = now
  BY Zenon DEF Transition
<1>3. t \in Transitions
  BY Zenon, TransitionType
<1> HIDE DEF t, tr, n
<1>4. /\ tr2[n + 1] = t /\ Len(tr2) = n + 1
      /\ \A j \in 1 .. n : tr2[j] = tr[j]
      /\ (n + 1) - 1 = n
      /\ 1 .. n \subseteq 1 .. n + 1 /\ n + 1 \in 1 .. n + 1
      /\ \A h \in 1 .. n + 1 : h <= n + 1 /\ (h = n + 1 \/ h \in 1 .. n)
  BY <1>1, <1>3 DEF n
<1> HIDE DEF s, tr2, s2
<1>5. SUFFICES ASSUME Accepts(e, cmd, now, actor), LeaseTracked(s, tr)
               PROVE  /\ FencedAt(tr2, n + 1)
                      /\ LeaseTracked(s2, tr2)
                      /\ \A i \in 1 .. n : FencedAt(tr, i) => FencedAt(tr2, i)
  BY Zenon DEF t, tr, n, s, tr2, s2
\* A grant within the first m of the old history is one of the new history.
<1>6. \A m \in 0 .. n : 1 .. m \subseteq 1 .. n
  BY <1>1
<1>7. \A m \in 0 .. n : \A lease, g, a :
         /\ LastGrant(tr, g, lease, m) => LastGrant(tr2, g, lease, m) /\ tr2[g] = tr[g]
         /\ ClaimedBy(tr, m, lease, a) => ClaimedBy(tr2, m, lease, a)
  <2> SUFFICES ASSUME NEW m \in 0 .. n, NEW lease, NEW g, NEW a
               PROVE  /\ LastGrant(tr, g, lease, m)
                           => LastGrant(tr2, g, lease, m) /\ tr2[g] = tr[g]
                      /\ ClaimedBy(tr, m, lease, a) => ClaimedBy(tr2, m, lease, a)
    BY Zenon
  <2>1. \A h \in 1 .. m : tr2[h] = tr[h]
    BY Zenon, <1>4, <1>6
  <2> QED BY Zenon, <2>1 DEF LastGrant, ClaimedBy, IsGrant
<1>8. \A i \in 1 .. n : FencedAt(tr, i) => FencedAt(tr2, i)
  <2> SUFFICES ASSUME NEW i \in 1 .. n, FencedAt(tr, i) PROVE FencedAt(tr2, i)
    BY Zenon
  <2>1. i - 1 \in 0 .. n /\ tr2[i] = tr[i]
    BY <1>1, <1>4
  <2> QED BY Zenon, <1>7, <2>1 DEF FencedAt
<1>9. n \in 0 .. n
  BY <1>1
<1>10. /\ cmd.kind \in OwnedKinds =>
            s.state = "claimed" /\ s.lease = cmd.lease /\ s.owner = actor /\ now < s.expires
       /\ cmd.kind = "ExpireLease" =>
            s.state = "claimed" /\ s.lease = cmd.lease /\ now >= s.expires
  BY Zenon, <1>5 DEF Accepts, ActiveOwnedLease, OwnedKinds, s
<1>11. FencedAt(tr2, n + 1)
  <2>1. cmd.kind \in OwnedKinds =>
          /\ \E g \in 1 .. n : /\ LastGrant(tr2, g, cmd.lease, n)
                               /\ now < tr2[g].at + tr2[g].ms
          /\ ClaimedBy(tr2, n, cmd.lease, actor)
    BY Zenon, <1>5, <1>7, <1>9, <1>10 DEF LeaseTracked, n
  <2>2. cmd.kind = "ExpireLease" =>
          \E g \in 1 .. n : /\ LastGrant(tr2, g, cmd.lease, n)
                            /\ now >= tr2[g].at + tr2[g].ms
    BY Zenon, <1>5, <1>7, <1>9, <1>10 DEF LeaseTracked, n
  <2> QED BY Zenon, <1>2, <1>4, <2>1, <2>2 DEF FencedAt
<1>12. LeaseTracked(s2, tr2)
  <2> SUFFICES ASSUME s2.state = "claimed"
               PROVE  /\ \E g \in 1 .. n + 1 : /\ LastGrant(tr2, g, s2.lease, n + 1)
                                               /\ s2.expires = tr2[g].at + tr2[g].ms
                      /\ ClaimedBy(tr2, n + 1, s2.lease, s2.owner)
    BY Zenon, <1>4 DEF LeaseTracked
  <2>1. CASE cmd.kind = "Claim"
    <3>1. s2.lease = cmd.lease /\ s2.owner = actor /\ s2.expires = now + cmd.ms
      BY Zenon, <2>1 DEF s2, NextStatus, Claimed, LeaseExpiration
    <3>2. LastGrant(tr2, n + 1, cmd.lease, n + 1)
      BY Zenon, <1>2, <1>4, <2>1 DEF LastGrant, IsGrant
    <3>3. ClaimedBy(tr2, n + 1, cmd.lease, actor)
      BY Zenon, <1>2, <1>4, <2>1 DEF ClaimedBy, IsClaim
    <3> QED BY Zenon, <1>2, <1>4, <3>1, <3>2, <3>3
  <2>2. CASE cmd.kind = "RenewLease"
    <3>0. s \in Status
      BY Zenon DEF Effects, s
    <3>1. /\ s2.lease = s.lease /\ s2.owner = s.owner /\ s2.expires = now + cmd.ms
          /\ s.lease = cmd.lease /\ s.owner = actor
      BY Zenon, <1>10, <2>2, <3>0 DEF s2, NextStatus, LeaseExpiration, Status, OwnedKinds
    <3>2. LastGrant(tr2, n + 1, cmd.lease, n + 1)
      BY Zenon, <1>2, <1>4, <2>2 DEF LastGrant, IsGrant
    <3>3. ClaimedBy(tr2, n + 1, cmd.lease, actor)
      <4>1. s.state = "claimed"
        BY Zenon, <1>10, <2>2 DEF OwnedKinds
      <4>2. ClaimedBy(tr, n, s.lease, s.owner)
        BY Zenon, <1>5, <4>1 DEF LeaseTracked, n
      <4>3. ClaimedBy(tr2, n, cmd.lease, actor)
        BY Zenon, <1>7, <1>9, <3>1, <4>2
      <4> QED BY Zenon, <1>4, <4>3 DEF ClaimedBy
    <3> QED BY Zenon, <1>2, <1>4, <3>1, <3>2, <3>3
  <2>3. CASE cmd.kind \notin {"Claim", "RenewLease"}
    BY Zenon, <1>1, <2>3 DEF CommandKinds, s2, NextStatus, Applied, SettledNotApplied,
       Rejected, Pending, Uncertain, Unknown, Cancelled, Bare
  <2> QED BY Zenon, <2>1, <2>2, <2>3
<1> QED BY Zenon, <1>8, <1>11, <1>12

\* A history that validate() accepts still is accepted after a command that
\* apply accepts and that was not recognized.
LEMMA ValidateStep ==
    ASSUME NEW e \in Effects, NEW cmd \in Commands, NEW now \in Times,
           NEW actor \in Actors, e.transitions # << >>,
           CanApply(e, cmd, now, actor), ~ KnownId(e, cmd.id), Validate(e)
    PROVE  LET t == Transition(cmd, actor, now,
                               IF cmd.kind = "Cancel" THEN 0 ELSE e.status.attempt)
           IN  Validate([key |-> e.key, input |-> e.input,
                         status |-> NextStatus(e.status, cmd, now, actor),
                         transitions |-> Append(e.transitions, t)])
<1> DEFINE s == e.status
           tr == e.transitions
           n == Len(tr)
           t == Transition(cmd, actor, now,
                           IF cmd.kind = "Cancel" THEN 0 ELSE s.attempt)
           tr2 == Append(tr, t)
           s2 == NextStatus(s, cmd, now, actor)
           e2 == [key |-> e.key, input |-> e.input, status |-> s2, transitions |-> tr2]
<1>0. t \in Transitions
  BY Zenon, TransitionType
<1>1. /\ tr \in Seq(Transitions) /\ n \in Nat /\ n > 0
      /\ t \in Transitions /\ t.at = now /\ t.id = cmd.id
  BY <1>0 DEF Transition, Effects
<1>2. /\ n < MAX_EFFECT_TRANSITIONS
      /\ now >= tr[n].at
      /\ Accepts(e, cmd, now, actor)
  BY Zenon DEF CanApply, Revision, LastAt
<1>3. \A i \in 1 .. n : tr[i].id # cmd.id
  BY <1>1 DEF KnownId
<1>4. Projection(tr2) = s2
  <2>1. Projection(tr2) = ProjectTransition(tr2, n + 1, Projection(tr))
    BY Zenon, <1>1, ProjectionAppend
  <2>2. Projection(tr) = s
    BY Zenon DEF Validate
  <2> QED BY Zenon, <1>2, <2>1, <2>2, ReplayAgrees
<1>5. /\ \A i, j \in 1 .. n : i < j => tr[i].at <= tr[j].at
      /\ \A i, j \in 1 .. n : i # j => tr[i].id # tr[j].id
  <2>1. DOMAIN tr = 1 .. n
    BY <1>1
  <2> QED BY Zenon, <2>1 DEF Validate
<1>6. \A i \in 1 .. n : tr[i].at \in Int
  <2>1. \A i \in 1 .. n : tr[i] \in Transitions
    BY <1>1
  <2>2. \A u \in Transitions : u.at \in Int
    BY EffectAssumption DEF Transitions, Times
  <2> QED BY Zenon, <2>1, <2>2
<1>7. now \in Int
  BY EffectAssumption DEF Times
<1> HIDE DEF t, tr, n, s2
<1>8. /\ tr2[n + 1] = t /\ Len(tr2) = n + 1 /\ DOMAIN tr2 = 1 .. n + 1
      /\ \A j \in 1 .. n : tr2[j] = tr[j]
  BY <1>1 DEF n
<1> HIDE DEF tr2
<1>9. Len(tr2) \in 1 .. MAX_EFFECT_TRANSITIONS
  BY <1>1, <1>2, <1>8, EffectAssumption
<1>10. \A i, j \in DOMAIN tr2 : i < j => tr2[i].at <= tr2[j].at
  <2>1. \A i \in 1 .. n : tr[i].at <= tr[n].at
    BY <1>1, <1>5, <1>6
  <2>2. \A i \in 1 .. n : tr[i].at <= now
    BY <1>1, <1>2, <1>6, <1>7, <2>1
  <2> QED BY <1>1, <1>5, <1>8, <2>2
<1>11. \A i, j \in DOMAIN tr2 : i # j => tr2[i].id # tr2[j].id
  BY <1>1, <1>3, <1>5, <1>8
<1>12. e2.transitions = tr2 /\ e2.status = s2
  BY Zenon
<1> HIDE DEF e2
<1>13. Validate(e2)
  BY Zenon, <1>4, <1>9, <1>10, <1>11, <1>12 DEF Validate
<1> QED BY Zenon, <1>13 DEF e2, tr2, s2, t, tr

\* A created aggregate is valid and no lease was granted on it.
LEMMA RecordStart ==
    ASSUME NEW key, NEW input, NEW nb \in Times, NEW actor \in Actors, NEW now \in Times
    PROVE  RecordOK(NewEffect(1, key, input, nb, actor, now))
<1> DEFINE new == NewEffect(1, key, input, nb, actor, now)
           t == Transition(Command(1, "Create", NoLease, 0, nb), actor, now, 0)
<1>1. /\ t.kind = "Create" /\ t.ms = nb
      /\ t \in Transitions
  BY EffectAssumption DEF Transition, Command, Transitions, Times
<1>2. new.status = Pending(1, nb) /\ new.transitions = << t >>
  BY Zenon DEF NewEffect
<1> HIDE DEF t, new
<1>3. /\ Append(<< >>, t) = << t >> /\ Len(<< t >>) = 1 /\ << t >>[1] = t
      /\ DOMAIN << t >> = {1} /\ << >> \in Seq(Transitions) /\ Len(<< >>) = 0
      /\ 0 \in Nat
  OBVIOUS
<1>4. Projection(<< t >>) = ProjectTransition(<< t >>, 1, Projection(<< >>))
  <2>1. Projection(Append(<< >>, t))
          = ProjectTransition(Append(<< >>, t), Len(<< >>) + 1, Projection(<< >>))
    BY Zenon, <1>1, <1>3, ProjectionAppend
  <2>2. Len(<< >>) + 1 = 1
    OBVIOUS
  <2> QED BY Zenon, <1>3, <2>1, <2>2
<1>5. Projection(<< t >>) = Pending(1, nb)
  BY Zenon, <1>1, <1>3, <1>4 DEF ProjectTransition
<1>6. 1 \in 1 .. MAX_EFFECT_TRANSITIONS /\ ~ (1 < 1)
  BY EffectAssumption
<1>7. Validate(new)
  <2>1. \A i, j \in DOMAIN << t >> : i = 1 /\ j = 1
    BY Zenon, <1>3
  <2> QED BY Zenon, <1>2, <1>3, <1>5, <1>6, <2>1 DEF Validate
<1>8. LeaseTracked(new.status, new.transitions)
  BY Zenon, <1>2 DEF LeaseTracked, Pending, Bare
<1>9. \A i \in DOMAIN new.transitions : FencedAt(new.transitions, i)
  BY Zenon, <1>1, <1>2, <1>3 DEF FencedAt, OwnedKinds
<1> QED BY Zenon, <1>7, <1>8, <1>9 DEF RecordOK, new

\* The histories of the ledger are valid and fenced.
RecordInv == \A k \in EffectKeys : RecordOK(effects[k])

\* A creation and a committed command keep the histories valid and fenced.
LEMMA RecordInvPreserved == TypeOK /\ RecordInv /\ [Next]_vars => RecordInv'
<1> SUFFICES ASSUME TypeOK, RecordInv, [Next]_vars PROVE RecordInv'
  BY Zenon
<1>1. CASE UNCHANGED vars
  BY Zenon, <1>1 DEF vars, RecordInv
<1>2. CASE Next
  <2>1. PICK k \in EffectKeys, now \in Times, actor \in Actors :
          \/ \E id \in {1}, key \in Keys, input \in Inputs, nb \in Times :
                CreateAs(k, id, key, input, nb, now, actor)
          \/ \E cmd \in Commands : ApplyAs(k, Revision(effects[k]), cmd, now, actor)
    BY Zenon, <1>2, NextCases
  <2>2. ASSUME NEW new, RecordOK(new), effects' = [effects EXCEPT ![k] = new]
        PROVE  RecordInv'
    <3>1. \A j \in EffectKeys : effects'[j] = IF j = k THEN new ELSE effects[j]
      BY Zenon, <2>2 DEF TypeOK
    <3> QED BY Zenon, <2>2, <3>1 DEF RecordInv
  <2>3. CASE \E id \in {1}, key \in Keys, input \in Inputs, nb \in Times :
                CreateAs(k, id, key, input, nb, now, actor)
    <3>1. PICK key \in Keys, input \in Inputs, nb \in Times :
            CreateAs(k, 1, key, input, nb, now, actor)
      BY Zenon, <2>3
    <3> DEFINE new == NewEffect(1, key, input, nb, actor, now)
    <3>2. effects' = [effects EXCEPT ![k] = new]
      BY Zenon, <3>1 DEF CreateAs
    <3>3. RecordOK(new)
      BY Zenon, RecordStart
    <3> QED BY Zenon, <2>2, <3>2, <3>3
  <2>4. CASE \E cmd \in Commands : ApplyAs(k, Revision(effects[k]), cmd, now, actor)
    <3>1. PICK cmd \in Commands : ApplyAs(k, Revision(effects[k]), cmd, now, actor)
      BY Zenon, <2>4
    <3> DEFINE e == effects[k]
               t == Transition(cmd, actor, now,
                               IF cmd.kind = "Cancel" THEN 0 ELSE e.status.attempt)
               st == NextStatus(e.status, cmd, now, actor)
               trs == Append(e.transitions, t)
               new == [key |-> e.key, input |-> e.input, status |-> st,
                       transitions |-> trs]
    <3>2. /\ Exists(k)
          /\ CanApply(e, cmd, now, actor)
          /\ t \in Transitions
          /\ effects' = [effects EXCEPT ![k] = new]
      BY Zenon, <3>1, ApplyEffect
    <3>3. ~ KnownId(e, cmd.id)
      BY Zenon, <3>1 DEF ApplyAs, Reply
    <3>4. e \in Effects /\ e.transitions # << >> /\ Accepts(e, cmd, now, actor)
      BY Zenon, <3>2 DEF TypeOK, Exists, CanApply
    <3>5. /\ Validate(e)
          /\ LeaseTracked(e.status, e.transitions)
          /\ \A i \in DOMAIN e.transitions : FencedAt(e.transitions, i)
      BY Zenon, <3>4 DEF RecordInv, RecordOK
    <3>6. Validate(new)
      BY Zenon, <3>2, <3>3, <3>4, <3>5, ValidateStep
    <3>7. /\ FencedAt(trs, Len(e.transitions) + 1)
          /\ LeaseTracked(st, trs)
          /\ \A i \in 1 .. Len(e.transitions) :
                FencedAt(e.transitions, i) => FencedAt(trs, i)
      BY Zenon, <3>4, <3>5, FenceStep
    <3>8. /\ DOMAIN e.transitions = 1 .. Len(e.transitions)
          /\ \A i \in DOMAIN trs : i \in 1 .. Len(e.transitions)
                                     \/ i = Len(e.transitions) + 1
      <4> e.transitions \in Seq(Transitions)
        BY Zenon, <3>4 DEF Effects
      <4> HIDE DEF t
      <4> QED BY <3>2
    <3>9. \A i \in DOMAIN trs : FencedAt(trs, i)
      BY Zenon, <3>5, <3>7, <3>8
    <3> HIDE DEF t, st, trs, e
    <3>10. new.status = st /\ new.transitions = trs
      BY Zenon
    <3> HIDE DEF new
    <3>11. RecordOK(new)
      BY Zenon, <3>6, <3>7, <3>9, <3>10 DEF RecordOK
    <3> QED BY Zenon, <2>2, <3>2, <3>11
  <2> QED BY Zenon, <2>1, <2>3, <2>4
<1> QED BY Zenon, <1>1, <1>2

\* The histories are valid and fenced in every reachable state.
LEMMA RecordInvariant == Spec => []RecordInv
<1>1. Init => RecordInv
  BY DEF Init, RecordInv, RecordOK, NoEffect
<1> QED BY <1>1, RecordInvPreserved, TypeCorrect, PTL DEF Spec

\* apply_kind and apply_projected_kind agree on every history a store can
\* hold: validate() never refuses an aggregate that is read back, whatever
\* commands, actors and clock readings produced it.
THEOREM HistoryAlwaysValid == Spec => []HistoryValid
<1>1. RecordInv => HistoryValid
  BY Zenon DEF RecordInv, RecordOK, HistoryValid, Exists
<1> QED BY <1>1, RecordInvariant, PTL

\* active_owned_lease and expire_lease exclude each other at every instant:
\* an owner reports strictly before the end of the last grant of its lease,
\* and an expiry is recorded only at or after it.
THEOREM LeaseFenceAlways == Spec => []LeaseFence
<1>1. ASSUME NEW tr, NEW i, NEW g, LastGrant(tr, g, tr[i].lease, i - 1)
      PROVE  DueBefore(tr, i) = tr[g].at + tr[g].ms
  <2> DEFINE grants == {h \in 1 .. i - 1 : /\ tr[h].kind \in {"Claim", "RenewLease"}
                                           /\ tr[h].lease = tr[i].lease}
             last == CHOOSE h \in grants : \A j \in grants : j <= h
  <2>1. g \in grants /\ \A h \in grants : h <= g
    BY Zenon, <1>1 DEF LastGrant, IsGrant
  <2>2. \A h \in grants : h \in Int
    OBVIOUS
  <2>3. last \in grants /\ \A j \in grants : j <= last
    BY Zenon, <2>1
  <2> HIDE DEF grants, last
  <2>4. last = g
    BY <2>1, <2>2, <2>3
  <2>5. DueBefore(tr, i) = tr[last].at + tr[last].ms
    BY Zenon DEF DueBefore, last, grants
  <2> QED BY Zenon, <2>4, <2>5
<1>2. ASSUME NEW tr, NEW i, FencedAt(tr, i)
      PROVE  /\ tr[i].kind \in OwnedKinds =>
                  /\ tr[i].at < DueBefore(tr, i)
                  /\ \E c \in 1 .. i - 1 : IsClaim(tr[c]) /\ tr[c].lease = tr[i].lease
                                                          /\ tr[c].actor = tr[i].actor
             /\ tr[i].kind = "ExpireLease" => tr[i].at >= DueBefore(tr, i)
  BY Zenon, <1>1, <1>2 DEF FencedAt, ClaimedBy
<1>3. RecordInv => LeaseFence
  <2> SUFFICES ASSUME RecordInv, NEW k \in EffectKeys,
                      NEW i \in DOMAIN effects[k].transitions
               PROVE  FencedAt(effects[k].transitions, i)
    BY Zenon, <1>2 DEF LeaseFence, OwnedKinds
  <2>1. effects[k].transitions # << >>
    OBVIOUS
  <2> QED BY Zenon, <2>1 DEF RecordInv, RecordOK
<1> QED BY <1>3, RecordInvariant, PTL
=============================================================================
