----------------------- MODULE EffectExecutionProofs -----------------------
(***************************************************************************)
(* Proofs about EffectExecution, for every number of effects, workers,      *)
(* cycles, reconcilers and drivers: what the ledger says of the target is   *)
(* true, no request is sent twice, and the ledger is used as EffectLedger   *)
(* allows.                                                                  *)
(***************************************************************************)
EXTENDS EffectRefinement, TLAPS

EffectFields == {"key", "input", "status", "transitions"}
StatusFields == {"state", "attempt", "lease", "owner", "expires", "notBefore"}
TransitionFields == {"id", "kind", "lease", "attempt", "ms", "actor", "at"}
WorkerFields == {"pc", "cycle", "k", "rev", "at", "kind", "ms"}
LookupFields == {"pc", "k", "rev", "lease", "attempt", "kind", "delay"}

-----------------------------------------------------------------------------
(* The inductive invariant.                                                 *)

\* The requests that reached the target or still may.
Sent == landed \cup inFlight

Tr(k) == effects[k].transitions

\* The ledger awaits the outcome of lease l of effect k.
Awaited(k, l) == effects[k].status.state \in {"claimed", "unknown"} /\ effects[k].status.lease = l

\* Lease l of effect k is the active one; once it is not, it never is again.
Active(k, l) == effects[k].status.state = "claimed" /\ effects[k].status.lease = l

StatusOK(k, s) ==
    /\ DOMAIN s = StatusFields
    /\ s.attempt \in 0 .. MAX_EFFECT_ATTEMPTS
    /\ s.state # "absent" /\ s.state # "cancelled" => s.attempt >= 1
    /\ s.expires \in Nat
    /\ s.state \in {"claimed", "unknown"} => s.lease \in LeasesOf(k)

\* The claim that is transition i of an effect has the lease its worker derived from
\* the revision i - 1 it had scanned, so no lease belongs to two claims.
EffectOK(k) ==
    /\ DOMAIN effects[k] = EffectFields
    /\ \E S : Tr(k) \in Seq(S)
    /\ Len(Tr(k)) <= MAX_EFFECT_TRANSITIONS
    /\ \A i \in DOMAIN Tr(k) : DOMAIN Tr(k)[i] = TransitionFields
    /\ \A i \in DOMAIN Tr(k) :
          IsClaim(Tr(k)[i]) => /\ i > 1
                               /\ \E c \in Cycles : Tr(k)[i].lease = << c, k, i - 1 >>
    /\ StatusOK(k, effects[k].status)

LedgerOK ==
    /\ effects = [k \in EffectKeys |-> effects[k]]
    /\ \A k \in EffectKeys : EffectOK(k)

Past == {"admit", "dispatch", "await", "settle"}

Lease(s) == << s.cycle, s.k, s.rev >>

\* A worker in state s: before it enters the connector nothing was sent under its lease;
\* while the lease is active the ledger shows the expiry the worker computes, and once
\* the lease is retired that instant has come.
WorkerOK(s) ==
    LET l == Lease(s)
    IN  /\ DOMAIN s = WorkerFields
        /\ s.pc \in {"idle", "authorize", "claim"} \cup Past
        /\ s.pc # "idle" => s.cycle \in Cycles /\ s.k \in EffectKeys /\ s.rev \in Nat
        /\ s.pc \notin {"idle", "authorize"} => s.at \in Times
        /\ s.pc \in Past => l \in LeasesOf(s.k)
        /\ s.pc \in {"admit", "dispatch"} =>
              /\ entries[l] = 0
              /\ Active(s.k, l) => effects[s.k].status.expires = s.at + LeaseDuration
              /\ ~Active(s.k, l) => now >= s.at + LeaseDuration
        /\ s.pc = "settle" =>
              \/ s.kind = "RecordApplied" /\ s.ms \in Times /\ l \in landed
              \/ s.kind = "RecordNotApplied" /\ s.ms \in Times \cup {NoRetry} /\ l \notin Sent
              \/ s.kind = "RecordUnknown" /\ s.ms = 0

\* Each worker past its Claim holds a lease of its own.
LeasesApart ==
    \A v, w \in Workers :
        v # w /\ worker[v].pc \in Past /\ worker[w].pc \in Past
            => Lease(worker[v]) # Lease(worker[w])

\* A reconciler looks up a retired lease, so what it learns stays true.
ReconcilerOK(s) ==
    /\ DOMAIN s = LookupFields
    /\ s.pc \in {"idle", "query", "settle"}
    /\ s.pc # "idle" => /\ s.k \in EffectKeys /\ s.lease \in LeasesOf(s.k)
                        /\ s.attempt \in 1 .. MAX_EFFECT_ATTEMPTS
                        /\ ~Active(s.k, s.lease)
    /\ s.pc = "settle" =>
          \/ s.kind = "ReconcileApplied" /\ s.lease \in landed
          \/ s.kind = "ReconcileNotApplied" /\ s.delay \in RetryDelays \cup {NoDelay}
             /\ s.lease \notin Sent

DriverOK(s) ==
    s # NoDue => /\ s.k \in EffectKeys /\ s.lease \in LeaseIds
                 /\ s.at \in Times /\ s.at <= now

\* A request that was sent is the one awaited, or the one that made the effect applied.
Truth(k) ==
    IF effects[k].status.state = "applied"
    THEN \E l \in LeasesOf(k) \cap landed : \A m \in LeasesOf(k) \cap Sent : m = l
    ELSE \A m \in LeasesOf(k) \cap Sent : Awaited(k, m)

\* Only claimed leases were entered, and only entered ones sent.
EntriesOK ==
    /\ entries \in [LeaseIds -> {0, 1}]
    /\ \A l \in LeaseIds : entries[l] = 1 => \E k \in EffectKeys : l \in LeasesOf(k)
    /\ Sent \subseteq {l \in LeaseIds : entries[l] = 1}

WorkersInv ==
    /\ worker = [w \in Workers |-> worker[w]]
    /\ \A w \in Workers : WorkerOK(worker[w])
    /\ LeasesApart

HostsInv ==
    /\ reconciler = [r \in Reconcilers |-> reconciler[r]]
    /\ \A r \in Reconcilers : ReconcilerOK(reconciler[r])
    /\ driver = [d \in Drivers |-> driver[d]]
    /\ \A d \in Drivers : DriverOK(driver[d])

ExecInv ==
    /\ LedgerOK
    /\ now \in Times
    /\ WorkersInv
    /\ HostsInv
    /\ EntriesOK
    /\ \A k \in EffectKeys : Truth(k)

-----------------------------------------------------------------------------
(* One commit of the ledger.                                                *)

\* What LeasesOf collects.
LEMMA LeasesMember ==
    ASSUME NEW k
    PROVE  \A l : l \in LeasesOf(k) <=>
                    \E i \in DOMAIN Tr(k) : IsClaim(Tr(k)[i]) /\ Tr(k)[i].lease = l
BY Zenon DEF LeasesOf, Tr

\* Every lease an effect was claimed under names that effect and is a LeaseId.
LEMMA LeaseNames ==
    ASSUME LedgerOK, NEW k \in EffectKeys, NEW l \in LeasesOf(k)
    PROVE  /\ l \in LeaseIds
           /\ \E c \in Cycles, i \in DOMAIN Tr(k) : l = << c, k, i - 1 >>
<1>1. PICK i \in DOMAIN Tr(k) : IsClaim(Tr(k)[i]) /\ Tr(k)[i].lease = l
  BY Zenon, LeasesMember
<1>2. PICK c \in Cycles : l = << c, k, i - 1 >> /\ i > 1
  BY Zenon, <1>1 DEF LedgerOK, EffectOK
<1>3. DOMAIN Tr(k) = 1 .. Len(Tr(k)) /\ Len(Tr(k)) \in Nat
      /\ Len(Tr(k)) <= MAX_EFFECT_TRANSITIONS
  BY DEF LedgerOK, EffectOK
<1>4. i - 1 \in 1 .. MAX_EFFECT_TRANSITIONS
  BY <1>2, <1>3, EffectAssumption
<1> QED BY Zenon, <1>2, <1>4, ExecutionAssumption

\* An aggregate whose history grew by transition x.
LEMMA HistoryGrows ==
    ASSUME LedgerOK, NEW k \in EffectKeys, NEW x, Tr(k)' = Append(Tr(k), x)
    PROVE  /\ \E S : Tr(k)' \in Seq(S)
           /\ Len(Tr(k)) \in Nat /\ Len(Tr(k)') = Len(Tr(k)) + 1
           /\ DOMAIN Tr(k) = 1 .. Len(Tr(k)) /\ DOMAIN Tr(k)' = 1 .. Len(Tr(k)) + 1
           /\ \A i \in 1 .. Len(Tr(k)) : Tr(k)'[i] = Tr(k)[i]
           /\ Tr(k)'[Len(Tr(k)) + 1] = x
           /\ \A l : l \in LeasesOf(k)' <=> l \in LeasesOf(k) \/ (IsClaim(x) /\ x.lease = l)
<1>1. PICK S : Tr(k) \in Seq(S)
  BY Zenon DEF LedgerOK, EffectOK
<1> DEFINE s == Tr(k)
           t == Tr(k)'
<1>2. s \in Seq(S) /\ t = Append(s, x)
  BY Zenon, <1>1
<1> HIDE DEF s, t
<1>3. s \in Seq(S \cup {x})
  <2>1. \A i \in 1 .. Len(s) : s[i] \in S
    BY <1>2
  <2> QED BY <1>2, <2>1
<1>4. /\ t \in Seq(S \cup {x})
      /\ Len(s) \in Nat /\ Len(t) = Len(s) + 1
      /\ DOMAIN s = 1 .. Len(s) /\ DOMAIN t = 1 .. Len(s) + 1
      /\ \A i \in 1 .. Len(s) : t[i] = s[i]
      /\ t[Len(s) + 1] = x
  BY <1>2, <1>3
<1>5. \A i : i \in DOMAIN t <=> i \in DOMAIN s \/ i = Len(s) + 1
  BY <1>4
<1>6. ASSUME NEW l PROVE l \in LeasesOf(k)' <=> l \in LeasesOf(k) \/ (IsClaim(x) /\ x.lease = l)
  <2>1. l \in LeasesOf(k) <=> \E i \in DOMAIN s : IsClaim(s[i]) /\ s[i].lease = l
    BY Zenon, LeasesMember DEF s
  <2>2. l \in LeasesOf(k)' <=> \E i \in DOMAIN t : IsClaim(t[i]) /\ t[i].lease = l
    BY Zenon DEF LeasesOf, Tr, t, IsClaim
  <2>3. \A i \in DOMAIN s : t[i] = s[i]
    BY Zenon, <1>4
  <2> QED BY <2>1, <2>2, <2>3, <1>4, <1>5, Zenon
<1> QED BY Zenon, <1>4, <1>6 DEF s, t

Settles == {"RecordApplied", "RecordNotApplied", "RecordUnknown", "ExpireLease"}

\* What a commit at time t to effect k with lease l does to the status, as far as the
\* safety of the target depends on it.
Move(k, kind, l, t) ==
    LET u == effects[k].status
        n == effects'[k].status
    IN  /\ \A j \in EffectKeys : j # k => effects'[j] = effects[j]
        /\ \A m : m \in LeasesOf(k)' <=> m \in LeasesOf(k) \/ (kind = "Claim" /\ m = l)
        /\ \/ kind = "Create" /\ LeasesOf(k) = {} /\ n.state = "pending"
           \/ /\ kind = "Claim" /\ u.state = "pending"
              /\ n.state = "claimed" /\ n.lease = l /\ n.expires = t + LeaseDuration
              /\ \A j \in EffectKeys : l \notin LeasesOf(j)
           \/ /\ kind \in Settles /\ u.state = "claimed" /\ u.lease = l
              /\ kind = "RecordApplied" => n.state = "applied"
              /\ kind = "RecordNotApplied" => n.state \in {"pending", "rejected"}
              /\ kind \in {"RecordUnknown", "ExpireLease"} => n.state = "unknown" /\ n.lease = l
              /\ kind = "ExpireLease" => t >= u.expires
           \/ /\ kind \in ReconcileKinds /\ u.state = "unknown" /\ u.lease = l
              /\ kind = "ReconcileApplied" => n.state = "applied"
              /\ kind = "ReconcileNotApplied" => n.state \in {"pending", "rejected"}
           \/ kind = "Cancel" /\ u.state = "pending" /\ n.state = "cancelled"

ExecKinds == CommandKinds \ {"RenewLease"}

\* apply_as moves one effect, and the ledger stays in order.
LEMMA ApplyMoves ==
    ASSUME LedgerOK, NEW k \in EffectKeys, NEW rev, NEW id, NEW kind \in ExecKinds, NEW l,
           NEW attempt, NEW ms, NEW t \in Times, NEW actor,
           ApplyAs(k, rev, Command(id, kind, l, attempt, ms), t, actor),
           kind = "Claim" => ms = LeaseDuration /\ \E c \in Cycles : l = << c, k, rev >>
    PROVE  LedgerOK' /\ Move(k, kind, l, t)
<1> DEFINE e == effects[k]
           u == effects[k].status
           cmd == Command(id, kind, l, attempt, ms)
           n == NextStatus(u, cmd, t, actor)
           x == Transition(cmd, actor, t, IF kind = "Cancel" THEN 0 ELSE u.attempt)
<1>1. /\ cmd.kind = kind /\ cmd.lease = l /\ cmd.attempt = attempt /\ cmd.ms = ms /\ cmd.id = id
      /\ x.kind = kind /\ x.lease = l /\ DOMAIN x = TransitionFields
  BY Zenon DEF Command, Transition, TransitionFields
<1>2. /\ Exists(k) /\ Revision(e) = rev /\ CanApply(e, cmd, t, actor)
      /\ effects' = [effects EXCEPT ![k] = AppliedTo(e, cmd, t, actor)]
  BY Zenon DEF ApplyAs, Reply
<1>3. /\ \A j \in EffectKeys : j # k => effects'[j] = effects[j]
      /\ effects'[k] = AppliedTo(e, cmd, t, actor)
      /\ effects' = [j \in EffectKeys |-> effects'[j]]
  BY Zenon, <1>2 DEF LedgerOK
<1>4. /\ DOMAIN effects'[k] = EffectFields
      /\ effects'[k].status = n /\ Tr(k)' = Append(Tr(k), x)
  BY <1>1, <1>3 DEF AppliedTo, EffectFields, Tr
<1>5. Accepts(e, cmd, t, actor) /\ Len(Tr(k)) < MAX_EFFECT_TRANSITIONS /\ Len(Tr(k)) = rev
  BY Zenon, <1>2 DEF CanApply, Revision, Tr
<1>6. StatusOK(k, u) /\ u.attempt \in Nat /\ u.attempt <= MAX_EFFECT_ATTEMPTS /\ u.expires \in Nat
  BY EffectAssumption DEF LedgerOK, EffectOK, StatusOK
<1>7. t \in Nat /\ LeaseDuration \in Nat
  BY EffectAssumption, ExecutionAssumption DEF Times
<1> HIDE DEF x, cmd, n
<1>8. /\ \E S : Tr(k)' \in Seq(S)
      /\ Len(Tr(k)) \in Nat /\ Len(Tr(k)') = Len(Tr(k)) + 1
      /\ DOMAIN Tr(k) = 1 .. Len(Tr(k)) /\ DOMAIN Tr(k)' = 1 .. Len(Tr(k)) + 1
      /\ \A i \in 1 .. Len(Tr(k)) : Tr(k)'[i] = Tr(k)[i]
      /\ Tr(k)'[Len(Tr(k)) + 1] = x
      /\ \A m : m \in LeasesOf(k)' <=> m \in LeasesOf(k) \/ (IsClaim(x) /\ x.lease = m)
  BY Zenon, <1>4, HistoryGrows
<1>9. Tr(k) # << >> /\ Len(Tr(k)) >= 1
  BY <1>2, <1>8 DEF Exists, Tr, LedgerOK, EffectOK
<1>10. \A m : m \in LeasesOf(k)' <=> m \in LeasesOf(k) \/ (kind = "Claim" /\ m = l)
  BY Zenon, <1>1, <1>8 DEF IsClaim
<1>11. /\ DOMAIN n = StatusFields
       /\ n.attempt \in 0 .. MAX_EFFECT_ATTEMPTS
       /\ n.state # "absent" /\ n.state # "cancelled" => n.attempt >= 1
       /\ n.expires \in Nat
       /\ n.state \in {"claimed", "unknown"} => n.lease = l
       /\ n.state = "unknown" => u.state = "claimed" /\ u.lease = l
       /\ n.state = "claimed" => kind = "Claim"
       /\ \/ /\ kind = "Claim" /\ u.state = "pending"
             /\ n.state = "claimed" /\ n.lease = l /\ n.expires = t + LeaseDuration
          \/ /\ kind \in Settles /\ u.state = "claimed" /\ u.lease = l
             /\ kind = "RecordApplied" => n.state = "applied"
             /\ kind = "RecordNotApplied" => n.state \in {"pending", "rejected"}
             /\ kind \in {"RecordUnknown", "ExpireLease"} => n.state = "unknown" /\ n.lease = l
             /\ kind = "ExpireLease" => t >= u.expires
          \/ /\ kind \in ReconcileKinds /\ u.state = "unknown" /\ u.lease = l
             /\ kind = "ReconcileApplied" => n.state = "applied"
             /\ kind = "ReconcileNotApplied" => n.state \in {"pending", "rejected"}
          \/ kind = "Cancel" /\ u.state = "pending" /\ n.state = "cancelled"
  <2>1. CASE kind = "Claim"
    BY <1>1, <1>5, <1>6, <1>7, <2>1
       DEF Accepts, n, NextStatus, Claimed, LeaseExpiration, StatusFields, StatusOK, Settles, ReconcileKinds
  <2>2. CASE kind = "RecordApplied"
    BY Zenon, <1>1, <1>5, <1>6, <1>7, <2>2
       DEF Accepts, n, NextStatus, Applied, Bare, StatusFields, StatusOK, ActiveOwnedLease, Settles, ReconcileKinds
  <2>3. CASE kind = "RecordNotApplied"
    BY <1>1, <1>5, <1>6, <1>7, <2>3
       DEF Accepts, n, NextStatus, SettledNotApplied, RetryAllowed, Pending, Rejected, Bare, StatusFields,
           StatusOK, ActiveOwnedLease, Settles, ReconcileKinds
  <2>4. CASE kind \in {"RecordUnknown", "ExpireLease"}
    BY Zenon, <1>1, <1>5, <1>6, <1>7, <2>4
       DEF Accepts, n, NextStatus, Uncertain, Unknown, Bare, StatusFields, StatusOK, ActiveOwnedLease,
           Settles, ReconcileKinds
  <2>5. CASE kind = "ReconcileApplied"
    BY Zenon, <1>1, <1>5, <1>6, <1>7, <2>5
       DEF Accepts, n, NextStatus, Applied, Bare, StatusFields, StatusOK, ValidateUnknown, Settles, ReconcileKinds
  <2>6. CASE kind = "ReconcileNotApplied"
    BY <1>1, <1>5, <1>6, <1>7, <2>6
       DEF Accepts, n, NextStatus, SettledNotApplied, RetryAllowed, Pending, Rejected, Bare, StatusFields,
           StatusOK, ValidateUnknown, Settles, ReconcileKinds
  <2>7. CASE kind = "Cancel"
    BY <1>1, <1>5, <1>6, <1>7, <2>7, EffectAssumption
       DEF Accepts, n, NextStatus, Cancelled, Bare, StatusFields, StatusOK, NeverClaimed, Settles, ReconcileKinds
  <2> QED BY Zenon, <2>1, <2>2, <2>3, <2>4, <2>5, <2>6, <2>7 DEF ExecKinds, CommandKinds
<1>12. kind = "Claim" => \A j \in EffectKeys : l \notin LeasesOf(j)
  <2> SUFFICES ASSUME kind = "Claim", NEW j \in EffectKeys, l \in LeasesOf(j) PROVE FALSE
    BY Zenon
  <2>1. PICK c \in Cycles : l = << c, k, rev >>
    BY Zenon
  <2>2. PICK d \in Cycles, i \in DOMAIN Tr(j) : l = << d, j, i - 1 >>
    BY Zenon, LeaseNames
  <2>3. j = k /\ rev = i - 1
    BY <2>1, <2>2
  <2>4. i \in 1 .. Len(Tr(k))
    BY Zenon, <2>2, <2>3, <1>8
  <2> QED BY <2>3, <2>4, <1>5, <1>8
<1>13. Move(k, kind, l, t)
  BY Zenon, <1>3, <1>4, <1>10, <1>11, <1>12 DEF Move
<1>14. EffectOK(k)'
  <2>1. \A i \in DOMAIN Tr(k)' : DOMAIN Tr(k)'[i] = TransitionFields
    BY <1>1, <1>8 DEF LedgerOK, EffectOK
  <2>2. ASSUME NEW i \in DOMAIN Tr(k)', IsClaim(Tr(k)'[i])
        PROVE  i > 1 /\ \E c \in Cycles : Tr(k)'[i].lease = << c, k, i - 1 >>
    <3>1. CASE i \in 1 .. Len(Tr(k))
      BY <3>1, <2>2, <1>8 DEF LedgerOK, EffectOK
    <3>2. CASE i = Len(Tr(k)) + 1
      <4>1. Tr(k)'[i] = x /\ kind = "Claim"
        BY Zenon, <3>2, <2>2, <1>8, <1>1 DEF IsClaim
      <4>2. PICK c \in Cycles : l = << c, k, rev >>
        BY Zenon, <4>1
      <4>3. i - 1 = rev /\ i > 1
        BY <3>2, <1>5, <1>8, <1>9
      <4>4. Tr(k)'[i].lease = << c, k, i - 1 >>
        BY Zenon, <4>1, <4>2, <4>3, <1>1
      <4> QED BY Zenon, <4>3, <4>4
    <3> QED BY <3>1, <3>2, <1>8
  <2>3. (StatusOK(k, effects[k].status))'
    <3>1. n.state \in {"claimed", "unknown"} => n.lease \in LeasesOf(k)'
      BY Zenon, <1>6, <1>10, <1>11 DEF StatusOK
    <3> QED BY Zenon, <3>1, <1>4, <1>11 DEF StatusOK
  <2>4. Len(Tr(k)') <= MAX_EFFECT_TRANSITIONS
    BY <1>5, <1>8, EffectAssumption
  <2> QED BY Zenon, <1>4, <1>8, <2>1, <2>2, <2>3, <2>4 DEF EffectOK
<1>15. ASSUME NEW j \in EffectKeys, j # k PROVE EffectOK(j)'
  <2>1. effects'[j] = effects[j]
    BY Zenon, <1>3, <1>15
  <2>2. EffectOK(j)
    BY Zenon DEF LedgerOK
  <2> QED BY Zenon, <2>1, <2>2 DEF EffectOK, StatusOK, LeasesOf, Tr
<1> QED BY Zenon, <1>3, <1>13, <1>14, <1>15 DEF LedgerOK

\* create_as moves one effect that had no history.
LEMMA CreateMoves ==
    ASSUME LedgerOK, NEW k \in EffectKeys, NEW id, NEW key, NEW input, NEW nb \in Times,
           NEW t, NEW actor, CreateAs(k, id, key, input, nb, t, actor)
    PROVE  LedgerOK' /\ Move(k, "Create", NoLease, t)
<1> DEFINE x == Transition(Command(id, "Create", NoLease, 0, nb), actor, t, 0)
           n == Pending(1, nb)
<1>1. x.kind = "Create" /\ DOMAIN x = TransitionFields
  BY Zenon DEF Transition, Command, TransitionFields
<1>2. /\ effects[k].transitions = << >>
      /\ effects' = [effects EXCEPT ![k] = [key |-> key, input |-> input, status |-> n,
                                            transitions |-> << x >>]]
  BY Zenon DEF CreateAs, Exists, NewEffect
<1> HIDE DEF x
<1>3. /\ \A j \in EffectKeys : j # k => effects'[j] = effects[j]
      /\ effects' = [j \in EffectKeys |-> effects'[j]]
      /\ DOMAIN effects'[k] = EffectFields /\ effects'[k].status = n /\ Tr(k)' = << x >>
  BY Zenon, <1>2 DEF LedgerOK, EffectFields, Tr
<1>4. << x >> \in Seq({x}) /\ Len(<< x >>) = 1 /\ DOMAIN << x >> = {1} /\ << x >>[1] = x
  OBVIOUS
<1>5. LeasesOf(k) = {} /\ \A m : m \notin LeasesOf(k)'
  <2>1. LeasesOf(k) = {}
    BY <1>2 DEF LeasesOf
  <2>2. \A i \in DOMAIN Tr(k)' : ~IsClaim(Tr(k)'[i])
    BY Zenon, <1>1, <1>3, <1>4 DEF IsClaim
  <2> QED BY Zenon, <2>1, <2>2 DEF LeasesOf, Tr
<1>6. /\ DOMAIN n = StatusFields /\ n.state = "pending" /\ n.attempt = 1 /\ n.expires = 0
  BY Zenon DEF Pending, Bare, StatusFields
<1> HIDE DEF n
<1>7. EffectOK(k)'
  <2>1. (StatusOK(k, effects[k].status))'
    BY <1>3, <1>6, EffectAssumption DEF StatusOK
  <2>2. \E S : Tr(k)' \in Seq(S)
    BY Zenon, <1>3, <1>4
  <2>3. \A i \in DOMAIN Tr(k)' : DOMAIN Tr(k)'[i] = TransitionFields /\ ~IsClaim(Tr(k)'[i])
    BY Zenon, <1>1, <1>3, <1>4 DEF IsClaim
  <2>4. Len(Tr(k)') <= MAX_EFFECT_TRANSITIONS
    BY <1>3, <1>4, EffectAssumption
  <2> QED BY Zenon, <1>3, <2>1, <2>2, <2>3, <2>4 DEF EffectOK
<1>8. ASSUME NEW j \in EffectKeys, j # k PROVE EffectOK(j)'
  <2>1. effects'[j] = effects[j] /\ EffectOK(j)
    BY Zenon, <1>3, <1>8 DEF LedgerOK
  <2> QED BY Zenon, <2>1 DEF EffectOK, StatusOK, LeasesOf, Tr
<1> QED BY Zenon, <1>3, <1>5, <1>6, <1>7, <1>8 DEF LedgerOK, Move

-----------------------------------------------------------------------------
(* What one commit preserves.                                               *)

\* A lease that was claimed stays so, and one that is not active is never active again.
LEMMA MoveLeases ==
    ASSUME NEW k \in EffectKeys, NEW kind, NEW l, NEW t, Move(k, kind, l, t),
           NEW j \in EffectKeys, NEW m \in LeasesOf(j)
    PROVE  m \in LeasesOf(j)' /\ (~Active(j, m) => ~(Active(j, m)'))
<1>1. CASE j # k
  <2>1. effects'[j] = effects[j]
    BY Zenon, <1>1 DEF Move
  <2> QED BY Zenon, <2>1 DEF LeasesOf, Active
<1>2. CASE j = k
  BY Zenon, <1>2 DEF Move, Active, Settles, ReconcileKinds
<1> QED BY Zenon, <1>1, <1>2

\* The requests sent under the leases of an effect remain those it awaits.
LEMMA MoveTruth ==
    ASSUME LedgerOK, EntriesOK, NEW k \in EffectKeys, NEW kind, NEW l, NEW t, Move(k, kind, l, t),
           UNCHANGED target,
           kind \in {"RecordApplied", "ReconcileApplied"} => l \in landed,
           kind \in {"RecordNotApplied", "ReconcileNotApplied"} => l \notin Sent,
           NEW j \in EffectKeys, Truth(j)
    PROVE  Truth(j)'
<1>0. Sent' = Sent /\ landed' = landed
  BY Zenon DEF target, Sent
<1>1. CASE j # k
  <2>1. effects'[j] = effects[j]
    BY Zenon, <1>1 DEF Move
  <2>2. LeasesOf(j)' = LeasesOf(j)
    BY Zenon, <2>1 DEF LeasesOf
  <2> QED BY Zenon, <1>0, <2>1, <2>2 DEF Truth, Awaited
<1>2. CASE j = k
  <2>1. \A m : m \in LeasesOf(k)' <=> m \in LeasesOf(k) \/ (kind = "Claim" /\ m = l)
    BY Zenon DEF Move
  <2>2. CASE kind = "Create"
    BY Zenon, <1>0, <1>2, <2>1, <2>2 DEF Move, Truth, Settles, ReconcileKinds
  <2>3. CASE kind = "Claim"
    <3>1. l \notin Sent
      BY Zenon, <2>3 DEF Move, EntriesOK, Settles, ReconcileKinds
    <3>2. \A m \in LeasesOf(k) : m \notin Sent
      BY Zenon, <1>2, <2>3 DEF Move, Truth, Awaited, Settles, ReconcileKinds
    <3> QED BY Zenon, <1>0, <1>2, <2>1, <2>3, <3>1, <3>2 DEF Move, Truth, Settles, ReconcileKinds
  <2>4. CASE kind \in Settles \cup ReconcileKinds
    <3>1. /\ effects[k].status.state \in {"claimed", "unknown"} /\ effects[k].status.lease = l
          /\ \A m : m \in LeasesOf(k)' <=> m \in LeasesOf(k)
      BY Zenon, <2>1, <2>4 DEF Move, Settles, ReconcileKinds
    <3>2. l \in LeasesOf(k)
      BY Zenon, <3>1 DEF LedgerOK, EffectOK, StatusOK
    <3>3. \A m \in LeasesOf(k) : m \in Sent => m = l
      BY Zenon, <1>2, <3>1 DEF Truth, Awaited
    <3>4. CASE kind \in {"RecordApplied", "ReconcileApplied"}
      <4>1. effects'[k].status.state = "applied" /\ l \in landed
        BY Zenon, <2>4, <3>4 DEF Move, Settles, ReconcileKinds
      <4> QED BY <1>0, <1>2, <3>1, <3>2, <3>3, <4>1 DEF Truth
    <3>5. CASE kind \in {"RecordNotApplied", "ReconcileNotApplied"}
      <4>1. effects'[k].status.state # "applied" /\ l \notin Sent
        BY Zenon, <2>4, <3>5 DEF Move, Settles, ReconcileKinds
      <4> QED BY Zenon, <1>0, <1>2, <3>1, <3>3, <4>1 DEF Truth
    <3>6. CASE kind \in {"RecordUnknown", "ExpireLease"}
      <4>1. effects'[k].status.state = "unknown" /\ effects'[k].status.lease = l
        BY Zenon, <2>4, <3>6 DEF Move, Settles, ReconcileKinds
      <4> QED BY Zenon, <1>0, <1>2, <3>1, <3>3, <4>1 DEF Truth, Awaited
    <3> QED BY Zenon, <2>4, <3>4, <3>5, <3>6 DEF Settles, ReconcileKinds
  <2>5. CASE kind = "Cancel"
    <3>1. \A m \in LeasesOf(k) : m \notin Sent
      BY Zenon, <1>2, <2>5 DEF Move, Truth, Awaited, Settles, ReconcileKinds
    <3> QED BY Zenon, <1>0, <1>2, <2>1, <2>5, <3>1 DEF Move, Truth, Settles, ReconcileKinds
  <2> QED BY Zenon, <2>2, <2>3, <2>4, <2>5 DEF Move
<1> QED BY Zenon, <1>1, <1>2

\* A commit disturbs no worker that is not the one whose lease it settles.
LEMMA MoveWorker ==
    ASSUME LedgerOK, NEW k \in EffectKeys, NEW kind, NEW l, NEW t, Move(k, kind, l, t),
           UNCHANGED << now, inFlight, landed, entries >>, now \in Times, t \in Nat,
           kind = "ExpireLease" => t <= now,
           NEW s, WorkerOK(s),
           s.pc \in {"admit", "dispatch"} /\ Lease(s) = l
               => kind \notin {"RecordApplied", "RecordNotApplied", "RecordUnknown"}
    PROVE  WorkerOK(s)'
<1> DEFINE m == Lease(s)
<1>1. Sent' = Sent /\ entries' = entries /\ now' = now /\ landed' = landed
  BY Zenon DEF Sent
<1>2. s.pc \in Past => m \in LeasesOf(s.k) /\ m \in LeasesOf(s.k)' /\ s.k \in EffectKeys
                      /\ (~Active(s.k, m) => ~(Active(s.k, m)'))
  BY Zenon, MoveLeases DEF WorkerOK, Past
<1>3. ASSUME s.pc \in {"admit", "dispatch"}
      PROVE  /\ Active(s.k, m)' => effects'[s.k].status.expires = s.at + LeaseDuration
             /\ ~(Active(s.k, m)') => now >= s.at + LeaseDuration
  <2>1. /\ m \in LeasesOf(s.k) /\ s.k \in EffectKeys /\ s.at \in Nat /\ LeaseDuration \in Nat
        /\ Active(s.k, m) => effects[s.k].status.expires = s.at + LeaseDuration
        /\ ~Active(s.k, m) => now >= s.at + LeaseDuration
        /\ now \in Nat
    <3>1. /\ m \in LeasesOf(s.k) /\ s.k \in EffectKeys /\ s.at \in Times
          /\ Active(s.k, m) => effects[s.k].status.expires = s.at + LeaseDuration
          /\ ~Active(s.k, m) => now >= s.at + LeaseDuration
      BY Zenon, <1>2, <1>3 DEF WorkerOK, Past
    <3>2. Times \subseteq Nat /\ LeaseDuration \in Nat
      BY EffectAssumption, ExecutionAssumption DEF Times
    <3> QED BY Zenon, <3>1, <3>2
  <2>2. CASE s.k # k
    <3>1. effects'[s.k] = effects[s.k]
      BY Zenon, <2>1, <2>2 DEF Move
    <3> QED BY Zenon, <2>1, <3>1 DEF Active
  <2>3. CASE s.k = k /\ ~Active(k, m)
    BY Zenon, <1>2, <1>3, <2>1, <2>3 DEF Past
  <2>4. CASE s.k = k /\ Active(k, m)
    <3>1. effects[k].status.state = "claimed" /\ effects[k].status.lease = m
      BY Zenon, <2>4 DEF Active
    <3>2. kind \in Settles /\ m = l
      BY Zenon, <2>1, <2>4, <3>1 DEF Move, ReconcileKinds
    <3>3. kind = "ExpireLease"
      BY Zenon, <1>3, <3>2 DEF Settles
    <3>4. t >= effects[k].status.expires /\ effects'[k].status.state = "unknown"
      BY Zenon, <3>2, <3>3 DEF Move, Settles, ReconcileKinds
    <3>5. t <= now
      BY Zenon, <3>3
    <3> QED BY <2>1, <2>4, <3>4, <3>5 DEF Active
  <2> QED BY Zenon, <2>2, <2>3, <2>4
<1> QED BY Zenon, <1>1, <1>2, <1>3 DEF WorkerOK

\* What a step keeps beside its own worker.
Keeps ==
    /\ LedgerOK' /\ now' \in Times /\ EntriesOK'
    /\ \A j \in EffectKeys : Truth(j)'
    /\ \A s : ReconcilerOK(s) => ReconcilerOK(s)'
    /\ \A s : DriverOK(s) => DriverOK(s)'

\* A step that leaves ledger and target alone, while time may pass.
LEMMA QuietKeeps ==
    ASSUME ExecInv, UNCHANGED << effects, target >>, now' \in Times, now' >= now
    PROVE  Keeps /\ \A s : WorkerOK(s) => WorkerOK(s)'
<1>1. /\ \A j : LeasesOf(j)' = LeasesOf(j) /\ Tr(j)' = Tr(j)
      /\ Sent' = Sent /\ landed' = landed /\ inFlight' = inFlight /\ entries' = entries
  BY Zenon DEF LeasesOf, Tr, target, Sent
<1>2. LedgerOK'
  BY Zenon, <1>1 DEF ExecInv, LedgerOK, EffectOK, StatusOK
<1>3. EntriesOK' /\ \A j \in EffectKeys : Truth(j)'
  BY Zenon, <1>1 DEF ExecInv, EntriesOK, Truth, Awaited
<1>4. \A s : ReconcilerOK(s) => ReconcilerOK(s)'
  BY Zenon, <1>1 DEF ReconcilerOK, Active
<1>5. \A s : DriverOK(s) => DriverOK(s)'
  BY DEF ExecInv, DriverOK, Times
<1>6. ASSUME NEW s, WorkerOK(s) PROVE WorkerOK(s)'
  <2>0. s.pc \in {"admit", "dispatch"} => s.at \in Times
    BY Zenon, <1>6 DEF WorkerOK
  <2>1. s.at \in Times => s.at \in Nat
    BY DEF Times
  <2>2. s.pc \in {"admit", "dispatch"} /\ now >= s.at + LeaseDuration
            => now' >= s.at + LeaseDuration
    <3>1. LeaseDuration \in Nat
      BY EffectAssumption, ExecutionAssumption
    <3>2. now \in Nat /\ now' \in Nat
      BY DEF ExecInv, Times
    <3> QED BY <2>0, <2>1, <3>1, <3>2
  <2> QED BY Zenon, <1>1, <1>6, <2>2 DEF WorkerOK, Active
<1> QED BY Zenon, <1>2, <1>3, <1>4, <1>5, <1>6 DEF Keeps

\* A commit whose report about the target is true.
LEMMA CommitKeeps ==
    ASSUME ExecInv, NEW k \in EffectKeys, NEW kind, NEW l, NEW t \in Times,
           LedgerOK', Move(k, kind, l, t), UNCHANGED << now, target >>,
           kind \in {"RecordApplied", "ReconcileApplied"} => l \in landed,
           kind \in {"RecordNotApplied", "ReconcileNotApplied"} => l \notin Sent,
           kind = "ExpireLease" => t <= now
    PROVE  /\ Keeps
           /\ \A s : /\ WorkerOK(s)
                     /\ s.pc \in {"admit", "dispatch"} /\ Lease(s) = l
                          => kind \notin {"RecordApplied", "RecordNotApplied", "RecordUnknown"}
                     => WorkerOK(s)'
<1>1. /\ Sent' = Sent /\ landed' = landed /\ inFlight' = inFlight /\ entries' = entries
      /\ now' = now /\ UNCHANGED target /\ UNCHANGED << now, inFlight, landed, entries >>
  BY Zenon DEF target, Sent
<1>2. LedgerOK /\ EntriesOK /\ now \in Times /\ \A j \in EffectKeys : Truth(j)
  BY Zenon DEF ExecInv
<1>3. \A j \in EffectKeys : Truth(j)'
  BY Zenon, <1>1, <1>2, MoveTruth
<1>4. EntriesOK'
  BY Zenon, <1>1, <1>2, MoveLeases DEF EntriesOK
<1>5. \A s : DriverOK(s) => DriverOK(s)'
  BY Zenon, <1>1 DEF DriverOK
<1>6. ASSUME NEW s, ReconcilerOK(s) PROVE ReconcilerOK(s)'
  <2>1. s.pc # "idle" => s.lease \in LeasesOf(s.k)' /\ ~(Active(s.k, s.lease)')
    BY Zenon, <1>6, MoveLeases DEF ReconcilerOK
  <2> QED BY Zenon, <1>1, <1>6, <2>1 DEF ReconcilerOK
<1>7. t \in Nat
  BY DEF Times
<1>8. ASSUME NEW s, WorkerOK(s),
             s.pc \in {"admit", "dispatch"} /\ Lease(s) = l
               => kind \notin {"RecordApplied", "RecordNotApplied", "RecordUnknown"}
      PROVE  WorkerOK(s)'
  BY Zenon, <1>1, <1>2, <1>7, <1>8, MoveWorker
<1> QED BY Zenon, <1>1, <1>2, <1>3, <1>4, <1>5, <1>6, <1>8 DEF Keeps

\* One worker goes on, with its lease or with one that no other worker holds.
LEMMA WorkerBecomes ==
    ASSUME WorkersInv, NEW w \in Workers, NEW x, Become(w, x), WorkerOK(x)',
           \A v \in Workers : \A s : v # w /\ s = worker[v] => WorkerOK(s)',
           x.pc \in Past =>
               \/ worker[w].pc \in Past /\ Lease(x) = Lease(worker[w])
               \/ \A v \in Workers : v # w /\ worker[v].pc \in Past => Lease(worker[v]) # Lease(x)
    PROVE  WorkersInv'
<1>1. /\ worker' = [v \in Workers |-> worker'[v]] /\ worker'[w] = x
      /\ \A v \in Workers : v # w => worker'[v] = worker[v]
  BY Zenon DEF Become, WorkersInv
<1>2. ASSUME NEW v \in Workers PROVE WorkerOK(worker[v])'
  BY Zenon, <1>1
<1>3. LeasesApart'
  <2> SUFFICES ASSUME NEW u \in Workers, NEW v \in Workers, u # v,
                      worker'[u].pc \in Past, worker'[v].pc \in Past
               PROVE  Lease(worker'[u]) # Lease(worker'[v])
    BY Zenon DEF LeasesApart, Lease
  <2> QED BY Zenon, <1>1 DEF WorkersInv, LeasesApart
<1> QED BY Zenon, <1>1, <1>2, <1>3 DEF WorkersInv

\* Nobody moves.
LEMMA WorkersSame ==
    ASSUME WorkersInv, UNCHANGED worker, \A v \in Workers : \A s : s = worker[v] => WorkerOK(s)'
    PROVE  WorkersInv'
<1>1. \A v \in Workers : WorkerOK(worker[v])'
  BY Zenon
<1> QED BY Zenon, <1>1 DEF WorkersInv, LeasesApart, Lease

LEMMA HostsSame ==
    ASSUME HostsInv, Keeps, UNCHANGED << reconciler, driver >>
    PROVE  HostsInv'
<1>1. \A r \in Reconcilers : ReconcilerOK(reconciler[r])'
  BY Zenon DEF HostsInv, Keeps
<1>2. \A d \in Drivers : DriverOK(driver[d])'
  BY Zenon DEF HostsInv, Keeps
<1> QED BY Zenon, <1>1, <1>2 DEF HostsInv

LEMMA ReconcilerBecomes ==
    ASSUME HostsInv, Keeps, UNCHANGED driver, NEW r \in Reconcilers, NEW x, ReconcilerOK(x)',
           reconciler' = [reconciler EXCEPT ![r] = x]
    PROVE  HostsInv'
<1>1. /\ reconciler' = [q \in Reconcilers |-> reconciler'[q]] /\ reconciler'[r] = x
      /\ \A q \in Reconcilers : q # r => reconciler'[q] = reconciler[q]
  BY Zenon DEF HostsInv
<1>2. ASSUME NEW q \in Reconcilers PROVE ReconcilerOK(reconciler[q])'
  BY Zenon, <1>1 DEF HostsInv, Keeps
<1>3. \A d \in Drivers : DriverOK(driver[d])'
  BY Zenon DEF HostsInv, Keeps
<1> QED BY Zenon, <1>1, <1>2, <1>3 DEF HostsInv

LEMMA DriverBecomes ==
    ASSUME HostsInv, Keeps, UNCHANGED reconciler, NEW d \in Drivers, NEW x, DriverOK(x)',
           driver' = [driver EXCEPT ![d] = x]
    PROVE  HostsInv'
<1>1. /\ driver' = [q \in Drivers |-> driver'[q]] /\ driver'[d] = x
      /\ \A q \in Drivers : q # d => driver'[q] = driver[q]
  BY Zenon DEF HostsInv
<1>2. ASSUME NEW q \in Drivers PROVE DriverOK(driver[q])'
  BY Zenon, <1>1 DEF HostsInv, Keeps
<1>3. \A r \in Reconcilers : ReconcilerOK(reconciler[r])'
  BY Zenon DEF HostsInv, Keeps
<1> QED BY Zenon, <1>1, <1>2, <1>3 DEF HostsInv

-----------------------------------------------------------------------------
(* The actions.                                                             *)

\* A worker that ends leaves nothing behind in its own state.
LEMMA IdleFits == WorkerOK(Idle)' /\ Idle.pc \notin Past
BY Zenon DEF WorkerOK, Idle, WorkerFields, Past

LEMMA NoLookupFits == ReconcilerOK(NoLookup)' /\ DriverOK(NoDue)'
BY Zenon DEF ReconcilerOK, NoLookup, LookupFields, DriverOK

\* Clients.
LEMMA ClientsKeep ==
    ASSUME ExecInv, NEW k \in EffectKeys, CreateEffect(k) \/ CancelEffect(k)
    PROVE  ExecInv'
<1>1. PICK kind \in {"Create", "Cancel"} :
          LedgerOK' /\ Move(k, kind, NoLease, now) /\ UNCHANGED << now, target >>
                    /\ UNCHANGED << worker, reconciler, driver >>
  <2>1. CASE CreateEffect(k)
    BY Zenon, <2>1, CreateMoves DEF CreateEffect, ExecInv
  <2>2. CASE CancelEffect(k)
    BY <2>2, ApplyMoves DEF CancelEffect, ExecInv, ExecKinds, CommandKinds
  <2> QED BY Zenon, <2>1, <2>2
<1>2. now \in Times /\ WorkersInv /\ HostsInv
  BY Zenon DEF ExecInv
<1>3. Keeps /\ \A s : WorkerOK(s) => WorkerOK(s)'
  BY Zenon, <1>1, <1>2, CommitKeeps
<1>4. WorkersInv'
  BY Zenon, <1>1, <1>2, <1>3, WorkersSame DEF WorkersInv
<1>5. HostsInv'
  BY Zenon, <1>1, <1>2, <1>3, HostsSame
<1> QED BY Zenon, <1>3, <1>4, <1>5 DEF ExecInv, Keeps

LEMMA TickKeeps == ASSUME ExecInv, Tick PROVE ExecInv'
<1>1. now' \in Times /\ now' >= now /\ UNCHANGED << effects, target, worker, reconciler, driver >>
  BY EffectAssumption DEF Tick, ExecInv, Times
<1>2. Keeps /\ \A s : WorkerOK(s) => WorkerOK(s)'
  BY Zenon, <1>1, QuietKeeps
<1>3. WorkersInv'
  BY Zenon, <1>1, <1>2, WorkersSame DEF ExecInv, WorkersInv
<1>4. HostsInv'
  BY Zenon, <1>1, <1>2, HostsSame DEF ExecInv
<1> QED BY Zenon, <1>2, <1>3, <1>4 DEF ExecInv, Keeps

\* A step of one worker between its commits and its call of the connector.
LEMMA QuietWorker ==
    ASSUME ExecInv, NEW w \in Workers, NEW x, Become(w, x), WorkerOK(x),
           x.pc \in Past => worker[w].pc \in Past /\ Lease(x) = Lease(worker[w]),
           UNCHANGED << effects, now, reconciler, driver, target >>
    PROVE  ExecInv'
<1>1. now' \in Times /\ now' >= now /\ UNCHANGED << effects, target >>
  BY DEF ExecInv, Times
<1>2. Keeps /\ \A s : WorkerOK(s) => WorkerOK(s)'
  BY Zenon, <1>1, QuietKeeps
<1>3. WorkersInv'
  BY Zenon, <1>2, WorkerBecomes DEF ExecInv, WorkersInv
<1>4. HostsInv'
  BY Zenon, <1>2, HostsSame DEF ExecInv
<1> QED BY Zenon, <1>2, <1>3, <1>4 DEF ExecInv, Keeps

LEMMA QuietWorkers ==
    ASSUME ExecInv, NEW w \in Workers,
           \/ \E k \in EffectKeys, cycle \in Cycles : Scan(w, k, cycle)
           \/ Authorize(w) \/ Admit(w) \/ CancelDispatch(w) \/ Return(w) \/ Stop(w)
    PROVE  ExecInv'
<1>0. /\ WorkerOK(worker[w]) /\ now \in Times /\ LedgerOK
      /\ now .. MaxTime \subseteq Times
  BY DEF ExecInv, WorkersInv, Times
<1>1. ASSUME NEW k \in EffectKeys, NEW cycle \in Cycles, Scan(w, k, cycle) PROVE ExecInv'
  <2>1. PICK x : x = [Idle EXCEPT !.pc = "authorize", !.cycle = cycle, !.k = k,
                                  !.rev = Revision(effects[k])]
    BY Zenon
  <2>2. Len(Tr(k)) \in Nat
    BY <1>0 DEF LedgerOK, EffectOK
  <2>3. WorkerOK(x) /\ x.pc \notin Past
    BY Zenon, <2>1, <2>2 DEF WorkerOK, Idle, WorkerFields, Past, Revision, Tr
  <2> QED BY Zenon, <1>1, <2>1, <2>3, QuietWorker DEF Scan
<1>2. CASE Authorize(w)
  <2>1. PICK x : x = [worker[w] EXCEPT !.pc = "claim", !.at = now]
    BY Zenon
  <2>2. WorkerOK(x) /\ x.pc \notin Past
    BY Zenon, <1>0, <1>2, <2>1 DEF WorkerOK, WorkerFields, Past, Authorize
  <2> QED BY Zenon, <1>2, <2>1, <2>2, QuietWorker DEF Authorize
<1>3. ASSUME NEW retryAt \in Times, worker[w].pc \in {"admit", "dispatch"},
             SettleUnentered(w, retryAt), UNCHANGED << effects, now, reconciler, driver, target >>
      PROVE  ExecInv'
  <2>1. PICK x : x = [worker[w] EXCEPT !.pc = "settle", !.at = now,
                                       !.kind = "RecordNotApplied", !.ms = retryAt]
    BY Zenon
  <2>2. Lease(x) = Lease(worker[w]) /\ worker[w].pc \in Past
    BY Zenon, <1>0, <1>3, <2>1 DEF WorkerOK, WorkerFields, Past, Lease
  <2>3. Lease(worker[w]) \notin Sent
    BY <1>0, <1>3, LeaseNames DEF WorkerOK, Past, ExecInv, EntriesOK
  <2>4. WorkerOK(x)
    BY Zenon, <1>0, <1>3, <2>1, <2>2, <2>3 DEF WorkerOK, WorkerFields, Past
  <2> QED BY Zenon, <1>3, <2>1, <2>2, <2>4, QuietWorker DEF SettleUnentered
<1>4. CASE Admit(w)
  <2>1. CASE Become(w, [worker[w] EXCEPT !.pc = "dispatch"])
    <3>1. PICK x : x = [worker[w] EXCEPT !.pc = "dispatch"]
      BY Zenon
    <3>2. Lease(x) = Lease(worker[w]) /\ worker[w].pc = "admit" /\ "admit" \in Past
      BY Zenon, <1>0, <1>4, <3>1 DEF WorkerOK, WorkerFields, Past, Lease, Admit
    <3>3. WorkerOK(x)
      BY Zenon, <1>0, <3>1, <3>2 DEF WorkerOK, WorkerFields, Past
    <3> QED BY Zenon, <1>4, <2>1, <3>1, <3>2, <3>3, QuietWorker DEF Admit
  <2> QED BY Zenon, <1>0, <1>3, <1>4, <2>1 DEF Admit
<1>5. CASE CancelDispatch(w)
  BY Zenon, <1>0, <1>3, <1>5 DEF CancelDispatch
<1>6. CASE Return(w)
  <2>1. PICK o \in Outcomes(LeaseOf(w)) :
            Become(w, [worker[w] EXCEPT !.pc = "settle", !.at = now, !.kind = o[1], !.ms = o[2]])
    BY Zenon, <1>6 DEF Return
  <2>2. PICK x : x = [worker[w] EXCEPT !.pc = "settle", !.at = now, !.kind = o[1], !.ms = o[2]]
    BY Zenon
  <2>3. /\ Lease(x) = Lease(worker[w]) /\ worker[w].pc = "await" /\ "await" \in Past
        /\ LeaseOf(w) = Lease(worker[w])
    BY Zenon, <1>0, <1>6, <2>2 DEF WorkerOK, WorkerFields, Past, Lease, LeaseOf, Return
  <2>4. \/ o[1] = "RecordApplied" /\ o[2] \in Times /\ LeaseOf(w) \in landed
        \/ o[1] = "RecordNotApplied" /\ o[2] \in Times \cup {NoRetry} /\ LeaseOf(w) \notin Sent
        \/ o[1] = "RecordUnknown" /\ o[2] = 0
    BY <1>0, <2>1 DEF Outcomes, Sent
  <2>5. WorkerOK(x)
    BY Zenon, <1>0, <2>2, <2>3, <2>4 DEF WorkerOK, WorkerFields, Past
  <2> QED BY Zenon, <1>6, <2>1, <2>2, <2>3, <2>5, QuietWorker DEF Return
<1>7. CASE Stop(w)
  <2>1. PICK x : x = Idle
    BY Zenon
  <2>2. WorkerOK(x) /\ x.pc \notin Past
    BY Zenon, <2>1 DEF WorkerOK, Idle, WorkerFields, Past
  <2> QED BY Zenon, <1>7, <2>1, <2>2, QuietWorker DEF Stop
<1> QED BY Zenon, <1>1, <1>2, <1>4, <1>5, <1>6, <1>7

\* The Claim: a worker that commits one holds a lease nobody has used.
LEMMA ClaimKeeps == ASSUME ExecInv, NEW w \in Workers, CommitClaim(w) PROVE ExecInv'
<1>0. PICK s : s = worker[w]
  BY Zenon
<1> DEFINE l == Lease(s)
           t == s.at
           k == s.k
           rev == s.rev
           reply == Reply(k, rev, ClaimCommand(w), t, Actor(w))
<1>1. /\ WorkersInv /\ HostsInv /\ LedgerOK /\ EntriesOK
      /\ WorkerOK(s) /\ s.pc = "claim"
      /\ UNCHANGED << now, reconciler, driver, target >>
  BY Zenon, <1>0 DEF ExecInv, WorkersInv, CommitClaim
<1>2. k \in EffectKeys /\ t \in Times /\ s.cycle \in Cycles /\ DOMAIN s = WorkerFields
  BY Zenon, <1>1 DEF WorkerOK
<1>3. CASE reply # "applied"
  <2>1. UNCHANGED effects
    BY Zenon, <1>0, <1>3 DEF CommitClaim, ApplyAs
  <2>2. PICK x : x = Idle
    BY Zenon
  <2>3. Become(w, x) /\ WorkerOK(x) /\ x.pc \notin Past
    BY Zenon, <1>0, <1>3, <2>2 DEF CommitClaim, ClaimGranted, WorkerOK, Idle, WorkerFields, Past
  <2> QED BY Zenon, <1>1, <2>1, <2>3, QuietWorker
<1>4. CASE reply = "applied"
  <2>1. PICK x : x = [s EXCEPT !.pc = "admit"]
    BY Zenon
  <2>2. Become(w, x) /\ ApplyAs(k, rev, ClaimCommand(w), t, Actor(w))
    BY Zenon, <1>0, <1>4, <2>1 DEF CommitClaim, ClaimGranted
  <2>3. ClaimCommand(w) = Command(<< "claim", l >>, "Claim", l, 0, LeaseDuration)
    BY Zenon, <1>0 DEF ClaimCommand, LeaseOf, Lease
  <2>4. \E c \in Cycles : l = << c, k, rev >>
    BY Zenon, <1>2 DEF Lease
  <2>5. LedgerOK' /\ Move(k, "Claim", l, t)
    BY Zenon, <1>1, <1>2, <2>2, <2>3, <2>4, ApplyMoves DEF ExecKinds, CommandKinds
  <2>6. Keeps /\ \A y : WorkerOK(y) => WorkerOK(y)'
    BY <1>1, <1>2, <2>5, CommitKeeps
  <2>7. /\ l \in LeasesOf(k)' /\ \A j \in EffectKeys : l \notin LeasesOf(j)
        /\ Active(k, l)' /\ effects'[k].status.expires = t + LeaseDuration
    BY Zenon, <2>5 DEF Move, Active, Settles, ReconcileKinds
  <2>8. l \in LeaseIds
    <3>1. Len(Tr(k)) = rev /\ rev < MAX_EFFECT_TRANSITIONS /\ Tr(k) # << >>
      BY Zenon, <2>2 DEF ApplyAs, Reply, CanApply, Exists, Revision, Tr
    <3>2. rev \in 1 .. MAX_EFFECT_TRANSITIONS
      <4>1. PICK S : Tr(k) \in Seq(S)
        BY Zenon, <1>1, <1>2 DEF LedgerOK, EffectOK
      <4>2. Len(Tr(k)) \in Nat /\ Len(Tr(k)) # 0
        BY <3>1, <4>1
      <4> QED BY <3>1, <4>2, EffectAssumption
    <3> QED BY Zenon, <1>2, <3>2, ExecutionAssumption DEF Lease
  <2>9. entries'[l] = 0
    BY Zenon, <1>1, <2>7, <2>8 DEF EntriesOK, target
  <2>10. /\ Lease(x) = l /\ x.k = k /\ x.at = t /\ x.pc = "admit" /\ x.cycle = s.cycle
         /\ x.rev = rev /\ DOMAIN x = WorkerFields
    BY Zenon, <1>2, <2>1 DEF Lease, WorkerFields
  <2>11. rev \in Nat
    BY Zenon, <1>1 DEF WorkerOK
  <2>12. WorkerOK(x)'
    BY Zenon, <1>2, <2>7, <2>9, <2>10, <2>11 DEF WorkerOK, Past, Active
  <2>13. \A v \in Workers : worker[v].pc \in Past => Lease(worker[v]) # Lease(x)
    BY Zenon, <1>1, <2>7, <2>10 DEF WorkersInv, WorkerOK, Past
  <2>14. WorkersInv'
    BY Zenon, <1>1, <2>2, <2>6, <2>12, <2>13, WorkerBecomes DEF WorkersInv
  <2>15. HostsInv'
    BY Zenon, <1>1, <2>6, HostsSame
  <2> QED BY Zenon, <2>6, <2>14, <2>15 DEF ExecInv, Keeps
<1> QED BY Zenon, <1>3, <1>4

\* The settlement: what a worker reports of its own lease.
LEMMA SettleKeeps == ASSUME ExecInv, NEW w \in Workers, Settle(w) PROVE ExecInv'
<1> DEFINE l == Lease(worker[w])
           t == worker[w].at
           k == worker[w].k
           kind == worker[w].kind
<1>1. /\ WorkersInv /\ HostsInv /\ LedgerOK
      /\ WorkerOK(worker[w]) /\ worker[w].pc = "settle"
      /\ UNCHANGED << now, reconciler, driver, target >>
  BY Zenon DEF ExecInv, WorkersInv, Settle
<1>2. PICK x : x = Idle
  BY Zenon
<1>3. Become(w, x) /\ WorkerOK(x) /\ WorkerOK(x)' /\ x.pc \notin Past
  BY Zenon, <1>2 DEF Settle, WorkerOK, Idle, WorkerFields, Past
<1>4. CASE UNCHANGED effects
  BY Zenon, <1>1, <1>3, <1>4, QuietWorker
<1>5. CASE ApplyAs(k, worker[w].rev + 1, SettleCommand(w), t, Actor(w))
  <2>1. /\ k \in EffectKeys /\ t \in Times
        /\ kind \in {"RecordApplied", "RecordNotApplied", "RecordUnknown"}
        /\ kind = "RecordApplied" => l \in landed
        /\ kind = "RecordNotApplied" => l \notin Sent
    BY Zenon, <1>1 DEF WorkerOK
  <2>2. SettleCommand(w) = Command(<< kind, l >>, kind, l, 0, worker[w].ms)
    BY Zenon DEF SettleCommand, LeaseOf, Lease
  <2>3. LedgerOK' /\ Move(k, kind, l, t)
    BY Zenon, <1>1, <1>5, <2>1, <2>2, ApplyMoves DEF ExecKinds, CommandKinds
  <2>4. /\ Keeps
        /\ \A s : WorkerOK(s) /\ (s.pc \in {"admit", "dispatch"} => Lease(s) # l) => WorkerOK(s)'
    BY <1>1, <2>1, <2>3, CommitKeeps
  <2>5. \A v \in Workers : v # w /\ worker[v].pc \in {"admit", "dispatch"} => Lease(worker[v]) # l
    BY Zenon, <1>1 DEF WorkersInv, LeasesApart, Past
  <2>6. WorkersInv'
    BY Zenon, <1>1, <1>3, <2>4, <2>5, WorkerBecomes DEF WorkersInv
  <2>7. HostsInv'
    BY Zenon, <1>1, <2>4, HostsSame
  <2> QED BY Zenon, <2>4, <2>6, <2>7 DEF ExecInv, Keeps
<1> QED BY Zenon, <1>4, <1>5 DEF Settle

\* The call of the connector.  Its request is sent only before the lease ends, when the
\* ledger still shows that lease.
LEMMA EnterKeeps == ASSUME ExecInv, NEW w \in Workers, Enter(w) PROVE ExecInv'
<1> DEFINE l == Lease(worker[w])
           k == worker[w].k
<1>1. /\ WorkersInv /\ HostsInv /\ LedgerOK /\ EntriesOK /\ now \in Times
      /\ WorkerOK(worker[w]) /\ worker[w].pc = "dispatch" /\ l = LeaseOf(w)
      /\ UNCHANGED << effects, now, reconciler, driver, landed >>
      /\ \A j \in EffectKeys : Truth(j)
  BY Zenon DEF ExecInv, WorkersInv, Enter, Lease, LeaseOf
<1>2. /\ k \in EffectKeys /\ l \in LeasesOf(k) /\ entries[l] = 0 /\ worker[w].at \in Times
      /\ ~Active(k, l) => now >= worker[w].at + LeaseDuration
  BY Zenon, <1>1 DEF WorkerOK, Past
<1>3. l \in LeaseIds /\ \A j \in EffectKeys : l \in LeasesOf(j) => j = k
  BY <1>1, <1>2, LeaseNames
<1>4. \A j : LeasesOf(j)' = LeasesOf(j) /\ Tr(j)' = Tr(j)
  BY Zenon, <1>1 DEF LeasesOf, Tr
<1>5. /\ \A m : m \in Sent' <=> m \in Sent \/ (m = l /\ now < worker[w].at + LeaseDuration)
      /\ landed' = landed
  BY Zenon, <1>1 DEF Enter, Sent
<1>6. now < worker[w].at + LeaseDuration => Active(k, l)
  <2>1. LeaseDuration \in Nat
    BY EffectAssumption, ExecutionAssumption
  <2>2. now \in Nat /\ worker[w].at \in Nat
    BY <1>1, <1>2 DEF Times
  <2> QED BY <1>2, <2>1, <2>2
<1>7. entries' = [entries EXCEPT ![l] = 1]
  BY <1>1, <1>2, <1>3 DEF Enter, EntriesOK
<1>8. LedgerOK'
  BY Zenon, <1>1, <1>4 DEF LedgerOK, EffectOK, StatusOK
<1>9. EntriesOK'
  BY <1>1, <1>2, <1>3, <1>4, <1>5, <1>7 DEF EntriesOK
<1>10. ASSUME NEW j \in EffectKeys PROVE Truth(j)'
  <2>1. effects' = effects /\ Truth(j)
    BY Zenon, <1>1
  <2>2. CASE j # k
    BY <1>3, <1>4, <1>5, <2>1, <2>2 DEF Truth, Awaited
  <2>3. CASE j = k /\ now < worker[w].at + LeaseDuration
    BY Zenon, <1>4, <1>5, <1>6, <2>1, <2>3 DEF Truth, Awaited, Active
  <2>4. CASE j = k /\ ~(now < worker[w].at + LeaseDuration)
    BY Zenon, <1>4, <1>5, <2>1, <2>4 DEF Truth, Awaited
  <2> QED BY Zenon, <2>2, <2>3, <2>4
<1>11. ASSUME NEW s, ReconcilerOK(s) PROVE ReconcilerOK(s)'
  <2>1. s.pc # "idle" => (s.lease \in Sent' <=> s.lease \in Sent)
    BY <1>3, <1>5, <1>6, <1>11 DEF ReconcilerOK
  <2> QED BY Zenon, <1>1, <1>4, <1>5, <1>11, <2>1 DEF ReconcilerOK, Active
<1>12. \A s : DriverOK(s) => DriverOK(s)'
  BY Zenon, <1>1 DEF DriverOK
<1>13. Keeps
  BY Zenon, <1>1, <1>8, <1>9, <1>10, <1>11, <1>12 DEF Keeps
<1>14. ASSUME NEW s, WorkerOK(s), s.pc \in Past => Lease(s) # l PROVE WorkerOK(s)'
  <2>1. s.pc \in Past => /\ Lease(s) \in Sent' <=> Lease(s) \in Sent
                         /\ entries'[Lease(s)] = entries[Lease(s)]
    BY <1>1, <1>5, <1>7, <1>14 DEF EntriesOK
  <2> QED BY Zenon, <1>1, <1>4, <1>5, <1>14, <2>1 DEF WorkerOK, Active, Past
<1>15. PICK x : x = [worker[w] EXCEPT !.pc = "await"]
  BY Zenon
<1>16. Become(w, x) /\ Lease(x) = l /\ "dispatch" \in Past
  BY Zenon, <1>1, <1>15 DEF Enter, Lease, WorkerOK, WorkerFields, Past
<1>17. WorkerOK(x)'
  BY Zenon, <1>1, <1>4, <1>15, <1>16 DEF WorkerOK, WorkerFields, Past
<1>18. \A v \in Workers : v # w /\ worker[v].pc \in Past => Lease(worker[v]) # l
  BY Zenon, <1>1, <1>16 DEF WorkersInv, LeasesApart
<1>19. WorkersInv'
  BY Zenon, <1>1, <1>14, <1>16, <1>17, <1>18, WorkerBecomes DEF WorkersInv
<1>20. HostsInv'
  BY Zenon, <1>1, <1>13, HostsSame
<1> QED BY Zenon, <1>13, <1>19, <1>20 DEF ExecInv, Keeps

\* The target decides a request: it never starts a new one.
LEMMA TargetKeeps == ASSUME ExecInv, NEW l \in inFlight, Land(l) \/ Drop(l) PROVE ExecInv'
<1>1. /\ UNCHANGED << effects, now, worker, reconciler, driver, entries >>
      /\ landed \subseteq landed' /\ landed' \subseteq Sent /\ Sent' \subseteq Sent
      /\ \A m \in landed' : m \notin landed => m = l
  BY Zenon DEF Land, Drop, Sent
<1>2. \A j : LeasesOf(j)' = LeasesOf(j) /\ Tr(j)' = Tr(j)
  BY Zenon, <1>1 DEF LeasesOf, Tr
<1>3. LedgerOK'
  BY Zenon, <1>1, <1>2 DEF ExecInv, LedgerOK, EffectOK, StatusOK
<1>4. EntriesOK'
  BY Zenon, <1>1, <1>2 DEF ExecInv, EntriesOK
<1>5. ASSUME NEW j \in EffectKeys PROVE Truth(j)'
  <2>1. Truth(j) /\ effects' = effects
    BY Zenon, <1>1 DEF ExecInv
  <2> QED BY Zenon, <1>1, <1>2, <2>1 DEF Truth, Awaited
<1>6. \A s : ReconcilerOK(s) => ReconcilerOK(s)'
  BY Zenon, <1>1, <1>2 DEF ReconcilerOK, Active
<1>7. \A s : DriverOK(s) => DriverOK(s)'
  BY Zenon, <1>1 DEF DriverOK
<1>8. ASSUME NEW s, WorkerOK(s) PROVE WorkerOK(s)'
  <2>1. Active(s.k, Lease(s))' <=> Active(s.k, Lease(s))
    BY Zenon, <1>1 DEF Active
  <2>2. (s.pc = "settle" => \/ s.kind = "RecordApplied" /\ s.ms \in Times /\ Lease(s) \in landed
                            \/ s.kind = "RecordNotApplied" /\ s.ms \in Times \cup {NoRetry}
                                 /\ Lease(s) \notin Sent
                            \/ s.kind = "RecordUnknown" /\ s.ms = 0)'
    BY Zenon, <1>1, <1>8 DEF WorkerOK
  <2> QED BY Zenon, <1>1, <1>2, <1>8, <2>1, <2>2 DEF WorkerOK
<1>9. Keeps
  BY Zenon, <1>1, <1>3, <1>4, <1>5, <1>6, <1>7 DEF Keeps, ExecInv
<1>10. WorkersInv'
  BY Zenon, <1>1, <1>8, WorkersSame DEF ExecInv, WorkersInv
<1>11. HostsInv'
  BY Zenon, <1>1, <1>9, HostsSame DEF ExecInv
<1> QED BY Zenon, <1>9, <1>10, <1>11 DEF ExecInv, Keeps

\* A reconciler that only looks.
LEMMA QuietReconciler ==
    ASSUME ExecInv, NEW r \in Reconcilers, NEW x, ReconcilerOK(x),
           reconciler' = [reconciler EXCEPT ![r] = x],
           UNCHANGED << effects, now, worker, driver, target >>
    PROVE  ExecInv'
<1>1. now' \in Times /\ now' >= now /\ UNCHANGED << effects, target >>
  BY DEF ExecInv, Times
<1>2. Keeps /\ \A s : WorkerOK(s) => WorkerOK(s)'
  BY Zenon, <1>1, QuietKeeps
<1>3. WorkersInv'
  BY Zenon, <1>2, WorkersSame DEF ExecInv, WorkersInv
<1>4. ReconcilerOK(x)'
  BY Zenon, <1>2 DEF Keeps
<1>5. HostsInv'
  BY Zenon, <1>2, <1>4, ReconcilerBecomes DEF ExecInv
<1> QED BY Zenon, <1>2, <1>3, <1>5 DEF ExecInv, Keeps

LEMMA ReconcilersKeep ==
    ASSUME ExecInv, NEW r \in Reconcilers,
           \/ \E k \in EffectKeys : ScanUnknown(r, k)
           \/ Query(r) \/ GiveUp(r) \/ SettleUnknown(r)
    PROVE  ExecInv'
<1>1. PICK s : s = reconciler[r]
  BY Zenon
<1>2. ReconcilerOK(s) /\ HostsInv /\ WorkersInv /\ LedgerOK /\ now \in Times
  BY Zenon, <1>1 DEF ExecInv, HostsInv
<1>3. PICK y : y = NoLookup
  BY Zenon
<1>4. ReconcilerOK(y) /\ ReconcilerOK(y)'
  BY Zenon, <1>3 DEF ReconcilerOK, NoLookup, LookupFields
<1>5. ASSUME NEW k \in EffectKeys, ScanUnknown(r, k) PROVE ExecInv'
  <2>1. PICK u : u = effects[k].status
    BY Zenon
  <2>2. PICK x : x = [NoLookup EXCEPT !.pc = "query", !.k = k, !.rev = Revision(effects[k]),
                                      !.lease = u.lease, !.attempt = u.attempt]
    BY Zenon
  <2>3. u.state = "unknown" /\ StatusOK(k, u) /\ ~Active(k, u.lease)
    BY Zenon, <1>2, <1>5, <2>1 DEF ScanUnknown, LedgerOK, EffectOK, Active
  <2>4. u.attempt \in 1 .. MAX_EFFECT_ATTEMPTS /\ u.lease \in LeasesOf(k)
    BY <2>3, EffectAssumption DEF StatusOK
  <2>5. ReconcilerOK(x)
    BY Zenon, <2>2, <2>3, <2>4 DEF ReconcilerOK, NoLookup, LookupFields
  <2> QED BY Zenon, <1>5, <2>1, <2>2, <2>5, QuietReconciler DEF ScanUnknown
<1>6. CASE Query(r)
  <2>1. PICK e \in Evidence(s.lease) :
            reconciler' = [reconciler EXCEPT ![r] =
                             [s EXCEPT !.pc = "settle", !.kind = e[1], !.delay = e[2]]]
    BY Zenon, <1>1, <1>6 DEF Query
  <2>2. PICK x : x = [s EXCEPT !.pc = "settle", !.kind = e[1], !.delay = e[2]]
    BY Zenon
  <2>3. \/ e[1] = "ReconcileApplied" /\ s.lease \in landed
        \/ e[1] = "ReconcileNotApplied" /\ e[2] \in RetryDelays \cup {NoDelay}
           /\ s.lease \notin Sent
    BY <2>1 DEF Evidence, Sent
  <2>4. s.pc = "query"
    BY Zenon, <1>1, <1>6 DEF Query
  <2>5. ReconcilerOK(x)
    BY Zenon, <1>2, <2>2, <2>3, <2>4 DEF ReconcilerOK, LookupFields
  <2> QED BY Zenon, <1>6, <2>1, <2>2, <2>5, QuietReconciler DEF Query
<1>7. CASE GiveUp(r)
  BY Zenon, <1>3, <1>4, <1>7, QuietReconciler DEF GiveUp
<1>8. CASE SettleUnknown(r)
  <2>1. /\ s.pc = "settle" /\ reconciler' = [reconciler EXCEPT ![r] = y]
        /\ UNCHANGED << now, worker, driver, target >>
    BY Zenon, <1>1, <1>3, <1>8 DEF SettleUnknown
  <2>2. CASE UNCHANGED effects
    BY Zenon, <1>4, <2>1, <2>2, QuietReconciler
  <2>3. CASE ApplyAs(s.k, s.rev, ReconcileCommand(s), now, HostActor)
    <3> DEFINE l == s.lease
               kind == s.kind
    <3>1. /\ s.k \in EffectKeys /\ kind \in ReconcileKinds
          /\ kind = "ReconcileApplied" => l \in landed
          /\ kind = "ReconcileNotApplied" => l \notin Sent
      BY Zenon, <1>2, <2>1 DEF ReconcilerOK, ReconcileKinds
    <3>2. PICK id, ms : ReconcileCommand(s) = Command(id, kind, l, s.attempt, ms)
      BY Zenon DEF ReconcileCommand
    <3>3. LedgerOK' /\ Move(s.k, kind, l, now)
      BY Zenon, <1>2, <2>3, <3>1, <3>2, ApplyMoves DEF ExecKinds, CommandKinds, ReconcileKinds
    <3>4. Keeps /\ \A z : WorkerOK(z) => WorkerOK(z)'
      BY Zenon, <1>2, <2>1, <3>1, <3>3, CommitKeeps DEF ReconcileKinds
    <3>5. WorkersInv'
      BY Zenon, <1>2, <2>1, <3>4, WorkersSame DEF WorkersInv
    <3>6. HostsInv'
      BY Zenon, <1>2, <1>4, <2>1, <3>4, ReconcilerBecomes
    <3> QED BY Zenon, <3>4, <3>5, <3>6 DEF ExecInv, Keeps
  <2> QED BY Zenon, <1>1, <1>8, <2>2, <2>3 DEF SettleUnknown
<1> QED BY Zenon, <1>5, <1>6, <1>7, <1>8

LEMMA DriversKeep ==
    ASSUME ExecInv, NEW d \in Drivers, (\E k \in EffectKeys : ScanDue(d, k)) \/ Expire(d)
    PROVE  ExecInv'
<1>1. HostsInv /\ WorkersInv /\ LedgerOK /\ now \in Times
  BY Zenon DEF ExecInv
<1>2. ASSUME NEW x, DriverOK(x), driver' = [driver EXCEPT ![d] = x],
             UNCHANGED << effects, now, worker, reconciler, target >>
      PROVE  ExecInv'
  <2>1. now' \in Times /\ now' >= now /\ UNCHANGED << effects, target >>
    BY <1>1, <1>2 DEF Times
  <2>2. Keeps /\ \A s : WorkerOK(s) => WorkerOK(s)'
    BY Zenon, <2>1, QuietKeeps
  <2>3. WorkersInv'
    BY Zenon, <1>1, <1>2, <2>2, WorkersSame DEF WorkersInv
  <2>4. DriverOK(x)'
    BY Zenon, <1>2, <2>2 DEF Keeps
  <2>5. HostsInv'
    BY Zenon, <1>1, <1>2, <2>2, <2>4, DriverBecomes
  <2> QED BY Zenon, <2>2, <2>3, <2>5 DEF ExecInv, Keeps
<1>3. ASSUME NEW k \in EffectKeys, ScanDue(d, k) PROVE ExecInv'
  <2>1. PICK u : u = effects[k].status
    BY Zenon
  <2>2. PICK x : x = [k |-> k, rev |-> Revision(effects[k]), lease |-> u.lease, at |-> now]
    BY Zenon
  <2>3. u.state = "claimed" /\ StatusOK(k, u)
    BY Zenon, <1>1, <1>3, <2>1 DEF ScanDue, LedgerOK, EffectOK
  <2>4. u.lease \in LeaseIds
    BY Zenon, <1>1, <2>3, LeaseNames DEF StatusOK
  <2>5. DriverOK(x)
    BY <1>1, <2>2, <2>4 DEF DriverOK, Times
  <2> QED BY Zenon, <1>2, <1>3, <2>1, <2>2, <2>5 DEF ScanDue
<1>4. CASE Expire(d)
  <2>1. PICK s : s = driver[d]
    BY Zenon
  <2>2. PICK y : y = NoDue
    BY Zenon
  <2>3. /\ s # NoDue /\ DriverOK(s) /\ driver' = [driver EXCEPT ![d] = y]
        /\ UNCHANGED << now, worker, reconciler, target >>
    BY Zenon, <1>1, <1>4, <2>1, <2>2 DEF Expire, HostsInv
  <2>4. DriverOK(y) /\ DriverOK(y)'
    BY Zenon, <2>2 DEF DriverOK
  <2>5. CASE UNCHANGED effects
    BY Zenon, <1>2, <2>3, <2>4, <2>5
  <2>6. CASE ApplyAs(s.k, s.rev, Command(<< "expire", s.lease >>, "ExpireLease", s.lease, 0, 0),
                     s.at, HostActor)
    <3>1. s.k \in EffectKeys /\ s.at \in Times /\ s.at <= now
      BY Zenon, <2>3 DEF DriverOK
    <3>2. LedgerOK' /\ Move(s.k, "ExpireLease", s.lease, s.at)
      BY Zenon, <1>1, <2>6, <3>1, ApplyMoves DEF ExecKinds, CommandKinds
    <3>3. Keeps /\ \A z : WorkerOK(z) => WorkerOK(z)'
      BY <2>3, <3>1, <3>2, CommitKeeps
    <3>4. WorkersInv'
      BY Zenon, <1>1, <2>3, <3>3, WorkersSame DEF WorkersInv
    <3>5. HostsInv'
      BY Zenon, <1>1, <2>3, <2>4, <3>3, DriverBecomes
    <3> QED BY Zenon, <3>3, <3>4, <3>5 DEF ExecInv, Keeps
  <2> QED BY Zenon, <1>4, <2>1, <2>5, <2>6 DEF Expire
<1> QED BY Zenon, <1>3, <1>4

-----------------------------------------------------------------------------
(* The theorems.                                                            *)

\* The inductive invariant holds of every behaviour.
LEMMA ExecInvAlways == ExecSpec => []ExecInv
<1>1. ExecInit => ExecInv
  <2> SUFFICES ASSUME ExecInit PROVE ExecInv
    BY Zenon
  <2>1. \A k \in EffectKeys : effects[k] = NoEffect /\ Tr(k) = << >> /\ LeasesOf(k) = {}
    BY DEF ExecInit, Init, Tr, LeasesOf, NoEffect
  <2>2. LedgerOK
    <3>1. ASSUME NEW k \in EffectKeys PROVE EffectOK(k)
      <4>1. StatusOK(k, effects[k].status)
        <5>1. effects[k].status = Bare("absent", 0)
          BY <2>1 DEF NoEffect, Absent
        <5>2. 0 \in 0 .. MAX_EFFECT_ATTEMPTS /\ 0 \in Nat
          BY EffectAssumption
        <5>3. LET s == Bare("absent", 0)
              IN  /\ DOMAIN s = StatusFields
                  /\ s.attempt = 0 /\ s.state = "absent" /\ s.expires = 0
          BY Zenon DEF Bare, StatusFields
        <5> QED BY Zenon, <5>1, <5>2, <5>3 DEF StatusOK
      <4>2. DOMAIN effects[k] = EffectFields
        BY <2>1 DEF NoEffect, EffectFields
      <4>3. \E S : Tr(k) \in Seq(S)
        <5>1. << >> \in Seq({})
          OBVIOUS
        <5> QED BY Zenon, <2>1, <5>1
      <4>4. DOMAIN Tr(k) = {} /\ Len(Tr(k)) <= MAX_EFFECT_TRANSITIONS
        BY <2>1, EffectAssumption
      <4> QED BY Zenon, <4>1, <4>2, <4>3, <4>4 DEF EffectOK
    <3>2. effects = [k \in EffectKeys |-> effects[k]]
      BY Zenon DEF ExecInit, Init
    <3> QED BY Zenon, <3>1, <3>2 DEF LedgerOK
  <2>3. WorkersInv
    BY Zenon DEF ExecInit, WorkersInv, WorkerOK, LeasesApart, Idle, WorkerFields, Past
  <2>4. HostsInv
    BY Zenon DEF ExecInit, HostsInv, ReconcilerOK, DriverOK, NoLookup, LookupFields
  <2>5. EntriesOK
    BY DEF ExecInit, EntriesOK, Sent
  <2>6. \A k \in EffectKeys : Truth(k)
    BY <2>1 DEF ExecInit, Truth, Sent, NoEffect, Absent, Bare
  <2>7. now \in Times
    BY EffectAssumption DEF ExecInit, Times
  <2> QED BY Zenon, <2>2, <2>3, <2>4, <2>5, <2>6, <2>7 DEF ExecInv
<1>2. ExecInv /\ [ExecNext]_execVars => ExecInv'
  <2> SUFFICES ASSUME ExecInv, [ExecNext]_execVars PROVE ExecInv'
    BY Zenon
  <2>1. CASE UNCHANGED execVars
    <3>1. /\ now' \in Times /\ now' >= now
          /\ UNCHANGED << effects, target >> /\ UNCHANGED << worker, reconciler, driver >>
      BY <2>1 DEF execVars, target, ExecInv, Times
    <3>2. Keeps /\ \A s : WorkerOK(s) => WorkerOK(s)'
      BY Zenon, <3>1, QuietKeeps
    <3>3. WorkersInv'
      BY Zenon, <3>1, <3>2, WorkersSame DEF ExecInv, WorkersInv
    <3>4. HostsInv'
      BY Zenon, <3>1, <3>2, HostsSame DEF ExecInv
    <3> QED BY Zenon, <3>2, <3>3, <3>4 DEF ExecInv, Keeps
  <2>2. CASE ExecNext
    BY Zenon, <2>2, TickKeeps, ClientsKeep, QuietWorkers, ClaimKeeps, EnterKeeps, SettleKeeps,
       TargetKeeps, ReconcilersKeep, DriversKeep DEF ExecNext
  <2> QED BY Zenon, <2>1, <2>2
<1> QED BY <1>1, <1>2, PTL DEF ExecSpec

\* However many hosts run a sweep, however slowly, and wherever they crash, a connector
\* is entered at most once for a lease (execute_prepared enters only from a Claim it
\* committed itself).
THEOREM EnteredOnceAlways == ExecSpec => []EnteredOnce
<1>1. ExecInv => EnteredOnce
  BY DEF ExecInv, EntriesOK, EnteredOnce
<1> QED BY <1>1, ExecInvAlways, PTL

\* What the ledger says of the target is true: applied means that the request took
\* effect; pending, rejected and cancelled mean that it did not and never will.
THEOREM LedgerIsTrueAlways == ExecSpec => []LedgerIsTrue
<1>1. ExecInv => LedgerIsTrue
  <2> SUFFICES ASSUME ExecInv, NEW k \in EffectKeys
               PROVE  /\ effects[k].status.state = "applied" => LeasesOf(k) \cap landed # {}
                      /\ effects[k].status.state \in {"pending", "rejected", "cancelled"}
                           => LeasesOf(k) \cap (landed \cup inFlight) = {}
    BY Zenon DEF LedgerIsTrue
  <2>1. Truth(k)
    BY Zenon DEF ExecInv
  <2> QED BY Zenon, <2>1 DEF Truth, Awaited, Sent
<1> QED BY <1>1, ExecInvAlways, PTL

\* Of all attempts of an effect at most one has a request at the target, even if the
\* target does not suppress duplicates.
THEOREM AtMostOnceAlways == ExecSpec => []AtMostOnce
<1>1. ExecInv => AtMostOnce
  <2> SUFFICES ASSUME ExecInv, NEW k \in EffectKeys,
                      NEW l \in LeasesOf(k) \cap (landed \cup inFlight),
                      NEW m \in LeasesOf(k) \cap (landed \cup inFlight)
               PROVE  l = m
    BY Zenon DEF AtMostOnce
  <2>1. Truth(k) /\ l \in LeasesOf(k) \cap Sent /\ m \in LeasesOf(k) \cap Sent
    BY Zenon DEF ExecInv, Sent
  <2> QED BY Zenon, <2>1 DEF Truth, Awaited
<1> QED BY <1>1, ExecInvAlways, PTL

-----------------------------------------------------------------------------
(* Executor, Reconciler, Temporal Driver and clients do nothing to the      *)
(* store but what EffectLedger allows, so that what EffectLedgerProofs      *)
(* proves of the ledger holds of the running system.                        *)

\* The store with its commands numbered, as ImplementsLedger maps it.
Store == [k \in EffectKeys |->
            [effects[k] EXCEPT !.transitions = Numbered(effects[k].transitions)]]

\* A numbered history differs from the history only in its identities.
LEMMA NumberedHistory ==
    ASSUME LedgerOK, NEW k \in EffectKeys
    PROVE  /\ DOMAIN Store[k] = EffectFields
           /\ Store[k].status = effects[k].status
           /\ Store[k].key = effects[k].key /\ Store[k].input = effects[k].input
           /\ Store[k].transitions = Numbered(Tr(k))
           /\ DOMAIN Numbered(Tr(k)) = 1 .. Len(Tr(k)) /\ Len(Tr(k)) \in Nat
           /\ Len(Numbered(Tr(k))) = Len(Tr(k))
           /\ DOMAIN Tr(k) = 1 .. Len(Tr(k))
           /\ \A i \in 1 .. Len(Tr(k)) :
                 /\ Numbered(Tr(k))[i].id = i
                 /\ Numbered(Tr(k))[i].kind = Tr(k)[i].kind
                 /\ Numbered(Tr(k))[i].lease = Tr(k)[i].lease
                 /\ Numbered(Tr(k))[i].at = Tr(k)[i].at
           /\ \E S : Numbered(Tr(k)) \in Seq(S)
<1>1. EffectOK(k)
  BY Zenon DEF LedgerOK
<1>2. /\ DOMAIN Store[k] = EffectFields /\ Store[k].status = effects[k].status
      /\ Store[k].key = effects[k].key /\ Store[k].input = effects[k].input
      /\ Store[k].transitions = Numbered(Tr(k))
  BY Zenon, <1>1 DEF EffectOK, EffectFields, Store, Tr
<1>3. PICK S : Tr(k) \in Seq(S)
  BY Zenon, <1>1 DEF EffectOK
<1>4. Len(Tr(k)) \in Nat /\ DOMAIN Tr(k) = 1 .. Len(Tr(k))
  BY <1>3
<1>5. \A i \in DOMAIN Tr(k) : DOMAIN Tr(k)[i] = TransitionFields
  BY Zenon, <1>1 DEF EffectOK
<1> DEFINE tr == Tr(k)
           n == Numbered(tr)
<1>6. n = [i \in 1 .. Len(tr) |-> [tr[i] EXCEPT !.id = i]]
  BY Zenon, <1>4 DEF Numbered
<1> HIDE DEF n, tr
<1>7. n \in Seq({n[i] : i \in 1 .. Len(tr)}) /\ Len(n) = Len(tr) /\ DOMAIN n = 1 .. Len(tr)
  BY <1>4, <1>6 DEF tr
<1>8. \A i \in 1 .. Len(tr) : n[i].id = i /\ n[i].kind = tr[i].kind
                            /\ n[i].lease = tr[i].lease /\ n[i].at = tr[i].at
  BY Zenon, <1>4, <1>5, <1>6 DEF TransitionFields, tr
<1> QED BY Zenon, <1>2, <1>4, <1>7, <1>8 DEF n, tr

\* Sequences of the same length with the same members are the same.
LEMMA SameSequence ==
    ASSUME NEW S, NEW s \in Seq(S), NEW q \in Seq(S), Len(s) = Len(q),
           \A i \in 1 .. Len(s) : s[i] = q[i]
    PROVE  s = q
  OBVIOUS

\* Numbering commutes with appending a transition.
LEMMA NumberedAppend ==
    ASSUME LedgerOK, NEW k \in EffectKeys, NEW x, DOMAIN x = TransitionFields
    PROVE  Numbered(Append(Tr(k), x)) =
             Append(Numbered(Tr(k)), [x EXCEPT !.id = Len(Tr(k)) + 1])
<1>1. PICK S : Tr(k) \in Seq(S)
  BY Zenon DEF LedgerOK, EffectOK
<1>2. PICK R : Numbered(Tr(k)) \in Seq(R)
  BY Zenon, NumberedHistory
<1>3. PICK n : n = Numbered(Tr(k))
  BY Zenon
<1>4. PICK tr : tr = Tr(k)
  BY Zenon
<1>5. PICK y : y = [x EXCEPT !.id = Len(tr) + 1]
  BY Zenon
<1>6. /\ tr \in Seq(S) /\ n \in Seq(R) /\ Len(n) = Len(tr)
      /\ n = [i \in DOMAIN tr |-> [tr[i] EXCEPT !.id = i]]
      /\ DOMAIN tr = 1 .. Len(tr) /\ Len(tr) \in Nat
  BY Zenon, <1>1, <1>2, <1>3, <1>4, NumberedHistory DEF Numbered
<1>7. PICK long : long = Append(tr, x)
  BY Zenon
<1>8. PICK m : m = Append(n, y)
  BY Zenon
<1>9. PICK num : num = Numbered(long)
  BY Zenon
<1>10. /\ Len(long) = Len(tr) + 1 /\ DOMAIN long = 1 .. Len(tr) + 1
       /\ \A i \in 1 .. Len(tr) : long[i] = tr[i]
       /\ long[Len(tr) + 1] = x
  <2>1. tr \in Seq(S \cup {x}) /\ x \in S \cup {x}
    BY <1>6
  <2> QED BY <1>6, <1>7, <2>1
<1>11. /\ m \in Seq(R \cup {y}) /\ Len(m) = Len(tr) + 1
       /\ \A i \in 1 .. Len(tr) : m[i] = n[i]
       /\ m[Len(tr) + 1] = y
  <2>1. n \in Seq(R \cup {y}) /\ y \in R \cup {y}
    BY <1>6
  <2> QED BY <1>6, <1>8, <2>1
<1>12. num = [i \in 1 .. Len(tr) + 1 |-> [long[i] EXCEPT !.id = i]]
  BY Zenon, <1>9, <1>10 DEF Numbered
<1>13. ASSUME NEW i \in 1 .. Len(tr) + 1 PROVE num[i] = m[i]
  <2>1. CASE i \in 1 .. Len(tr)
    BY Zenon, <1>6, <1>10, <1>11, <1>12, <2>1
  <2>2. CASE i = Len(tr) + 1
    BY Zenon, <1>5, <1>10, <1>11, <1>12, <2>2
  <2> QED BY <1>6, <2>1, <2>2
<1>14. num \in Seq(R \cup {y}) /\ Len(num) = Len(tr) + 1
  <2>1. \A i \in 1 .. Len(tr) + 1 : m[i] \in R \cup {y}
    BY <1>6, <1>11
  <2>2. \A i \in 1 .. Len(tr) + 1 : num[i] \in R \cup {y}
    BY Zenon, <1>13, <2>1
  <2>3. num = [i \in 1 .. Len(tr) + 1 |-> num[i]]
    BY Zenon, <1>12
  <2>4. num \in [1 .. Len(tr) + 1 -> R \cup {y}]
    BY Zenon, <2>2, <2>3
  <2> QED BY <1>6, <2>4
<1>15. num = m
  BY Zenon, <1>11, <1>13, <1>14, SameSequence
<1> QED BY Zenon, <1>3, <1>4, <1>5, <1>7, <1>8, <1>9, <1>15

\* apply_kind decides from the status, the leases claimed before and the last time.
LEMMA SameDecision ==
    ASSUME LedgerOK, NEW k \in EffectKeys, Exists(k), NEW cmd, NEW num, NEW t, NEW actor,
           num.kind = cmd.kind, num.lease = cmd.lease, num.attempt = cmd.attempt, num.ms = cmd.ms,
           CanApply(effects[k], cmd, t, actor)
    PROVE  /\ Ledger!CanApply(Store[k], num, t, actor)
           /\ Ledger!NextStatus(Store[k].status, num, t, actor)
                = NextStatus(effects[k].status, cmd, t, actor)
<1>1. Ledger!Revision(Store[k]) = Revision(effects[k])
  BY Zenon, NumberedHistory DEF Ledger!Revision, Revision, Tr
<1>2. Ledger!LastAt(Store[k]) = LastAt(effects[k])
  <2>1. Len(Tr(k)) \in 1 .. Len(Tr(k))
    <3>1. PICK S : Tr(k) \in Seq(S)
      BY Zenon DEF LedgerOK, EffectOK
    <3>2. Tr(k) # << >>
      BY Zenon DEF Exists, Tr
    <3> QED BY <3>1, <3>2
  <2>2. Numbered(Tr(k))[Len(Tr(k))].at = Tr(k)[Len(Tr(k))].at
    BY Zenon, <2>1, NumberedHistory
  <2>3. Store[k].transitions = Numbered(Tr(k))
    BY Zenon, NumberedHistory
  <2> QED BY Zenon, <1>1, <2>2, <2>3 DEF Ledger!LastAt, LastAt, Revision, Tr
<1>3. Ledger!ValidateNewLeaseId(Store[k].transitions, num.lease)
        <=> ValidateNewLeaseId(effects[k].transitions, cmd.lease)
  <2>1. PICK tr, n : tr = effects[k].transitions /\ n = Store[k].transitions
    BY Zenon
  <2>2. DOMAIN n = DOMAIN tr /\ \A i \in DOMAIN tr : n[i].kind = tr[i].kind /\ n[i].lease = tr[i].lease
    <3>1. /\ Store[k].transitions = Numbered(Tr(k))
          /\ DOMAIN Numbered(Tr(k)) = 1 .. Len(Tr(k)) /\ DOMAIN Tr(k) = 1 .. Len(Tr(k))
      BY Zenon, NumberedHistory
    <3>2. \A i \in 1 .. Len(Tr(k)) : /\ Numbered(Tr(k))[i].kind = Tr(k)[i].kind
                                     /\ Numbered(Tr(k))[i].lease = Tr(k)[i].lease
      BY Zenon, NumberedHistory
    <3>3. n = Numbered(Tr(k)) /\ tr = Tr(k)
      BY Zenon, <2>1, <3>1 DEF Tr
    <3> QED BY Zenon, <3>1, <3>2, <3>3
  <2>3. Ledger!ValidateNewLeaseId(n, num.lease) <=> ValidateNewLeaseId(tr, cmd.lease)
    BY Zenon, <2>2 DEF Ledger!ValidateNewLeaseId, ValidateNewLeaseId
  <2> QED BY Zenon, <2>1, <2>3
<1>4. Accepts(effects[k], cmd, t, actor) => Ledger!Accepts(Store[k], num, t, actor)
  <2>1. Store[k].status = effects[k].status
    BY Zenon, NumberedHistory
  <2> QED BY Zenon, <1>3, <2>1 DEF Ledger!Accepts, Accepts, Ledger!ActiveOwnedLease, ActiveOwnedLease,
        Ledger!ValidateUnknown, ValidateUnknown, Ledger!RetryAllowed, RetryAllowed,
        Ledger!NoRetry, NoRetry, Ledger!LeaseExpiration, LeaseExpiration,
        Ledger!NeverClaimed, NeverClaimed
<1>5. Ledger!NextStatus(Store[k].status, num, t, actor)
        = NextStatus(effects[k].status, cmd, t, actor)
  <2>1. Store[k].status = effects[k].status
    BY Zenon, NumberedHistory
  <2> QED BY Zenon, <2>1 DEF Ledger!NextStatus, NextStatus, Ledger!Claimed, Claimed,
        Ledger!LeaseExpiration, LeaseExpiration, Ledger!Applied, Applied,
        Ledger!SettledNotApplied, SettledNotApplied, Ledger!NoRetry, NoRetry,
        Ledger!Rejected, Rejected, Ledger!Pending, Pending, Ledger!Uncertain, Uncertain,
        Ledger!Unknown, Unknown, Ledger!Cancelled, Cancelled, Ledger!Bare, Bare
<1> QED BY Zenon, <1>1, <1>2, <1>4, <1>5 DEF Ledger!CanApply, CanApply

\* A commit of apply_as is a commit of the same command, under a fresh number, to the
\* numbered store.
LEMMA ApplyRefines ==
    ASSUME LedgerOK, NEW k \in EffectKeys, NEW rev, NEW id, NEW kind, NEW l,
           NEW attempt, NEW ms, NEW t, NEW actor,
           ApplyAs(k, rev, Command(id, kind, l, attempt, ms), t, actor)
    PROVE  /\ Len(Tr(k)) + 1 \in Ledger!CommandIds(k)
           /\ Ledger!Submit(k, Len(Tr(k)) + 1, kind, l, attempt, ms, t, actor)
<1>1. PICK cmd : cmd = Command(id, kind, l, attempt, ms)
  BY Zenon
<1>2. PICK num : num = Ledger!Command(Len(Tr(k)) + 1, kind, l, attempt, ms)
  BY Zenon
<1>3. /\ cmd.kind = kind /\ cmd.lease = l /\ cmd.attempt = attempt /\ cmd.ms = ms /\ cmd.id = id
      /\ num.kind = kind /\ num.lease = l /\ num.attempt = attempt /\ num.ms = ms
      /\ num.id = Len(Tr(k)) + 1
  BY Zenon, <1>1, <1>2 DEF Command, Ledger!Command
<1>4. /\ TenantOf[actor] = k[1] /\ Exists(k) /\ CanApply(effects[k], cmd, t, actor)
      /\ effects' = [effects EXCEPT ![k] = AppliedTo(effects[k], cmd, t, actor)]
  BY Zenon, <1>1 DEF ApplyAs, Reply
<1>5. /\ Ledger!CanApply(Store[k], num, t, actor)
      /\ Ledger!NextStatus(Store[k].status, num, t, actor)
           = NextStatus(effects[k].status, cmd, t, actor)
  <2>1. /\ num.kind = cmd.kind /\ num.lease = cmd.lease /\ num.attempt = cmd.attempt
        /\ num.ms = cmd.ms
    BY Zenon, <1>3
  <2>2. Exists(k) /\ CanApply(effects[k], cmd, t, actor)
    BY Zenon, <1>4
  <2> QED BY <2>1, <2>2, SameDecision
<1>6. PICK attempted : attempted = IF kind = "Cancel" THEN 0 ELSE effects[k].status.attempt
  BY Zenon
<1>7. PICK x : x = Transition(cmd, actor, t, attempted)
  BY Zenon
<1>8. PICK y : y = Ledger!Transition(num, actor, t, attempted)
  BY Zenon
<1>9. DOMAIN x = TransitionFields /\ y = [x EXCEPT !.id = Len(Tr(k)) + 1]
  BY <1>3, <1>7, <1>8 DEF Transition, Ledger!Transition, TransitionFields
<1>10. Numbered(Append(Tr(k), x)) = Append(Numbered(Tr(k)), y)
  BY Zenon, <1>9, NumberedAppend
<1>11. effects'[k] = [key |-> effects[k].key, input |-> effects[k].input,
                      status |-> NextStatus(effects[k].status, cmd, t, actor),
                      transitions |-> Append(Tr(k), x)]
       /\ \A j \in EffectKeys : j # k => effects'[j] = effects[j]
  <2>1. AppliedTo(effects[k], cmd, t, actor) =
          [key |-> effects[k].key, input |-> effects[k].input,
           status |-> NextStatus(effects[k].status, cmd, t, actor),
           transitions |-> Append(Tr(k), x)]
    BY Zenon, <1>3, <1>6, <1>7 DEF AppliedTo, Tr
  <2> QED BY Zenon, <1>4, <2>1 DEF LedgerOK
<1>12. Ledger!AppliedTo(Store[k], num, t, actor) =
         [key |-> effects[k].key, input |-> effects[k].input,
          status |-> NextStatus(effects[k].status, cmd, t, actor),
          transitions |-> Append(Numbered(Tr(k)), y)]
  BY Zenon, <1>3, <1>5, <1>6, <1>8, NumberedHistory DEF Ledger!AppliedTo
<1>13. Store' = [Store EXCEPT ![k] = Ledger!AppliedTo(Store[k], num, t, actor)]
  <2>1. Store'[k] = [key |-> effects[k].key, input |-> effects[k].input,
                     status |-> NextStatus(effects[k].status, cmd, t, actor),
                     transitions |-> Append(Numbered(Tr(k)), y)]
    <3>1. Store'[k] = [effects'[k] EXCEPT !.transitions = Numbered(effects'[k].transitions)]
      BY Zenon DEF Store
    <3>2. effects'[k].transitions = Append(Tr(k), x)
      BY <1>11
    <3>3. PICK new, st : new = Append(Tr(k), x) /\ st = NextStatus(effects[k].status, cmd, t, actor)
      BY Zenon
    <3>4. effects'[k] = [key |-> effects[k].key, input |-> effects[k].input, status |-> st,
                         transitions |-> new]
      BY Zenon, <1>11, <3>3
    <3>5. Store'[k] = [key |-> effects[k].key, input |-> effects[k].input, status |-> st,
                       transitions |-> Numbered(new)]
      BY <3>1, <3>4
    <3> QED BY Zenon, <1>10, <3>3, <3>5
  <2>2. \A j \in EffectKeys : j # k => Store'[j] = Store[j]
    BY Zenon, <1>11 DEF Store
  <2>3. /\ Store' = [j \in EffectKeys |-> Store'[j]] /\ Store = [j \in EffectKeys |-> Store[j]]
    BY Zenon DEF Store
  <2> QED BY Zenon, <1>12, <2>1, <2>2, <2>3
<1>14. PICK n : n = Store[k].transitions
  BY Zenon
<1>15. /\ Len(n) = Len(Tr(k)) /\ DOMAIN n = 1 .. Len(Tr(k)) /\ Len(Tr(k)) \in Nat
       /\ \A i \in DOMAIN n : n[i].id = i
  <2>1. n = Numbered(Tr(k))
    BY Zenon, <1>14, NumberedHistory
  <2>2. /\ Len(Numbered(Tr(k))) = Len(Tr(k)) /\ DOMAIN Numbered(Tr(k)) = 1 .. Len(Tr(k))
        /\ Len(Tr(k)) \in Nat
        /\ \A i \in 1 .. Len(Tr(k)) : Numbered(Tr(k))[i].id = i
    BY Zenon, NumberedHistory
  <2> QED BY Zenon, <2>1, <2>2
<1>16. n # << >>
  <2>1. PICK S : Tr(k) \in Seq(S)
    BY Zenon DEF LedgerOK, EffectOK
  <2>2. Tr(k) # << >>
    BY Zenon, <1>4 DEF Exists, Tr
  <2>3. Len(Tr(k)) # 0
    BY <2>1, <2>2
  <2> QED BY Zenon, <1>15, <2>3
<1>17. /\ ~ Ledger!KnownId(Store[k], num.id)
       /\ ~ Ledger!Recognizes(Store[k], num, actor)
       /\ Ledger!Revision(Store[k]) = Len(Tr(k))
  <2>1. \A i \in DOMAIN n : n[i].id # num.id
    BY <1>3, <1>15
  <2>2. \A i \in DOMAIN n : Ledger!TransitionCommand(n[i]).id = n[i].id
    BY Zenon DEF Ledger!TransitionCommand, Ledger!Command
  <2> QED BY <1>14, <1>15, <2>1, <2>2 DEF Ledger!KnownId, Ledger!Recognizes, Ledger!Revision
<1>18. Ledger!Exists(k) /\ Ledger!Reply(k, Len(Tr(k)), num, t, actor) = "applied"
  <2>1. Ledger!Exists(k)
    BY Zenon, <1>14, <1>16 DEF Ledger!Exists, Store
  <2> QED BY Zenon, <1>4, <1>5, <1>17, <2>1 DEF Ledger!Reply, Store
<1>19. Ledger!ApplyAs(k, Len(Tr(k)), num, t, actor)
  BY Zenon, <1>13, <1>18 DEF Ledger!ApplyAs, Store
<1>20. Len(Tr(k)) + 1 \in Ledger!CommandIds(k)
  BY <1>15, <1>17 DEF Ledger!CommandIds, Store
<1> QED BY Zenon, <1>2, <1>17, <1>19, <1>20 DEF Ledger!Submit, Store

\* The operands each command kind may have.
Operands(kind, l, attempt, ms) ==
    \/ /\ kind = "Claim" /\ l \in LeaseIds /\ attempt = 0 /\ ms \in LeaseDurations
    \/ /\ kind = "RecordApplied" /\ l \in LeaseIds /\ attempt = 0 /\ ms \in Times
    \/ /\ kind = "RecordNotApplied" /\ l \in LeaseIds /\ attempt = 0
       /\ ms \in Times \cup {NoRetry}
    \/ /\ kind \in {"RecordUnknown", "ExpireLease"} /\ l \in LeaseIds /\ attempt = 0 /\ ms = 0
    \/ /\ kind = "ReconcileApplied" /\ l \in LeaseIds
       /\ attempt \in 1 .. MAX_EFFECT_ATTEMPTS /\ ms \in Times
    \/ /\ kind = "ReconcileNotApplied" /\ l \in LeaseIds
       /\ attempt \in 1 .. MAX_EFFECT_ATTEMPTS /\ ms \in Times \cup {NoRetry}
    \/ /\ kind = "Cancel" /\ l = NoLease /\ attempt = 0 /\ ms = 0

LEMMA ApplyIsNext ==
    ASSUME LedgerOK, NEW k \in EffectKeys, NEW rev, NEW id, NEW kind, NEW l,
           NEW attempt, NEW ms, NEW t \in Times, NEW actor \in Actors,
           Operands(kind, l, attempt, ms),
           ApplyAs(k, rev, Command(id, kind, l, attempt, ms), t, actor)
    PROVE  Ledger!Next
<1>1. PICK n : n = Len(Tr(k)) + 1
  BY Zenon
<1>2. n \in Ledger!CommandIds(k) /\ Ledger!Submit(k, n, kind, l, attempt, ms, t, actor)
  BY Zenon, <1>1, ApplyRefines
<1>3. k \in Ledger!EffectKeys /\ t \in Ledger!Times /\ Ledger!NoRetry = NoRetry /\ Ledger!Times = Times
  BY Zenon DEF Ledger!EffectKeys, EffectKeys, Ledger!Times, Times, Ledger!NoRetry, NoRetry
<1>4. CASE kind = "Claim"
  <2>1. Ledger!Claim(k, t, actor)
    BY Zenon, <1>2, <1>4 DEF Operands, Ledger!Claim
  <2> QED BY Zenon, <1>3, <2>1 DEF Ledger!Next
<1>5. CASE kind = "RecordApplied"
  <2>1. Ledger!RecordApplied(k, t, actor)
    BY Zenon, <1>2, <1>3, <1>5 DEF Operands, Ledger!RecordApplied
  <2> QED BY Zenon, <1>3, <2>1 DEF Ledger!Next
<1>6. CASE kind = "RecordNotApplied"
  <2>1. Ledger!RecordNotApplied(k, t, actor)
    BY Zenon, <1>2, <1>3, <1>6 DEF Operands, Ledger!RecordNotApplied
  <2> QED BY Zenon, <1>3, <2>1 DEF Ledger!Next
<1>7. CASE kind = "RecordUnknown"
  <2>1. Ledger!RecordUnknown(k, t, actor)
    BY Zenon, <1>2, <1>7 DEF Operands, Ledger!RecordUnknown
  <2> QED BY Zenon, <1>3, <2>1 DEF Ledger!Next
<1>8. CASE kind = "ExpireLease"
  <2>1. Ledger!ExpireLease(k, t, actor)
    BY Zenon, <1>2, <1>8 DEF Operands, Ledger!ExpireLease
  <2> QED BY Zenon, <1>3, <2>1 DEF Ledger!Next
<1>9. CASE kind = "ReconcileApplied"
  <2>1. Ledger!ReconcileApplied(k, t, actor)
    BY Zenon, <1>2, <1>3, <1>9 DEF Operands, Ledger!ReconcileApplied
  <2> QED BY Zenon, <1>3, <2>1 DEF Ledger!Next
<1>10. CASE kind = "ReconcileNotApplied"
  <2>1. Ledger!ReconcileNotApplied(k, t, actor)
    BY Zenon, <1>2, <1>3, <1>10 DEF Operands, Ledger!ReconcileNotApplied
  <2> QED BY Zenon, <1>3, <2>1 DEF Ledger!Next
<1>11. CASE kind = "Cancel"
  <2>1. Ledger!Cancel(k, t, actor)
    BY Zenon, <1>2, <1>11 DEF Operands, Ledger!Cancel
  <2> QED BY Zenon, <1>3, <2>1 DEF Ledger!Next
<1> QED BY Zenon, <1>4, <1>5, <1>6, <1>7, <1>8, <1>9, <1>10, <1>11 DEF Operands

\* create_as inserts the same aggregate, its command numbered 1.
LEMMA CreateIsNext ==
    ASSUME ExecInv, NEW k \in EffectKeys, CreateEffect(k)
    PROVE  Ledger!Next
<1>1. PICK key \in Keys, input \in Inputs, nb \in Times :
          CreateAs(k, << "create", k >>, key, input, nb, now, HostActor)
  BY Zenon DEF CreateEffect
<1>2. LedgerOK /\ now \in Times /\ HostActor \in Actors
  BY Zenon, ExecutionAssumption DEF ExecInv
<1>3. PICK x : x = Transition(Command(<< "create", k >>, "Create", NoLease, 0, nb),
                              HostActor, now, 0)
  BY Zenon
<1>4. PICK y : y = Ledger!Transition(Ledger!Command(1, "Create", NoLease, 0, nb),
                                     HostActor, now, 0)
  BY Zenon
<1>5. y = [x EXCEPT !.id = 1]
  BY <1>3, <1>4 DEF Transition, Command, Ledger!Transition, Ledger!Command
<1>6. Numbered(<< x >>) = << y >>
  BY <1>5 DEF Numbered
<1>7. PICK st : st = Pending(1, nb)
  BY Zenon
<1>8. /\ TenantOf[HostActor] = k[1] /\ effects[k].transitions = << >>
      /\ \A j \in EffectKeys : j[1] = k[1] /\ effects[j].transitions # << >>
                                 => effects[j].key # key
      /\ effects' = [effects EXCEPT ![k] = [key |-> key, input |-> input, status |-> st,
                                            transitions |-> << x >>]]
  BY Zenon, <1>1, <1>3, <1>7 DEF CreateAs, Exists, NewEffect
<1>9. /\ effects'[k] = [key |-> key, input |-> input, status |-> st, transitions |-> << x >>]
      /\ \A j \in EffectKeys : j # k => effects'[j] = effects[j]
  BY Zenon, <1>2, <1>8 DEF LedgerOK
<1>10. \A j \in EffectKeys : /\ Store[j].key = effects[j].key
                             /\ Store[j].transitions # << >> => effects[j].transitions # << >>
  <2>1. \A j \in EffectKeys : /\ Store[j].key = effects[j].key
                              /\ Store[j].transitions = Numbered(effects[j].transitions)
    BY Zenon, <1>2, NumberedHistory DEF Tr
  <2>2. Numbered(<< >>) = << >>
    BY DEF Numbered
  <2> QED BY Zenon, <2>1, <2>2
<1>11. Store[k].transitions = << >>
  <2>1. Store[k].transitions = Numbered(effects[k].transitions)
    BY Zenon, <1>2, NumberedHistory DEF Tr
  <2> QED BY <1>8, <2>1 DEF Numbered
<1>12. Store' = [Store EXCEPT ![k] = [key |-> key, input |-> input, status |-> st,
                                      transitions |-> << y >>]]
  <2>1. Store'[k] = [effects'[k] EXCEPT !.transitions = Numbered(effects'[k].transitions)]
    BY Zenon DEF Store
  <2>2. Store'[k] = [key |-> key, input |-> input, status |-> st, transitions |-> << y >>]
    BY <1>6, <1>9, <2>1
  <2>3. \A j \in EffectKeys : j # k => Store'[j] = Store[j]
    BY Zenon, <1>9 DEF Store
  <2>4. Store' = [j \in EffectKeys |-> Store'[j]] /\ Store = [j \in EffectKeys |-> Store[j]]
    BY Zenon DEF Store
  <2> QED BY Zenon, <2>2, <2>3, <2>4
<1>13. Ledger!NewEffect(1, key, input, nb, HostActor, now) =
         [key |-> key, input |-> input, status |-> st, transitions |-> << y >>]
  BY Zenon, <1>4, <1>7 DEF Ledger!NewEffect, Ledger!Pending, Pending, Ledger!Bare, Bare
<1>14. k \in Ledger!EffectKeys /\ now \in Ledger!Times /\ nb \in Ledger!Times
       /\ Ledger!EffectKeys = EffectKeys
  BY Zenon, <1>2 DEF Ledger!EffectKeys, EffectKeys, Ledger!Times, Times
<1>15. 1 \in Ledger!CommandIds(k)
  BY <1>11 DEF Ledger!CommandIds, Ledger!Revision, Store
<1>16. Ledger!CreateAs(k, 1, key, input, nb, now, HostActor)
  BY Zenon, <1>8, <1>10, <1>11, <1>12, <1>13, <1>14 DEF Ledger!CreateAs, Ledger!Exists, Store
<1>17. Ledger!Create(k, now, HostActor)
  BY Zenon, <1>14, <1>15, <1>16 DEF Ledger!Create
<1> QED BY Zenon, <1>2, <1>14, <1>17 DEF Ledger!Next

\* Every step of every process is a step of the ledger, or leaves it alone.
LEMMA StepRefines ==
    ASSUME ExecInv, [ExecNext]_execVars
    PROVE  Ledger!Next \/ UNCHANGED Store
<1>1. /\ LedgerOK /\ now \in Times /\ HostActor \in Actors
      /\ \A w \in Workers : WorkerOK(worker[w])
      /\ \A r \in Reconcilers : ReconcilerOK(reconciler[r])
      /\ \A d \in Drivers : DriverOK(driver[d])
      /\ \A c \in Cycles : ActorOf[c] \in Actors
  BY Zenon, ExecutionAssumption DEF ExecInv, WorkersInv, HostsInv
<1>2. CASE UNCHANGED effects
  BY Zenon, <1>2 DEF Store
<1>3. ASSUME NEW k \in EffectKeys, CancelEffect(k) PROVE Ledger!Next
  <2>1. Operands("Cancel", NoLease, 0, 0)
    BY Zenon DEF Operands
  <2> QED BY Zenon, <1>1, <1>3, <2>1, ApplyIsNext DEF CancelEffect
<1>4. ASSUME NEW w \in Workers, CommitClaim(w), ~ UNCHANGED effects PROVE Ledger!Next
  <2>1. PICK s : s = worker[w]
    BY Zenon
  <2>2. PICK l : l = << s.cycle, s.k, s.rev >>
    BY Zenon
  <2>3. /\ s.pc = "claim" /\ WorkerOK(s)
        /\ ApplyAs(s.k, s.rev, Command(<< "claim", l >>, "Claim", l, 0, LeaseDuration), s.at,
                   ActorOf[s.cycle])
    BY Zenon, <1>1, <1>4, <2>1, <2>2 DEF CommitClaim, ClaimCommand, LeaseOf, Actor
  <2>4. s.k \in EffectKeys /\ s.at \in Times /\ s.cycle \in Cycles
    BY Zenon, <2>3 DEF WorkerOK
  <2>5. s.rev \in 1 .. MAX_EFFECT_TRANSITIONS
    <3>1. Len(Tr(s.k)) = s.rev /\ Len(Tr(s.k)) < MAX_EFFECT_TRANSITIONS /\ Tr(s.k) # << >>
      BY Zenon, <2>3 DEF ApplyAs, Reply, CanApply, Exists, Revision, Tr
    <3>2. PICK S : Tr(s.k) \in Seq(S)
      BY Zenon, <1>1, <2>4 DEF LedgerOK, EffectOK
    <3>3. Len(Tr(s.k)) \in Nat /\ Len(Tr(s.k)) # 0
      BY <3>1, <3>2
    <3> QED BY <3>1, <3>3, EffectAssumption
  <2>6. Operands("Claim", l, 0, LeaseDuration)
    BY Zenon, <2>2, <2>4, <2>5, ExecutionAssumption DEF Operands
  <2> QED BY Zenon, <1>1, <2>3, <2>4, <2>6, ApplyIsNext
<1>5. ASSUME NEW w \in Workers, Settle(w), ~ UNCHANGED effects PROVE Ledger!Next
  <2>1. PICK s : s = worker[w]
    BY Zenon
  <2>2. PICK l : l = Lease(s)
    BY Zenon
  <2>3. /\ s.pc = "settle" /\ WorkerOK(s)
        /\ ApplyAs(s.k, s.rev + 1, Command(<< s.kind, l >>, s.kind, l, 0, s.ms), s.at,
                   ActorOf[s.cycle])
    BY Zenon, <1>1, <1>5, <2>1, <2>2 DEF Settle, SettleCommand, LeaseOf, Lease, Actor
  <2>4. s.k \in EffectKeys /\ s.at \in Times /\ s.cycle \in Cycles /\ l \in LeasesOf(s.k)
    BY Zenon, <2>2, <2>3 DEF WorkerOK, Past
  <2>5. l \in LeaseIds
    BY Zenon, <1>1, <2>4, LeaseNames
  <2>6. Operands(s.kind, l, 0, s.ms)
    BY Zenon, <2>3, <2>5 DEF WorkerOK, Operands
  <2> QED BY Zenon, <1>1, <2>3, <2>4, <2>6, ApplyIsNext
<1>6. ASSUME NEW r \in Reconcilers, SettleUnknown(r), ~ UNCHANGED effects PROVE Ledger!Next
  <2>1. PICK s : s = reconciler[r]
    BY Zenon
  <2>2. PICK ms : ms = IF s.kind = "ReconcileApplied" THEN now
                       ELSE IF s.delay = NoDelay THEN NoRetry ELSE now + s.delay
    BY Zenon
  <2>3. PICK id : ReconcileCommand(s) = Command(id, s.kind, s.lease, s.attempt, ms)
    BY Zenon, <2>2 DEF ReconcileCommand
  <2>4. ReconcileCommand(s).ms = ms
    BY <2>3 DEF Command
  <2>5. /\ s.pc = "settle" /\ ReconcilerOK(s) /\ ms <= MaxTime
        /\ ApplyAs(s.k, s.rev, Command(id, s.kind, s.lease, s.attempt, ms), now, HostActor)
    BY Zenon, <1>1, <1>6, <2>1, <2>3, <2>4 DEF SettleUnknown
  <2>6. /\ s.k \in EffectKeys /\ s.lease \in LeasesOf(s.k)
        /\ s.attempt \in 1 .. MAX_EFFECT_ATTEMPTS
        /\ \/ s.kind = "ReconcileApplied"
           \/ s.kind = "ReconcileNotApplied" /\ s.delay \in RetryDelays \cup {NoDelay}
    BY Zenon, <2>5 DEF ReconcilerOK
  <2>7. s.lease \in LeaseIds
    BY Zenon, <1>1, <2>6, LeaseNames
  <2>8. CASE s.kind = "ReconcileApplied"
    <3>1. Operands(s.kind, s.lease, s.attempt, ms)
      BY Zenon, <1>1, <2>2, <2>6, <2>7, <2>8 DEF Operands
    <3> QED BY Zenon, <1>1, <2>5, <2>6, <3>1, ApplyIsNext
  <2>9. CASE s.kind = "ReconcileNotApplied"
    <3>1. ms \in Times \cup {NoRetry}
      <4>1. CASE s.delay = NoDelay
        BY Zenon, <2>2, <2>9, <4>1
      <4>2. CASE s.delay # NoDelay
        <5>1. s.delay \in Nat /\ ms = now + s.delay
          BY Zenon, <2>2, <2>6, <2>9, <4>2, ExecutionAssumption
        <5> QED BY <1>1, <2>5, <5>1, EffectAssumption DEF Times
      <4> QED BY Zenon, <4>1, <4>2
    <3>2. Operands(s.kind, s.lease, s.attempt, ms)
      BY Zenon, <2>6, <2>7, <2>9, <3>1 DEF Operands
    <3> QED BY Zenon, <1>1, <2>5, <2>6, <3>2, ApplyIsNext
  <2> QED BY Zenon, <2>6, <2>8, <2>9
<1>7. ASSUME NEW d \in Drivers, Expire(d), ~ UNCHANGED effects PROVE Ledger!Next
  <2>1. PICK s : s = driver[d]
    BY Zenon
  <2>2. /\ s # NoDue /\ DriverOK(s)
        /\ ApplyAs(s.k, s.rev, Command(<< "expire", s.lease >>, "ExpireLease", s.lease, 0, 0),
                   s.at, HostActor)
    BY Zenon, <1>1, <1>7, <2>1 DEF Expire
  <2>3. s.k \in EffectKeys /\ s.at \in Times /\ s.lease \in LeaseIds
    BY Zenon, <2>2 DEF DriverOK
  <2>4. Operands("ExpireLease", s.lease, 0, 0)
    BY Zenon, <2>3 DEF Operands
  <2> QED BY Zenon, <1>1, <2>2, <2>3, <2>4, ApplyIsNext
<1>8. CASE ~ UNCHANGED effects
  <2>1. \/ \E k \in EffectKeys : CreateEffect(k) \/ CancelEffect(k)
        \/ \E w \in Workers : CommitClaim(w) \/ Settle(w)
        \/ \E r \in Reconcilers : SettleUnknown(r)
        \/ \E d \in Drivers : Expire(d)
    BY Zenon, <1>8 DEF ExecNext, execVars, Tick, Scan, Authorize, Admit, CancelDispatch, Enter, Return,
       Stop, Land, Drop, ScanUnknown, Query, GiveUp, ScanDue
  <2> QED BY Zenon, <1>3, <1>4, <1>5, <1>6, <1>7, <1>8, <2>1, CreateIsNext
<1> QED BY Zenon, <1>2, <1>8

\* Executor, Reconciler, Temporal Driver and clients, together, implement EffectLedger:
\* whatever is proved of every behaviour of the ledger holds of the running system.
THEOREM ExecutionImplementsLedger == ExecSpec => Ledger!Spec /\ ImplementsLedger
<1>1. ExecInit => Ledger!Init
  <2> SUFFICES ASSUME ExecInit PROVE Ledger!Init
    BY Zenon
  <2>1. ASSUME NEW k \in EffectKeys PROVE Store[k] = Ledger!NoEffect
    <3>1. effects[k] = NoEffect
      BY Zenon, <2>1 DEF ExecInit, Init
    <3>2. Store[k] = [NoEffect EXCEPT !.transitions = Numbered(<< >>)]
      BY <2>1, <3>1 DEF Store, NoEffect
    <3>3. Numbered(<< >>) = << >>
      BY DEF Numbered
    <3>4. Ledger!NoEffect = NoEffect
      BY Zenon DEF Ledger!NoEffect, NoEffect, Ledger!Absent, Absent, Ledger!Bare, Bare
    <3> QED BY Zenon, <3>2, <3>3, <3>4 DEF NoEffect
  <2>2. Store = [k \in EffectKeys |-> Ledger!NoEffect]
    BY Zenon, <2>1 DEF Store
  <2> QED BY Zenon, <2>2 DEF Ledger!Init, Ledger!EffectKeys, EffectKeys, Store
<1>2. ExecInv /\ [ExecNext]_execVars => [Ledger!Next]_(Ledger!vars)
  <2> SUFFICES ASSUME ExecInv, [ExecNext]_execVars PROVE Ledger!Next \/ UNCHANGED Ledger!vars
    BY Zenon
  <2> QED BY Zenon, StepRefines DEF Ledger!vars, Store
<1>3. ExecInv /\ [ExecNext]_execVars
        => [UNCHANGED Ledger!vars \/ Ledger!Next]_(Ledger!vars)
  BY Zenon, <1>2
<1>4. ExecSpec => Ledger!Spec
  BY <1>1, <1>2, ExecInvAlways, PTL DEF ExecSpec, Ledger!Spec
<1>5. ExecSpec => ImplementsLedger
  BY <1>1, <1>3, ExecInvAlways, PTL DEF ExecSpec, ImplementsLedger
<1> QED BY Zenon, <1>4, <1>5
=============================================================================
