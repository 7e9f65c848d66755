-------------------------- MODULE TaskRunnerProofs --------------------------
(***************************************************************************)
(* Proofs about TaskGraph, for any number of Tasks in any acyclic graph,   *)
(* any priorities, capabilities, workers, clock readings and limits, and   *)
(* about TaskRunner, for any number of orchestrators and any timing that   *)
(* with_timing accepts: the stored graph changes only as TaskGraph allows, *)
(* a Task has one worker at a time, a completed Task's workspace was       *)
(* released and the mailbox is fenced.                                     *)
(***************************************************************************)
EXTENDS TaskRunner, TLAPS

----------------------------------------------------------------------------
(* The Task Graph.                                                          *)

\* blocked_mutations returns waiting Tasks only, and exactly those that depend on an
\* unsuccessful Task or on another Task it returns.
LEMMA BlockedMutationsExact ==
    ASSUME NEW overrides, NEW additional,
           deps \in [Tasks -> SUBSET Tasks]
    PROVE  LET failed  == {t \in Tasks : status[t] \in Unsuccessful} \cup additional
               waiting == {t \in Tasks \ failed : status[t] = "Pending" \/ t \in overrides}
               blocked == BlockedMutations(overrides, additional)
           IN  /\ blocked \subseteq waiting
               /\ \A t \in waiting : t \in blocked <=> deps[t] \cap (failed \cup blocked) # {}
<1> DEFINE failed  == {t \in Tasks : status[t] \in Unsuccessful} \cup additional
           waiting == {t \in Tasks \ failed : status[t] = "Pending" \/ t \in overrides}
           Closed(S) == \A t \in waiting : deps[t] \cap (failed \cup S) # {} => t \in S
           blocked == BlockedMutations(overrides, additional)
<1>1. blocked = {t \in waiting : \A S \in SUBSET waiting : Closed(S) => t \in S}
  BY Zenon DEF BlockedMutations
<1> HIDE DEF failed, waiting, blocked
<1>2. ASSUME NEW t \in waiting, deps[t] \cap (failed \cup blocked) # {}
      PROVE  t \in blocked
  <2>1. PICK d \in deps[t] : d \in failed \cup blocked
    BY Zenon, <1>2
  <2>2. ASSUME NEW S \in SUBSET waiting, Closed(S) PROVE t \in S
    BY Zenon, <1>1, <2>1, <2>2
  <2> QED BY Zenon, <1>1, <2>2
<1>3. ASSUME NEW t \in blocked, deps[t] \cap (failed \cup blocked) = {}
      PROVE  FALSE
  <2> DEFINE S == blocked \ {t}
  <2>1. S \in SUBSET waiting
    BY Zenon, <1>1
  <2>2. ASSUME NEW u \in waiting, deps[u] \cap (failed \cup S) # {} PROVE u \in S
    BY Zenon, <1>2, <1>3, <2>2
  <2>3. t \in S
    BY Zenon, <1>1, <1>3, <2>1, <2>2
  <2> QED BY Zenon, <2>3
<1>4. blocked \subseteq waiting
  BY Zenon, <1>1
<1> QED
  BY Zenon, <1>2, <1>3, <1>4 DEF failed, waiting, blocked

\* The inductive invariant of the lifecycle.
LifecycleInv == TasksTypeOK /\ DependenciesFirst /\ BlockedExactly

\* In a state of the invariant no waiting or running Task has an unsuccessful
\* predecessor, so a claim finds nothing to block.
LEMMA ClaimBlocksNothing ==
    ASSUME LifecycleInv, NEW time \in Times
    PROVE  BlockedMutations(Expired(time), {}) = {}
<1> DEFINE blocked == BlockedMutations(Expired(time), {})
<1>1. deps \in [Tasks -> SUBSET Tasks]
  BY Zenon DEF LifecycleInv, TasksTypeOK
<1> DEFINE failed  == {t \in Tasks : status[t] \in Unsuccessful} \cup {}
           waiting == {t \in Tasks \ failed : status[t] = "Pending" \/ t \in Expired(time)}
<1>2. \A t \in waiting : deps[t] \cap (failed \cup {}) = {}
  BY Zenon DEF LifecycleInv, BlockedExactly, Expired
<1>3. \A t \in BlockedMutations(Expired(time), {}) : t \in {}
  <2>1. {} \in SUBSET waiting
    BY Zenon
  <2> QED BY Zenon, <1>2, <2>1 DEF BlockedMutations
<1> QED BY Zenon, <1>3

\* A settlement that blocks what blocked_mutations returns keeps the dependency order
\* and keeps blocking exact.
LEMMA UnsuccessfulStep ==
    ASSUME LifecycleInv, NEW t \in Tasks, NEW n,
           status[t] \in {"Pending", "Running"},
           NEW outcome \in {"Failed", "Cancelled"},
           SettledAs(t, outcome, n, BlockedMutations({}, {t}))
    PROVE  DependenciesFirst' /\ BlockedExactly'
<1> DEFINE blocked == BlockedMutations({}, {t})
           failed  == {u \in Tasks : status[u] \in Unsuccessful} \cup {t}
           waiting == {u \in Tasks \ failed : status[u] = "Pending" \/ u \in {}}
<1>1. deps \in [Tasks -> SUBSET Tasks] /\ deps' = deps
  BY Zenon DEF LifecycleInv, TasksTypeOK, SettledAs
<1>2. /\ blocked \subseteq waiting
      /\ \A u \in waiting : u \in blocked <=> deps[u] \cap (failed \cup blocked) # {}
  BY Zenon, <1>1, BlockedMutationsExact
<1>3. status' = [u \in Tasks |-> IF u = t THEN outcome
                                 ELSE IF u \in blocked THEN "Blocked" ELSE status[u]]
  BY Zenon DEF SettledAs
<1> HIDE DEF blocked
<1>4. \A u \in Tasks : status[u] = "Completed" <=> status'[u] = "Completed"
  BY Zenon, <1>2, <1>3 DEF LifecycleInv, TasksTypeOK
<1>5. \A u \in Tasks : status'[u] \in Unsuccessful <=> u \in failed \cup blocked
  BY Zenon, <1>2, <1>3 DEF LifecycleInv, TasksTypeOK, Unsuccessful, Terminal, States
<1>6. DependenciesFirst'
  BY Zenon, <1>1, <1>3, <1>4 DEF LifecycleInv, DependenciesFirst, DepsCompleted
<1>7. BlockedExactly'
  <2> SUFFICES ASSUME NEW u \in Tasks
               PROVE  /\ status'[u] \in {"Pending", "Running"} =>
                            \A d \in deps[u] : status'[d] \notin Unsuccessful
                      /\ status'[u] = "Blocked" =>
                            \E d \in deps[u] : status'[d] \in Unsuccessful
    BY Zenon, <1>1 DEF BlockedExactly
  <2>1. CASE status'[u] = "Pending"
    <3>1. u \in waiting /\ u \notin blocked
      BY Zenon, <2>1, <1>3, <1>5 DEF Unsuccessful
    <3> QED BY Zenon, <2>1, <3>1, <1>1, <1>2, <1>5
  <2>2. CASE status'[u] = "Running"
    <3>1. status[u] = "Running"
      BY Zenon, <2>2, <1>3
    <3>2. \A d \in deps[u] : status'[d] = "Completed"
      BY Zenon, <3>1, <1>1, <1>4 DEF LifecycleInv, DependenciesFirst, DepsCompleted
    <3> QED BY Zenon, <2>2, <3>2 DEF Unsuccessful
  <2>3. CASE status'[u] = "Blocked"
    <3>1. CASE u \in blocked
      <4>1. PICK d \in deps[u] : d \in failed \cup blocked
        BY <3>1, <1>2
      <4> QED BY Zenon, <2>3, <4>1, <1>1, <1>5
    <3>2. CASE u \notin blocked
      <4>1. status[u] = "Blocked"
        BY Zenon, <2>3, <3>2, <1>3
      <4>2. PICK d \in deps[u] : status[d] \in Unsuccessful
        BY Zenon, <4>1 DEF LifecycleInv, BlockedExactly
      <4> QED BY Zenon, <2>3, <4>2, <1>1, <1>5
    <3> QED BY Zenon, <3>1, <3>2
  <2> QED BY Zenon, <2>1, <2>2, <2>3
<1> QED BY Zenon, <1>6, <1>7

\* A claim keeps the dependency order and keeps blocking exact.
LEMMA ClaimStep ==
    ASSUME LifecycleInv, NEW owner, NEW time \in Times, NEW duration, NEW maximum,
           NEW governed, NEW caps,
           ClaimReady(owner, time, duration, maximum, governed, caps)
    PROVE  DependenciesFirst' /\ BlockedExactly'
<1> DEFINE ready    == Ready(time, {}, caps)
           selected == Selected(ready, maximum)
           released == Expired(time) \ selected
<1>1. deps \in [Tasks -> SUBSET Tasks] /\ deps' = deps
  BY Zenon DEF LifecycleInv, TasksTypeOK, ClaimReady
<1>2. status' = [t \in Tasks |-> IF t \in selected THEN "Running"
                                 ELSE IF t \in released THEN "Pending" ELSE status[t]]
  BY Zenon, ClaimBlocksNothing DEF ClaimReady
<1>3. /\ selected \subseteq Tasks /\ released \subseteq Tasks
      /\ \A t \in selected : status[t] \in {"Pending", "Running"} /\ DepsCompleted(t)
      /\ \A t \in released : status[t] = "Running"
  BY Zenon DEF Selected, Ready, Expired
<1> HIDE DEF selected, released
<1>4. \A t \in Tasks : /\ status[t] = "Completed" <=> status'[t] = "Completed"
                       /\ status[t] \in Unsuccessful <=> status'[t] \in Unsuccessful
                       /\ status[t] = "Blocked" <=> status'[t] = "Blocked"
                       /\ status'[t] \in {"Pending", "Running"} <=>
                             status[t] \in {"Pending", "Running"}
  BY Zenon, <1>2, <1>3 DEF Unsuccessful
<1>5. DependenciesFirst'
  BY Zenon, <1>1, <1>2, <1>3, <1>4 DEF LifecycleInv, DependenciesFirst, DepsCompleted
<1>6. BlockedExactly'
  BY Zenon, <1>1, <1>4 DEF LifecycleInv, BlockedExactly
<1> QED BY Zenon, <1>5, <1>6

\* What every action takes from Next.
LEMMA NextCases ==
    ASSUME Next
    PROVE  \/ \E owner \in Owners, time \in Times, duration \in 1 .. MaxTime,
                 maximum \in 1 .. NTasks, governed \in BOOLEAN,
                 caps \in SUBSET Capabilities :
                 ClaimReady(owner, time, duration, maximum, governed, caps)
           \/ \E t \in Tasks, attempt \in 1 .. MaxAttempts, time \in Times :
                 \/ \E expires \in 1 .. 2 * MaxTime : Heartbeat(t, attempt, time, expires)
                 \/ Complete(t, attempt, time)
                 \/ Fail(t, attempt, time)
           \/ \E t \in Tasks : Cancel(t)
           \/ \E time \in Times : ReleaseExpired(time)
           \/ UNCHANGED << deps, status, lease, attempts, bindings, settledBy >>
  BY Zenon DEF Next, Claim, Settle, Administer, Communicate, SendMessage, ReadPage

\* Every step keeps the types of the Tasks.
LEMMA TasksTypeStep ==
    ASSUME LifecycleInv, Next
    PROVE  TasksTypeOK'
<1> USE GraphAssumption DEF Times
<1>0. TasksTypeOK
  BY Zenon DEF LifecycleInv
<1>a. NoLease \notin Leases
  BY Zenon DEF NoLease, Leases
<1>1. ASSUME NEW owner \in Owners, NEW time \in Times, NEW duration \in 1 .. MaxTime,
             NEW maximum \in 1 .. NTasks, NEW governed \in BOOLEAN,
             NEW caps \in SUBSET Capabilities,
             ClaimReady(owner, time, duration, maximum, governed, caps)
      PROVE  TasksTypeOK'
  <2> DEFINE ready    == Ready(time, {}, caps)
             selected == Selected(ready, maximum)
             released == Expired(time) \ selected
  <2>1. BlockedMutations(Expired(time), {}) = {}
    BY Zenon, ClaimBlocksNothing
  <2>2. /\ AttemptsLeft(ready)
        /\ status' = [t \in Tasks |-> IF t \in selected THEN "Running"
                                      ELSE IF t \in released THEN "Pending" ELSE status[t]]
        /\ lease' = [t \in Tasks |->
                       IF t \in selected
                       THEN [owner |-> owner, attempt |-> attempts[t] + 1,
                             expires |-> time + duration]
                       ELSE IF t \in released THEN NoLease ELSE lease[t]]
        /\ attempts' = [t \in Tasks |-> IF t \in selected THEN attempts[t] + 1
                                        ELSE attempts[t]]
        /\ bindings' = bindings \cup NewBindings(selected, owner, governed)
        /\ UNCHANGED << deps, settledBy >>
    BY Zenon, <1>1, <2>1 DEF ClaimReady
  <2>3. selected \subseteq ready /\ selected \subseteq Tasks
    BY Zenon DEF Selected, Ready
  <2> HIDE DEF ready, selected, released
  <2>4. \A t \in selected : attempts[t] < MaxAttempts
    BY Zenon, <2>2, <2>3 DEF AttemptsLeft
  <2>5. attempts' \in [Tasks -> 0 .. MaxAttempts]
    BY <1>0, <2>2, <2>3, <2>4 DEF TasksTypeOK
  <2>6. status' \in [Tasks -> States]
    BY Zenon, <1>0, <2>2 DEF TasksTypeOK, States
  <2>7. \A t \in selected : [owner |-> owner, attempt |-> attempts[t] + 1,
                             expires |-> time + duration] \in Leases
    BY <1>0, <2>3 DEF TasksTypeOK, Leases
  <2>8. lease' \in [Tasks -> Leases \cup {NoLease}]
    BY Zenon, <1>0, <2>2, <2>7 DEF TasksTypeOK
  <2>9. \A t \in Tasks : status'[t] = "Running" <=> lease'[t] # NoLease
    BY Zenon, <1>0, <1>a, <2>2, <2>7 DEF TasksTypeOK
  <2>10. NewBindings(selected, owner, governed) \subseteq [task : Tasks, attempt : Nat, by : Owners]
    BY <1>0, <2>3 DEF NewBindings, TasksTypeOK
  <2> QED BY Zenon, <1>0, <2>2, <2>5, <2>6, <2>8, <2>9, <2>10 DEF TasksTypeOK
<1>2. ASSUME NEW t \in Tasks, NEW n \in Nat, NEW outcome \in Terminal, NEW blocked,
             SettledAs(t, outcome, n, blocked)
      PROVE  TasksTypeOK'
  BY Zenon, <1>0, <1>2 DEF TasksTypeOK, SettledAs, Terminal, Unsuccessful, States
<1>3. ASSUME NEW t \in Tasks, NEW attempt \in 1 .. MaxAttempts, NEW time \in Times,
             NEW expires \in 1 .. 2 * MaxTime, Heartbeat(t, attempt, time, expires)
      PROVE  TasksTypeOK'
  <2>1. lease[t] \in Leases /\ status[t] = "Running"
    BY Zenon, <1>0, <1>3 DEF TasksTypeOK, Heartbeat, CurrentLease
  <2>2. lease' = [lease EXCEPT ![t] = [lease[t] EXCEPT !.expires = expires]]
    BY Zenon, <1>3 DEF Heartbeat
  <2>3. [lease[t] EXCEPT !.expires = expires] \in Leases
    BY <2>1 DEF Leases
  <2> QED BY Zenon, <1>0, <1>a, <1>3, <2>1, <2>2, <2>3 DEF TasksTypeOK, Heartbeat
<1>4. ASSUME NEW time \in Times, ReleaseExpired(time)
      PROVE  TasksTypeOK'
  BY Zenon, <1>0, <1>4 DEF TasksTypeOK, ReleaseExpired, States
<1>5. ASSUME UNCHANGED << deps, status, lease, attempts, bindings, settledBy >>
      PROVE  TasksTypeOK'
  BY Zenon, <1>0, <1>5 DEF TasksTypeOK
<1>6. ASSUME NEW t \in Tasks, NEW attempt \in 1 .. MaxAttempts, NEW time \in Times,
             Complete(t, attempt, time) \/ Fail(t, attempt, time)
      PROVE  TasksTypeOK'
  BY <1>2, <1>6 DEF Complete, Fail, Terminal, Unsuccessful
<1>7. ASSUME NEW t \in Tasks, Cancel(t)
      PROVE  TasksTypeOK'
  BY Zenon, <1>2, <1>7 DEF Cancel, Terminal, Unsuccessful
<1> QED BY Zenon, NextCases, <1>1, <1>3, <1>4, <1>5, <1>6, <1>7

\* Every step keeps the lifecycle invariant.
LEMMA LifecycleStep ==
    ASSUME LifecycleInv, Next
    PROVE  LifecycleInv'
<1>1. TasksTypeOK'
  BY Zenon, TasksTypeStep
<1>2. ASSUME NEW owner \in Owners, NEW time \in Times, NEW duration \in 1 .. MaxTime,
             NEW maximum \in 1 .. NTasks, NEW governed \in BOOLEAN,
             NEW caps \in SUBSET Capabilities,
             ClaimReady(owner, time, duration, maximum, governed, caps)
      PROVE  DependenciesFirst' /\ BlockedExactly'
  BY Zenon, <1>2, ClaimStep
<1>3. ASSUME NEW t \in Tasks, NEW attempt \in 1 .. MaxAttempts, NEW time \in Times,
             NEW expires \in 1 .. 2 * MaxTime, Heartbeat(t, attempt, time, expires)
      PROVE  DependenciesFirst' /\ BlockedExactly'
  BY Zenon, <1>3 DEF Heartbeat, LifecycleInv, DependenciesFirst, BlockedExactly, DepsCompleted
<1>4. ASSUME NEW t \in Tasks, NEW attempt \in 1 .. MaxAttempts, NEW time \in Times,
             Complete(t, attempt, time)
      PROVE  DependenciesFirst' /\ BlockedExactly'
  BY Zenon, <1>4 DEF Complete, CurrentLease, SettledAs, LifecycleInv, TasksTypeOK,
              DependenciesFirst, BlockedExactly, DepsCompleted, Unsuccessful
<1>5. ASSUME NEW t \in Tasks, NEW attempt \in 1 .. MaxAttempts, NEW time \in Times,
             Fail(t, attempt, time)
      PROVE  DependenciesFirst' /\ BlockedExactly'
  BY <1>5, UnsuccessfulStep DEF Fail, CurrentLease
<1>6. ASSUME NEW t \in Tasks, Cancel(t)
      PROVE  DependenciesFirst' /\ BlockedExactly'
  <2>1. status[t] \in {"Pending", "Running"}
    BY Zenon, <1>6 DEF Cancel, LifecycleInv, TasksTypeOK, States
  <2> QED BY <1>6, <2>1, UnsuccessfulStep DEF Cancel
<1>7. ASSUME NEW time \in Times, ReleaseExpired(time)
      PROVE  DependenciesFirst' /\ BlockedExactly'
  BY Zenon, <1>7 DEF ReleaseExpired, Expired, LifecycleInv, TasksTypeOK, DependenciesFirst,
              BlockedExactly, DepsCompleted, Unsuccessful
<1>8. ASSUME UNCHANGED << deps, status, lease, attempts, bindings, settledBy >>
      PROVE  DependenciesFirst' /\ BlockedExactly'
  BY Zenon, <1>8 DEF LifecycleInv, DependenciesFirst, BlockedExactly, DepsCompleted
<1> QED
  BY Zenon, NextCases, <1>1, <1>2, <1>3, <1>4, <1>5, <1>6, <1>7, <1>8 DEF LifecycleInv

\* The lifecycle invariant holds in a new graph and in every state it can reach.
LEMMA LifecycleAlways == Spec => []LifecycleInv
<1>1. Init => LifecycleInv
  <2> SUFFICES ASSUME Init PROVE LifecycleInv
    BY Zenon
  <2>1. TasksTypeOK
    BY GraphAssumption DEF Init, TasksTypeOK, States
  <2> QED
    BY Zenon, <2>1 DEF Init, LifecycleInv, TasksTypeOK, DependenciesFirst, BlockedExactly, Unsuccessful
<1>2. LifecycleInv /\ UNCHANGED vars => LifecycleInv'
  BY Zenon DEF vars, LifecycleInv, TasksTypeOK, DependenciesFirst, BlockedExactly, DepsCompleted
<1>3. LifecycleInv /\ [Next]_vars => LifecycleInv'
  BY Zenon, <1>2, LifecycleStep
<1> QED BY <1>1, <1>3, PTL DEF Spec

\* In any acyclic graph, no Task runs or completes before the Tasks it depends on: what
\* claim_ready_governed promises, whatever fails, expires or is cancelled.
THEOREM DependenciesFirstAlways == Spec => []DependenciesFirst
<1>1. LifecycleInv => DependenciesFirst
  BY Zenon DEF LifecycleInv
<1> QED BY <1>1, LifecycleAlways, PTL

\* In any acyclic graph, fail and cancel block exactly the Tasks that can no longer run.
THEOREM BlockedExactlyAlways == Spec => []BlockedExactly
<1>1. LifecycleInv => BlockedExactly
  BY Zenon DEF LifecycleInv
<1> QED BY <1>1, LifecycleAlways, PTL

\* In any acyclic graph, until every Task is settled one runs or one is ready: the
\* waiting Task that depends on no other waiting Task has only completed or running
\* predecessors.
THEOREM NeverStuckAlways == Spec => []NeverStuck
<1>1. LifecycleInv => NeverStuck
  <2> HAVE LifecycleInv
  <2> DEFINE waiting == {t \in Tasks : status[t] = "Pending"}
  <2>1. SUFFICES ASSUME ~IsTerminal, \A t \in Tasks : status[t] # "Running"
                 PROVE  \E t \in Tasks : status[t] = "Pending" /\ DepsCompleted(t)
    BY Zenon DEF NeverStuck
  <2>2. waiting # {}
    BY Zenon, <2>1 DEF IsTerminal, LifecycleInv, TasksTypeOK, States
  <2>3. PICK t \in waiting : deps[t] \cap waiting = {}
    BY Zenon, <2>2 DEF LifecycleInv, TasksTypeOK, ValidateAcyclic
  <2>4. \A d \in deps[t] : status[d] = "Completed"
    BY Zenon, <2>1, <2>3 DEF LifecycleInv, TasksTypeOK, BlockedExactly, States, Terminal
  <2> QED BY Zenon, <2>3, <2>4 DEF DepsCompleted
<1> QED BY <1>1, LifecycleAlways, PTL

\* The attempt invariant: the evidence of every attempt and of every settlement.
AttemptInv == AttemptsGoverned /\ LastAttemptSettles

\* A claim of an unbound Task leaves it unbound; a governed one extends its evidence.
LEMMA ClaimAttempts ==
    ASSUME LifecycleInv, AttemptInv, NEW owner \in Owners, NEW time \in Times, NEW duration,
           NEW maximum, NEW governed \in BOOLEAN, NEW caps,
           ClaimReady(owner, time, duration, maximum, governed, caps)
    PROVE  AttemptInv'
<1> DEFINE ready    == Ready(time, {}, caps)
           selected == Selected(ready, maximum)
           released == Expired(time) \ selected
<1>0. TasksTypeOK
  BY Zenon DEF LifecycleInv
<1>1. /\ MayClaim(selected, governed)
      /\ status' = [t \in Tasks |-> IF t \in selected THEN "Running"
                                    ELSE IF t \in released THEN "Pending" ELSE status[t]]
      /\ lease' = [t \in Tasks |->
                     IF t \in selected
                     THEN [owner |-> owner, attempt |-> attempts[t] + 1,
                           expires |-> time + duration]
                     ELSE IF t \in released THEN NoLease ELSE lease[t]]
      /\ attempts' = [t \in Tasks |-> IF t \in selected THEN attempts[t] + 1
                                      ELSE attempts[t]]
      /\ bindings' = bindings \cup NewBindings(selected, owner, governed)
      /\ UNCHANGED settledBy
  BY Zenon, ClaimBlocksNothing DEF ClaimReady
<1>2. /\ selected \subseteq Tasks
      /\ \A t \in selected : status[t] \in {"Pending", "Running"}
  BY Zenon DEF Selected, Ready, Expired
<1> HIDE DEF ready, selected, released
<1>3. LastAttemptSettles'
  <2>1. \A t \in Tasks : status'[t] \in {"Completed", "Failed"} =>
           t \notin selected /\ status[t] = status'[t]
    BY Zenon, <1>1
  <2> QED BY Zenon, <1>1, <2>1 DEF AttemptInv, LastAttemptSettles
<1>4. \A t \in Tasks : attempts[t] \in Nat
  BY <1>0 DEF TasksTypeOK
<1>5. \A t \in Tasks : status'[t] = "Running" =>
         lease'[t].attempt = attempts'[t] /\ attempts'[t] > 0
  BY <1>1, <1>4 DEF AttemptInv, AttemptsGoverned
<1>6. \A b \in bindings : b.task \in Tasks /\ b.attempt \in Nat /\ b.by \in Owners
                          /\ b.attempt \in 1 .. attempts[b.task]
  BY Zenon, <1>0 DEF TasksTypeOK, AttemptInv, AttemptsGoverned
<1>7. CASE ~governed
  <2>1. bindings' = bindings /\ \A b \in bindings : b.task \notin selected
    BY Zenon, <1>1, <1>7 DEF NewBindings, MayClaim
  <2>2. \A b \in bindings : attempts'[b.task] = attempts[b.task]
    BY Zenon, <1>1, <1>6, <2>1
  <2>3. \A b \in bindings : status'[b.task] = "Running" =>
           status[b.task] = "Running" /\ lease'[b.task] = lease[b.task]
    BY Zenon, <1>1, <1>6, <2>1
  <2>4. ASSUME NEW b \in bindings
        PROVE  /\ b.attempt \in 1 .. attempts'[b.task]
               /\ \A n \in b.attempt .. attempts'[b.task] : Bound(b.task, n)'
               /\ \A c \in bindings : (b.task = c.task /\ b.attempt = c.attempt) => b = c
               /\ status'[b.task] = "Running" =>
                     [task |-> b.task, attempt |-> attempts'[b.task],
                      by |-> lease'[b.task].owner] \in bindings
    <3>1. \A n \in b.attempt .. attempts[b.task] : Bound(b.task, n)
      BY Zenon DEF AttemptInv, AttemptsGoverned
    <3>2. \A n \in b.attempt .. attempts[b.task] : Bound(b.task, n)'
      BY Zenon, <3>1, <2>1 DEF Bound
    <3> QED BY Zenon, <1>6, <2>2, <2>3, <3>2 DEF AttemptInv, AttemptsGoverned
  <2> QED BY Zenon, <1>3, <1>5, <2>1, <2>4 DEF AttemptInv, AttemptsGoverned
<1>8. CASE governed
  <2> DEFINE New(t) == [task |-> t, attempt |-> attempts[t] + 1, by |-> owner]
  <2>1. bindings' = bindings \cup {New(t) : t \in selected}
    BY Zenon, <1>1, <1>8 DEF NewBindings
  <2>2. ASSUME NEW b \in bindings'
        PROVE  /\ b.task \in Tasks
               /\ b.attempt \in 1 .. attempts'[b.task]
               /\ b \in bindings \/ (b.task \in selected /\ b = New(b.task))
    BY <1>1, <1>2, <1>4, <1>6, <2>1
  <2>3. ASSUME NEW b \in bindings', NEW n \in b.attempt .. attempts'[b.task]
        PROVE  \E c \in bindings' : c.task = b.task /\ c.attempt = n
    <3>1. CASE b \in bindings /\ n \in b.attempt .. attempts[b.task]
      BY Zenon, <3>1, <2>1 DEF AttemptInv, AttemptsGoverned, Bound
    <3>2. CASE b.task \in selected /\ n = attempts[b.task] + 1
      <4>1. New(b.task) \in bindings'
        BY Zenon, <3>2, <2>1
      <4> QED BY Zenon, <4>1, <3>2
    <3> QED BY <1>1, <1>2, <1>4, <1>6, <2>2, <2>3, <3>1, <3>2
  <2>4. ASSUME NEW b \in bindings', NEW c \in bindings',
               b.task = c.task, b.attempt = c.attempt
        PROVE  b = c
    <3>1. CASE b \in bindings /\ c \in bindings
      BY Zenon, <3>1, <2>4 DEF AttemptInv, AttemptsGoverned
    <3>2. CASE b = New(b.task) /\ c = New(c.task)
      BY Zenon, <3>2, <2>4
    <3>3. CASE b \in bindings /\ c = New(c.task)
      BY <3>3, <2>4, <1>4, <1>6
    <3>4. CASE c \in bindings /\ b = New(b.task)
      BY <3>4, <2>4, <1>4, <1>6
    <3> QED BY Zenon, <2>2, <3>1, <3>2, <3>3, <3>4
  <2>5. ASSUME NEW b \in bindings', status'[b.task] = "Running"
        PROVE  [task |-> b.task, attempt |-> attempts'[b.task],
                by |-> lease'[b.task].owner] \in bindings'
    <3>1. CASE b.task \in selected
      BY Zenon, <1>1, <1>2, <2>1, <3>1
    <3>2. CASE b.task \notin selected
      <4>1. b \in bindings /\ status[b.task] = "Running" /\ lease'[b.task] = lease[b.task]
            /\ attempts'[b.task] = attempts[b.task]
        BY Zenon, <1>1, <2>2, <2>5, <3>2
      <4> QED BY Zenon, <2>1, <4>1 DEF AttemptInv, AttemptsGoverned
    <3> QED BY Zenon, <3>1, <3>2
  <2> QED BY Zenon, <1>3, <1>5, <2>2, <2>3, <2>4, <2>5 DEF AttemptInv, AttemptsGoverned, Bound
<1> QED BY Zenon, <1>7, <1>8

\* Every step keeps the attempt invariant.
LEMMA AttemptStep ==
    ASSUME LifecycleInv, AttemptInv, Next
    PROVE  AttemptInv'
<1>0. TasksTypeOK
  BY Zenon DEF LifecycleInv
<1>1. ASSUME NEW owner \in Owners, NEW time \in Times, NEW duration \in 1 .. MaxTime,
             NEW maximum \in 1 .. NTasks, NEW governed \in BOOLEAN,
             NEW caps \in SUBSET Capabilities,
             ClaimReady(owner, time, duration, maximum, governed, caps)
      PROVE  AttemptInv'
  BY Zenon, <1>1, ClaimAttempts
<1>2. ASSUME UNCHANGED << attempts, bindings >>,
             \A t \in Tasks : status'[t] = "Running" =>
                /\ status[t] = "Running"
                /\ lease'[t].attempt = lease[t].attempt /\ lease'[t].owner = lease[t].owner
      PROVE  AttemptsGoverned'
  <2>1. \A t, n : Bound(t, n)' <=> Bound(t, n)
    BY Zenon, <1>2 DEF Bound
  <2>2. \A b \in bindings : b.task \in Tasks
    BY Zenon, <1>0 DEF TasksTypeOK
  <2> QED BY Zenon, <1>2, <2>1, <2>2 DEF AttemptInv, AttemptsGoverned
<1>3. ASSUME NEW t \in Tasks, NEW n, NEW outcome \in Terminal, NEW blocked,
             SettledAs(t, outcome, n, blocked),
             outcome \in {"Completed", "Failed"} => n = attempts[t] /\ attempts[t] > 0
      PROVE  AttemptInv'
  <2>1. AttemptsGoverned'
    BY Zenon, <1>2, <1>3 DEF SettledAs, Terminal, Unsuccessful
  <2>2. LastAttemptSettles'
    BY Zenon, <1>0, <1>3 DEF SettledAs, TasksTypeOK, AttemptInv, LastAttemptSettles
  <2> QED BY Zenon, <2>1, <2>2 DEF AttemptInv
<1>4. ASSUME NEW t \in Tasks, NEW attempt \in 1 .. MaxAttempts, NEW time \in Times,
             NEW expires \in 1 .. 2 * MaxTime, Heartbeat(t, attempt, time, expires)
      PROVE  AttemptInv'
  <2>1. lease[t] \in Leases
    BY Zenon, <1>0, <1>4 DEF Heartbeat, CurrentLease, TasksTypeOK
  <2>2. \A u \in Tasks : /\ lease'[u].attempt = lease[u].attempt
                         /\ lease'[u].owner = lease[u].owner
    BY Zenon, <1>0, <1>4, <2>1 DEF Heartbeat, TasksTypeOK, Leases
  <2>3. AttemptsGoverned'
    BY Zenon, <1>2, <1>4, <2>2 DEF Heartbeat
  <2> QED BY Zenon, <1>4, <2>3 DEF Heartbeat, AttemptInv, LastAttemptSettles
<1>5. ASSUME NEW t \in Tasks, NEW attempt \in 1 .. MaxAttempts, NEW time \in Times,
             Complete(t, attempt, time) \/ Fail(t, attempt, time)
      PROVE  AttemptInv'
  <2>1. attempt = attempts[t] /\ attempts[t] > 0
    BY Zenon, <1>5 DEF Complete, Fail, CurrentLease, AttemptInv, AttemptsGoverned
  <2> QED BY Zenon, <1>3, <1>5, <2>1 DEF Complete, Fail, Terminal, Unsuccessful
<1>6. ASSUME NEW t \in Tasks, Cancel(t)
      PROVE  AttemptInv'
  BY Zenon, <1>3, <1>6 DEF Cancel, Terminal, Unsuccessful
<1>7. ASSUME NEW time \in Times, ReleaseExpired(time)
      PROVE  AttemptInv'
  <2>1. AttemptsGoverned'
    BY Zenon, <1>2, <1>7 DEF ReleaseExpired
  <2> QED BY Zenon, <1>7, <2>1 DEF ReleaseExpired, AttemptInv, LastAttemptSettles
<1>8. ASSUME UNCHANGED << deps, status, lease, attempts, bindings, settledBy >>
      PROVE  AttemptInv'
  BY Zenon, <1>8, <1>2 DEF AttemptInv, LastAttemptSettles
<1> QED BY Zenon, NextCases, <1>1, <1>4, <1>5, <1>6, <1>7, <1>8

\* The attempt invariant holds in every reachable state.
LEMMA AttemptsAlways == Spec => []AttemptInv
<1>1. Init => AttemptInv
  BY Zenon DEF Init, AttemptInv, AttemptsGoverned, LastAttemptSettles
<1>2. AttemptInv /\ UNCHANGED vars => AttemptInv'
  BY DEF vars, AttemptInv, AttemptsGoverned, LastAttemptSettles, Bound
<1>3. LifecycleInv /\ AttemptInv /\ [Next]_vars => AttemptInv'
  BY Zenon, <1>2, AttemptStep
<1> QED BY <1>1, <1>3, LifecycleAlways, PTL DEF Spec

\* For any number of Tasks and attempts, the attempt evidence is always what
\* validate_integrity accepts: a Task once governed is governed in every later attempt.
THEOREM AttemptsGovernedAlways == Spec => []AttemptsGoverned
<1>1. AttemptInv => AttemptsGoverned
  BY Zenon DEF AttemptInv
<1> QED BY <1>1, AttemptsAlways, PTL

\* For any clocks, only the holder of a Task's last lease completes or fails it.
THEOREM LastAttemptSettlesAlways == Spec => []LastAttemptSettles
<1>1. AttemptInv => LastAttemptSettles
  BY Zenon DEF AttemptInv
<1> QED BY <1>1, AttemptsAlways, PTL

\* No operation of the graph ever changes a settled Task.
THEOREM TerminalIsFinalAlways == Spec => TerminalIsFinal
<1> DEFINE Kept == \A t \in Tasks : status[t] \in Terminal => status'[t] = status[t]
<1>1. ASSUME LifecycleInv, Next PROVE Kept
  <2>1. ASSUME NEW owner \in Owners, NEW time \in Times, NEW duration \in 1 .. MaxTime,
               NEW maximum \in 1 .. NTasks, NEW governed \in BOOLEAN,
               NEW caps \in SUBSET Capabilities,
               ClaimReady(owner, time, duration, maximum, governed, caps)
        PROVE  Kept
    <3>1. \A t \in Tasks : status[t] \in Terminal =>
             /\ t \notin Expired(time)
             /\ \A m : t \notin Selected(Ready(time, {}, caps), m)
      BY Zenon, <1>1 DEF Expired, Selected, Ready, Terminal, Unsuccessful
    <3> QED BY Zenon, <1>1, <2>1, <3>1, ClaimBlocksNothing DEF ClaimReady
  <2>2. ASSUME NEW t \in Tasks, NEW n, NEW outcome, NEW blocked, status[t] \notin Terminal,
               SettledAs(t, outcome, n, blocked),
               \A u \in blocked : u \in Tasks /\ status[u] \notin Terminal
        PROVE  Kept
    BY Zenon, <2>2 DEF SettledAs
  <2>3. ASSUME NEW t \in Tasks, NEW u \in BlockedMutations({}, {t})
        PROVE  u \in Tasks /\ status[u] \notin Terminal
    BY <1>1, <2>3, BlockedMutationsExact DEF LifecycleInv, TasksTypeOK, Terminal, Unsuccessful
  <2>4. ASSUME NEW t \in Tasks, NEW attempt, NEW time,
               Complete(t, attempt, time) \/ Fail(t, attempt, time) \/ Cancel(t)
        PROVE  Kept
    <3>1. status[t] \notin Terminal
      BY Zenon, <2>4 DEF Complete, Fail, Cancel, CurrentLease, Terminal, Unsuccessful
    <3> QED BY <2>2, <2>3, <2>4, <3>1 DEF Complete, Fail, Cancel
  <2>5. ASSUME NEW time, ReleaseExpired(time)
        PROVE  Kept
    BY Zenon, <2>5 DEF ReleaseExpired, Expired, Terminal, Unsuccessful
  <2>6. ASSUME NEW t, NEW attempt, NEW time, NEW expires, Heartbeat(t, attempt, time, expires)
        PROVE  Kept
    BY Zenon, <2>6 DEF Heartbeat
  <2> QED BY Zenon, NextCases, <1>1, <2>1, <2>4, <2>5, <2>6
<1>2. LifecycleInv /\ [Next]_vars => [Kept]_vars
  BY Zenon, <1>1
<1> QED BY <1>2, LifecycleAlways, PTL DEF Spec, TerminalIsFinal

----------------------------------------------------------------------------
(* The runner: what its processes remember between two steps.               *)

Phases == Active \cup {"none", "ended", "joined", "aborted"}
Pcs == {"top", "claim", "claimCAS", "select", "settle", "settleCAS", "drain", "returned"}

\* The states of run() and of execute_claim.
Runs == [pc : Pcs, stop : BOOLEAN, rev : Nat, at : Nat, tries : Nat,
         claim : Claims \cup {NoClaim}]
Workers == [by : Owners \cup {NoOwner}, phase : Phases, due : Nat, cancelled : BOOLEAN,
            outcome : Outcomes, workspace : {"none", "held", "released", "failed"},
            sending : Nat]

RunnerTypeOK ==
    /\ now \in Times /\ revision \in Nat
    /\ run \in [Owners -> Runs]
    /\ worker \in [Claims -> Workers]

\* What an orchestrator remembers between two of its steps: the clock it read, room for
\* another worker, and the ended worker it is about to settle.
RunOK(o) ==
    /\ run[o].pc \in {"claimCAS", "settleCAS"} => run[o].at <= now
    /\ run[o].pc = "claimCAS" => now <= run[o].at + CommitLatency
    /\ run[o].pc \in {"claim", "claimCAS"} => Available(o) > 0
    /\ run[o].pc \in {"settle", "settleCAS"} =>
          run[o].claim \in Claims /\ worker[run[o].claim].phase = "joined"

\* The last moment at which a worker's cleanup may end.
Latest(c) ==
    worker[c].due + (IF worker[c].phase = "preparing" THEN PreparationDrainGrace + ReleaseTimeout
                     ELSE IF worker[c].phase = "releasing" THEN 0 ELSE ReleaseTimeout)

Leased(c) == status[c[1]] = "Running" /\ lease[c[1]].attempt = c[2]

\* A worker that runs was issued its attempt, has time left, and either ends before
\* its lease does or works for a Task that is settled for good.
LiveOK(c) ==
    /\ worker[c].phase # "none" => c[2] <= attempts[c[1]]
    /\ worker[c].phase \in Active =>
          /\ now <= worker[c].due
          /\ \/ status[c[1]] \in Terminal
             \/ Leased(c) /\ Latest(c) < lease[c[1]].expires

\* A worker ends in success only with its workspace released.
EndOK(c) ==
    /\ worker[c].phase = "draining" => worker[c].outcome # "Completed"
    /\ worker[c].phase \in {"ended", "joined"} /\ worker[c].outcome = "Completed" =>
          worker[c].workspace = "released"

\* The revision a send has loaded still is the stored one only while the lease holds.
SendOK(c) ==
    worker[c].sending # 0 =>
        /\ worker[c].phase # "none" /\ worker[c].sending <= revision
        /\ worker[c].sending = revision => Leased(c)

\* A completed Task was settled by a worker that had ended and was joined.
SettledOK(t) ==
    status[t] = "Completed" =>
        /\ << t, settledBy[t] >> \in Claims
        /\ worker[<< t, settledBy[t] >>].phase = "joined"
        /\ worker[<< t, settledBy[t] >>].workspace = "released"

\* The inductive invariant.
RunnerInv ==
    /\ LifecycleInv
    /\ RunnerTypeOK
    /\ \A o \in Owners : RunOK(o)
    /\ \A c \in Claims : LiveOK(c)
    /\ \A c \in Claims : EndOK(c)
    /\ \A c \in Claims : SendOK(c)
    /\ \A t \in Tasks : SettledOK(t)
    /\ ExclusiveExecution

----------------------------------------------------------------------------
(* Claims, and what a step keeps of an orchestrator and of its workers.     *)

\* A claim is a Task and one of its attempts.
LEMMA ClaimParts ==
    /\ \A c \in Claims : c[1] \in Tasks /\ c[2] \in 1 .. MaxAttempts /\ c = << c[1], c[2] >>
    /\ \A c, d \in Claims : c[1] = d[1] /\ c[2] = d[2] => c = d
    /\ \A c \in Claims : c[2] \in Nat
  BY GraphAssumption DEF Claims

\* The fields of the runner's state have their types.
LEMMA Typed ==
    ASSUME RunnerTypeOK
    PROVE  /\ \A c \in Claims : /\ worker[c] \in Workers
                                /\ worker[c].due \in Nat /\ worker[c].sending \in Nat
                                /\ worker[c].phase \in Phases
                                /\ worker[c].outcome \in Outcomes
           /\ \A o \in Owners : run[o] \in Runs /\ run[o].at \in Nat /\ run[o].rev \in Nat
           /\ now \in Nat /\ revision \in Nat
  BY GraphAssumption DEF RunnerTypeOK, Workers, Runs, Times

\* An orchestrator has room for as many workers after a step that neither joins, drops
\* nor spawns one of its own.
LEMMA RoomKept ==
    ASSUME NEW p \in Owners,
           \A c \in Claims :
              (worker'[c].by = p /\ worker'[c].phase \in Active \cup {"ended"}) <=>
                 (worker[c].by = p /\ worker[c].phase \in Active \cup {"ended"})
    PROVE  Available(p)' = Available(p)
<1>1. Held(p)' = Held(p)
  BY Zenon DEF Held
<1> QED BY Zenon, <1>1 DEF Available

\* An orchestrator that does not move keeps what it remembers.
LEMMA RunKept ==
    ASSUME NEW p \in Owners, RunOK(p), run'[p] = run[p], now' = now,
           Available(p)' = Available(p),
           \A c \in Claims : worker[c].phase = "joined" => worker'[c].phase = "joined"
    PROVE  RunOK(p)'
<1>1. run[p].claim \in Claims /\ worker[run[p].claim].phase = "joined" =>
         worker'[run[p].claim].phase = "joined"
  BY Zenon
<1> QED BY Zenon, <1>1 DEF RunOK

\* What a step of an orchestrator does to its workers: it cancels, joins or drops them.
Calmed(c) ==
    /\ worker'[c].by = worker[c].by /\ worker'[c].due = worker[c].due
    /\ worker'[c].outcome = worker[c].outcome
    /\ worker'[c].workspace = worker[c].workspace
    /\ \/ worker'[c].phase = worker[c].phase
       \/ worker[c].phase = "ended" /\ worker'[c].phase = "joined"
       \/ worker[c].phase \in Active /\ worker'[c].phase = "aborted"

Softened(c) == Calmed(c) /\ worker'[c].sending = worker[c].sending

\* A step that settles some Tasks and leaves the others alone.
Settling ==
    /\ attempts' = attempts
    /\ \A t \in Tasks : \/ status'[t] \in Terminal
                        \/ status'[t] = status[t] /\ lease'[t] = lease[t]

\* A worker keeps its place while Tasks are settled and workers are cancelled.
LEMMA LiveKept ==
    ASSUME RunnerTypeOK, NEW c \in Claims, LiveOK(c), Calmed(c), Settling, now' = now
    PROVE  LiveOK(c)'
<1>1. c[1] \in Tasks
  BY Zenon, ClaimParts
<1>2. "none" \notin Active /\ "aborted" \notin Active /\ "joined" \notin Active
  BY Zenon DEF Active
<1>3. ASSUME worker'[c].phase # "none" PROVE worker[c].phase # "none"
  BY Zenon, <1>2, <1>3 DEF Calmed
<1>4. ASSUME worker'[c].phase \in Active
      PROVE  worker[c].phase \in Active /\ worker'[c].phase = worker[c].phase
  BY Zenon, <1>2, <1>4 DEF Calmed
<1>5. attempts' = attempts
  BY Zenon DEF Settling
<1>6. ASSUME worker'[c].phase \in Active
      PROVE  /\ now' <= worker'[c].due
             /\ \/ status'[c[1]] \in Terminal
                \/ Leased(c)' /\ Latest(c)' < lease'[c[1]].expires
  <2>1. worker[c].phase \in Active /\ worker'[c].phase = worker[c].phase
    BY Zenon, <1>4, <1>6
  <2>2. worker'[c].due = worker[c].due
    BY Zenon DEF Calmed
  <2>3. now' <= worker'[c].due
    BY Zenon, <2>1, <2>2 DEF LiveOK
  <2>4. CASE status'[c[1]] \in Terminal
    BY Zenon, <2>3, <2>4
  <2>5. CASE status'[c[1]] \notin Terminal
    <3>1. status'[c[1]] = status[c[1]] /\ lease'[c[1]] = lease[c[1]]
      BY Zenon, <1>1, <2>5 DEF Settling
    <3>2. Leased(c) /\ Latest(c) < lease[c[1]].expires
      BY Zenon, <2>1, <2>5, <3>1 DEF LiveOK
    <3>3. Latest(c)' = Latest(c)
      BY Zenon, <2>1, <2>2 DEF Latest
    <3> QED BY Zenon, <2>3, <3>1, <3>2, <3>3 DEF Leased
  <2> QED BY Zenon, <2>4, <2>5
<1> QED BY Zenon, <1>3, <1>5, <1>6 DEF LiveOK

\* A worker's result does not change when it is cancelled, joined or dropped.
LEMMA EndKept ==
    ASSUME NEW c \in Claims, EndOK(c), Calmed(c)
    PROVE  EndOK(c)'
  BY Zenon DEF EndOK, Calmed, Active

\* Workers that are cancelled, joined or dropped leave execution exclusive.
LEMMA ExclusiveKept ==
    ASSUME ExclusiveExecution,
           \A c \in Claims : worker'[c].phase \in Active => worker[c].phase \in Active
    PROVE  ExclusiveExecution'
  BY Zenon DEF ExclusiveExecution

\* A worker that is cancelled, joined or dropped does not become active again.
LEMMA CalmedActive ==
    ASSUME NEW c \in Claims, Calmed(c)
    PROVE  /\ worker'[c].phase \in Active => worker[c].phase \in Active
           /\ worker[c].phase = "joined" => worker'[c].phase = "joined"
  BY Zenon DEF Calmed, Active

----------------------------------------------------------------------------
(* The steps of an orchestrator that leave the stored graph alone.          *)

QuietRun(o) ==
    /\ UNCHANGED << vars, now, revision >>
    /\ \A p \in Owners \ {o} : run'[p] = run[p]
    /\ \A c \in Claims : Softened(c) /\ (worker[c].by # o => worker'[c] = worker[c])
    /\ RunnerTypeOK'
    /\ RunOK(o)'

\* A quiet step keeps the invariant.
LEMMA QuietStep ==
    ASSUME RunnerInv, NEW o \in Owners, QuietRun(o)
    PROVE  RunnerInv'
<1>1. /\ LifecycleInv /\ RunnerTypeOK /\ ExclusiveExecution
      /\ now' = now /\ revision' = revision /\ vars' = vars
      /\ \A c \in Claims : Softened(c)
      /\ \A c \in Claims : Calmed(c)
  BY Zenon DEF RunnerInv, QuietRun, Softened
<1>2. LifecycleInv'
  BY Zenon, <1>1 DEF vars, LifecycleInv, TasksTypeOK, DependenciesFirst, BlockedExactly,
     DepsCompleted
<1>3. /\ status' = status /\ lease' = lease /\ attempts' = attempts /\ settledBy' = settledBy
  BY Zenon, <1>1 DEF vars
<1>4. Settling
  BY Zenon, <1>3 DEF Settling
<1>5. ASSUME NEW c \in Claims PROVE LiveOK(c)' /\ EndOK(c)' /\ SendOK(c)'
  <2>1. LiveOK(c) /\ EndOK(c) /\ SendOK(c) /\ Softened(c) /\ Calmed(c)
    BY Zenon, <1>1 DEF RunnerInv
  <2>2. worker[c].phase # "none" => worker'[c].phase # "none"
    BY Zenon, <2>1 DEF Softened, Calmed
  <2>3. SendOK(c)'
    BY Zenon, <1>1, <1>3, <2>1, <2>2 DEF SendOK, Leased, Softened, Calmed
  <2> QED BY Zenon, <1>1, <1>4, <2>1, <2>3, LiveKept, EndKept
<1>6. ASSUME NEW t \in Tasks PROVE SettledOK(t)'
  <2>1. SettledOK(t)
    BY Zenon DEF RunnerInv
  <2>2. ASSUME NEW c \in Claims, worker[c].phase = "joined"
        PROVE  worker'[c].phase = "joined" /\ worker'[c].workspace = worker[c].workspace
    BY Zenon, <1>1, <2>2 DEF Softened, Calmed, Active
  <2> QED BY Zenon, <1>3, <2>1, <2>2 DEF SettledOK
<1>7. ExclusiveExecution'
  BY Zenon, <1>1, CalmedActive, ExclusiveKept
<1>8. ASSUME NEW p \in Owners PROVE RunOK(p)'
  <2>1. CASE p = o
    BY Zenon, <2>1 DEF QuietRun
  <2>2. CASE p # o
    <3>1. RunOK(p) /\ run'[p] = run[p]
      BY Zenon, <2>2 DEF RunnerInv, QuietRun
    <3>2. ASSUME NEW c \in Claims
          PROVE  (worker'[c].by = p /\ worker'[c].phase \in Active \cup {"ended"}) <=>
                    (worker[c].by = p /\ worker[c].phase \in Active \cup {"ended"})
      <4>1. worker'[c].by = worker[c].by /\ (worker[c].by # o => worker'[c] = worker[c])
        BY Zenon DEF QuietRun, Softened, Calmed
      <4> QED BY Zenon, <2>2, <4>1
    <3>3. Available(p)' = Available(p)
      BY Zenon, <3>2, RoomKept
    <3> QED BY Zenon, <1>1, <3>1, <3>3, CalmedActive, RunKept
  <2> QED BY Zenon, <2>1, <2>2
<1> QED BY Zenon, <1>2, <1>5, <1>6, <1>7, <1>8 DEF RunnerInv, QuietRun

\* Cancelling workers through their tokens is quiet.
LEMMA SignalledQuiet ==
    ASSUME RunnerTypeOK, NEW o \in Owners, NEW tasks, worker' = Signalled(o, tasks)
    PROVE  /\ worker' \in [Claims -> Workers]
           /\ \A c \in Claims : Softened(c) /\ (worker[c].by # o => worker'[c] = worker[c])
           /\ Available(o)' = Available(o)
<1>1. ASSUME NEW c \in Claims
      PROVE  \/ worker'[c] = worker[c]
             \/ worker[c].by = o /\ worker'[c] = [worker[c] EXCEPT !.cancelled = TRUE]
  BY Zenon DEF Signalled
<1>2. ASSUME NEW c \in Claims
      PROVE  /\ worker'[c] \in Workers /\ Softened(c)
             /\ worker[c].by # o => worker'[c] = worker[c]
             /\ worker'[c].by = worker[c].by /\ worker'[c].phase = worker[c].phase
  <2>1. worker[c] \in Workers
    BY Zenon, Typed
  <2>2. CASE worker'[c] = worker[c]
    BY Zenon, <2>1, <2>2 DEF Softened, Calmed
  <2>3. CASE worker[c].by = o /\ worker'[c] = [worker[c] EXCEPT !.cancelled = TRUE]
    BY Zenon, <2>1, <2>3 DEF Softened, Calmed, Workers
  <2> QED BY Zenon, <1>1, <2>2, <2>3
<1>3. worker' \in [Claims -> Workers]
  BY Zenon, <1>2 DEF Signalled
<1>4. Available(o)' = Available(o)
  BY Zenon, <1>2, RoomKept
<1> QED BY Zenon, <1>2, <1>3, <1>4

\* Dropping the JoinSet is quiet.
LEMMA DroppedQuiet ==
    ASSUME RunnerTypeOK, NEW o \in Owners, worker' = Dropped(o)
    PROVE  /\ worker' \in [Claims -> Workers]
           /\ \A c \in Claims : Softened(c) /\ (worker[c].by # o => worker'[c] = worker[c])
<1>1. ASSUME NEW c \in Claims
      PROVE  \/ worker'[c] = worker[c]
             \/ /\ worker[c].by = o /\ worker[c].phase = "ended"
                /\ worker'[c] = [worker[c] EXCEPT !.phase = "joined"]
             \/ /\ worker[c].by = o /\ worker[c].phase \in Active
                /\ worker'[c] = [worker[c] EXCEPT !.phase = "aborted"]
  BY Zenon DEF Dropped, Held, Active
<1>2. ASSUME NEW c \in Claims
      PROVE  /\ worker'[c] \in Workers /\ Softened(c)
             /\ worker[c].by # o => worker'[c] = worker[c]
  <2>1. worker[c] \in Workers
    BY Zenon, Typed
  <2>2. CASE worker'[c] = worker[c]
    BY Zenon, <2>1, <2>2 DEF Softened, Calmed
  <2>3. CASE /\ worker[c].by = o /\ worker[c].phase = "ended"
             /\ worker'[c] = [worker[c] EXCEPT !.phase = "joined"]
    BY Zenon, <2>1, <2>3 DEF Softened, Calmed, Workers, Phases
  <2>4. CASE /\ worker[c].by = o /\ worker[c].phase \in Active
             /\ worker'[c] = [worker[c] EXCEPT !.phase = "aborted"]
    BY Zenon, <2>1, <2>4 DEF Softened, Calmed, Workers, Phases
  <2> QED BY Zenon, <1>1, <2>2, <2>3, <2>4
<1>3. worker' \in [Claims -> Workers]
  BY Zenon, <1>2 DEF Dropped
<1> QED BY Zenon, <1>2, <1>3

\* What is left to show of a quiet step once its workers are known to be.
LEMMA QuietBy ==
    ASSUME RunnerTypeOK, NEW o \in Owners, NEW r \in Runs,
           run' = [run EXCEPT ![o] = r], UNCHANGED << vars, now, revision >>,
           worker' \in [Claims -> Workers],
           \A c \in Claims : Softened(c) /\ (worker[c].by # o => worker'[c] = worker[c]),
           RunOK(o)'
    PROVE  QuietRun(o)
<1>1. run' \in [Owners -> Runs] /\ \A p \in Owners \ {o} : run'[p] = run[p]
  BY Zenon DEF RunnerTypeOK
<1>2. RunnerTypeOK'
  BY Zenon, <1>1 DEF RunnerTypeOK
<1> QED BY Zenon, <1>1, <1>2 DEF QuietRun

\* An orchestrator that is not between a load and its commit remembers nothing.
LEMMA Forgets ==
    ASSUME NEW o \in Owners, run'[o].pc \in {"top", "select", "drain", "returned"}
    PROVE  RunOK(o)'
  BY Zenon DEF RunOK

\* A step that touches no worker.
LEMMA QuietIdle ==
    ASSUME RunnerTypeOK, NEW o \in Owners, NEW r \in Runs,
           run' = [run EXCEPT ![o] = r], UNCHANGED << vars, now, revision, token, worker >>,
           RunOK(o)'
    PROVE  QuietRun(o)
<1>1. worker' = worker /\ worker' \in [Claims -> Workers]
  BY Zenon DEF RunnerTypeOK
<1>2. \A c \in Claims : Softened(c) /\ (worker[c].by # o => worker'[c] = worker[c])
  BY Zenon, <1>1 DEF Softened, Calmed
<1> QED BY Zenon, <1>1, <1>2, QuietBy

\* run() returns and its JoinSet is dropped.
LEMMA ReturnQuiet ==
    ASSUME RunnerTypeOK, NEW o \in Owners, Return(o)
    PROVE  QuietRun(o)
<1> DEFINE r == [run[o] EXCEPT !.pc = "returned", !.tries = 0]
<1>1. run[o] \in Runs /\ run \in [Owners -> Runs]
  BY Zenon DEF RunnerTypeOK
<1>2. r \in Runs /\ r.pc = "returned"
  BY Zenon, <1>1 DEF Runs, Pcs
<1>3. run' = [run EXCEPT ![o] = r]
  BY Zenon, <1>1 DEF Return, Goto
<1>4. run'[o] = r
  BY Zenon, <1>1, <1>3
<1> HIDE DEF r
<1>5. RunOK(o)'
  BY Zenon, <1>2, <1>4, Forgets
<1>6. UNCHANGED << vars, now, revision >> /\ worker' = Dropped(o)
  BY Zenon DEF Return
<1> QED BY Zenon, <1>2, <1>3, <1>5, <1>6, DroppedQuiet, QuietBy

\* cancel_workers signals every worker and starts to drain.
LEMMA CancelWorkersQuiet ==
    ASSUME RunnerTypeOK, NEW o \in Owners, CancelWorkers(o)
    PROVE  QuietRun(o)
<1> DEFINE r == [run[o] EXCEPT !.pc = "drain", !.at = now + CancellationDrainGrace]
<1>1. run[o] \in Runs /\ run \in [Owners -> Runs] /\ now + CancellationDrainGrace \in Nat
  BY Typed, RunnerAssumption DEF RunnerTypeOK
<1>2. r \in Runs /\ r.pc = "drain"
  BY Zenon, <1>1 DEF Runs, Pcs
<1>3. run' = [run EXCEPT ![o] = r]
  BY Zenon, <1>1 DEF CancelWorkers
<1>4. run'[o] = r
  BY Zenon, <1>1, <1>3
<1> HIDE DEF r
<1>5. RunOK(o)'
  BY Zenon, <1>2, <1>4, Forgets
<1>6. UNCHANGED << vars, now, revision >> /\ worker' = Signalled(o, Tasks)
  BY Zenon DEF CancelWorkers
<1> QED BY Zenon, <1>2, <1>3, <1>5, <1>6, SignalledQuiet, QuietBy

\* A move of the program counter that touches no worker and remembers nothing.
LEMMA GotoQuiet ==
    ASSUME RunnerTypeOK, NEW o \in Owners, NEW pc \in {"top", "select"}, Goto(o, pc),
           UNCHANGED << vars, now, revision, token, worker >>
    PROVE  QuietRun(o)
<1> DEFINE r == [run[o] EXCEPT !.pc = pc, !.tries = 0]
<1>1. run[o] \in Runs /\ run \in [Owners -> Runs]
  BY Zenon DEF RunnerTypeOK
<1>2. r \in Runs /\ r.pc = pc
  BY Zenon, <1>1 DEF Runs, Pcs
<1>3. run' = [run EXCEPT ![o] = r]
  BY Zenon, <1>1 DEF Goto
<1>4. run'[o] = r
  BY Zenon, <1>1, <1>3
<1> HIDE DEF r
<1>5. RunOK(o)'
  BY Zenon, <1>2, <1>4, Forgets
<1> QED BY Zenon, <1>2, <1>3, <1>5, QuietIdle

\* A lost compare-and-swap loads again or gives up.
LEMMA ConflictQuiet ==
    ASSUME RunnerInv, NEW o \in Owners, NEW pc,
           \/ run[o].pc = "claimCAS" /\ pc = "claim"
           \/ run[o].pc = "settleCAS" /\ pc = "settle",
           Conflict(o, pc)
    PROVE  QuietRun(o)
<1>0. RunnerTypeOK /\ RunOK(o)
  BY Zenon DEF RunnerInv
<1>1. CASE Return(o)
  BY Zenon, <1>0, <1>1, ReturnQuiet
<1>2. CASE /\ run' = [run EXCEPT ![o].pc = pc, ![o].tries = @ + 1]
           /\ UNCHANGED << vars, now, revision, token, worker >>
  <2> DEFINE r == [run[o] EXCEPT !.pc = pc, !.tries = @ + 1]
  <2>1. run[o] \in Runs /\ run \in [Owners -> Runs]
    BY Zenon, <1>0 DEF RunnerTypeOK
  <2>a. run[o].tries + 1 \in Nat /\ pc \in Pcs
    BY <2>1 DEF Runs, Pcs
  <2>2. r \in Runs /\ r.pc = pc /\ r.claim = run[o].claim
    BY Zenon, <2>1, <2>a DEF Runs
  <2>3. run' = [run EXCEPT ![o] = r]
    BY Zenon, <1>2, <2>1
  <2>4. run'[o] = r
    BY Zenon, <2>1, <2>3
  <2> HIDE DEF r
  <2>5. Available(o)' = Available(o) /\ worker' = worker
    BY Zenon, <1>2 DEF Available, Held
  <2>6. RunOK(o)'
    <3>1. CASE run[o].pc = "claimCAS" /\ pc = "claim"
      BY Zenon, <1>0, <2>2, <2>4, <2>5, <3>1 DEF RunOK
    <3>2. CASE run[o].pc = "settleCAS" /\ pc = "settle"
      BY Zenon, <1>0, <2>2, <2>4, <2>5, <3>2 DEF RunOK
    <3> QED BY Zenon, <3>1, <3>2
  <2> QED BY Zenon, <1>0, <1>2, <2>2, <2>3, <2>6, QuietIdle
<1> QED BY Zenon, <1>1, <1>2 DEF Conflict

\* The top of the loop signals the workers it finds fenced and goes on to claim, if
\* there is room, or to select.
LEMMA LoadGraphQuiet ==
    ASSUME RunnerInv, NEW o \in Owners, LoadGraph(o)
    PROVE  QuietRun(o)
<1>0. RunnerTypeOK
  BY Zenon DEF RunnerInv
<1>1. CASE CancelWorkers(o)
  BY Zenon, <1>0, <1>1, CancelWorkersQuiet
<1>2. CASE /\ Goto(o, IF Available(o) > 0 THEN "claim" ELSE "select")
           /\ worker' = Signalled(o, Fenced(o))
           /\ UNCHANGED << vars, now, revision, token >>
  <2> DEFINE pc == IF Available(o) > 0 THEN "claim" ELSE "select"
             r == [run[o] EXCEPT !.pc = pc, !.tries = 0]
  <2>1. run[o] \in Runs /\ run \in [Owners -> Runs]
    BY Zenon, <1>0 DEF RunnerTypeOK
  <2>2. pc \in Pcs /\ pc \in {"claim", "select"} /\ (pc = "claim" => Available(o) > 0)
    BY Zenon DEF Pcs
  <2> HIDE DEF pc
  <2>3. r \in Runs /\ r.pc = pc
    BY Zenon, <2>1, <2>2 DEF Runs
  <2>4. run' = [run EXCEPT ![o] = r]
    BY Zenon, <1>2, <2>1 DEF Goto, pc
  <2>5. run'[o] = r
    BY Zenon, <2>1, <2>4
  <2> HIDE DEF r
  <2>6. /\ worker' \in [Claims -> Workers]
        /\ \A c \in Claims : Softened(c) /\ (worker[c].by # o => worker'[c] = worker[c])
        /\ Available(o)' = Available(o)
    BY Zenon, <1>0, <1>2, SignalledQuiet
  <2>7. RunOK(o)'
    BY Zenon, <2>2, <2>3, <2>5, <2>6 DEF RunOK
  <2> QED BY Zenon, <1>0, <1>2, <2>3, <2>4, <2>6, <2>7, QuietBy
<1> QED BY Zenon, <1>1, <1>2 DEF LoadGraph

\* claim_available loads the graph and fixes its revision and the time.
LEMMA LoadForClaimQuiet ==
    ASSUME RunnerInv, NEW o \in Owners, LoadForClaim(o)
    PROVE  QuietRun(o)
<1>0. RunnerTypeOK /\ RunOK(o)
  BY Zenon DEF RunnerInv
<1>1. CASE Return(o)
  BY Zenon, <1>0, <1>1, ReturnQuiet
<1>2. CASE Goto(o, "select") /\ UNCHANGED << vars, now, revision, token, worker >>
  BY Zenon, <1>0, <1>2, GotoQuiet
<1>3. CASE /\ run' = [run EXCEPT ![o].pc = "claimCAS", ![o].rev = revision, ![o].at = now]
           /\ UNCHANGED << vars, now, revision, token, worker >>
  <2> DEFINE r == [run[o] EXCEPT !.pc = "claimCAS", !.rev = revision, !.at = now]
  <2>1. run[o] \in Runs /\ run \in [Owners -> Runs] /\ now \in Nat /\ revision \in Nat
    BY Zenon, <1>0, Typed DEF RunnerTypeOK
  <2>2. r \in Runs /\ r.pc = "claimCAS" /\ r.at = now
    BY Zenon, <2>1 DEF Runs, Pcs
  <2>3. run' = [run EXCEPT ![o] = r]
    BY Zenon, <1>3, <2>1
  <2>4. run'[o] = r
    BY Zenon, <2>1, <2>3
  <2> HIDE DEF r
  <2>5. Available(o)' = Available(o) /\ now' = now
    BY Zenon, <1>3 DEF Available, Held
  <2>6. Available(o) > 0
    BY Zenon, <1>0 DEF LoadForClaim, RunOK
  <2>7. RunOK(o)'
    BY <2>1, <2>2, <2>4, <2>5, <2>6, RunnerAssumption DEF RunOK
  <2> QED BY Zenon, <1>0, <1>3, <2>2, <2>3, <2>7, QuietIdle
<1> QED BY Zenon, <1>1, <1>2, <1>3 DEF LoadForClaim

\* settle loads the graph and keeps the claim only while its lease is current.
LEMMA LoadForSettleQuiet ==
    ASSUME RunnerInv, NEW o \in Owners, LoadForSettle(o)
    PROVE  QuietRun(o)
<1>0. RunnerTypeOK /\ RunOK(o)
  BY Zenon DEF RunnerInv
<1>1. CASE Return(o)
  BY Zenon, <1>0, <1>1, ReturnQuiet
<1>2. CASE Goto(o, "top") /\ UNCHANGED << vars, now, revision, token, worker >>
  BY Zenon, <1>0, <1>2, GotoQuiet
<1>3. CASE /\ run' = [run EXCEPT ![o].pc = "settleCAS", ![o].rev = revision, ![o].at = now]
           /\ UNCHANGED << vars, now, revision, token, worker >>
  <2> DEFINE r == [run[o] EXCEPT !.pc = "settleCAS", !.rev = revision, !.at = now]
  <2>1. run[o] \in Runs /\ run \in [Owners -> Runs] /\ now \in Nat /\ revision \in Nat
    BY Zenon, <1>0, Typed DEF RunnerTypeOK
  <2>2. r \in Runs /\ r.pc = "settleCAS" /\ r.at = now /\ r.claim = run[o].claim
    BY Zenon, <2>1 DEF Runs, Pcs
  <2>3. run' = [run EXCEPT ![o] = r]
    BY Zenon, <1>3, <2>1
  <2>4. run'[o] = r
    BY Zenon, <2>1, <2>3
  <2> HIDE DEF r
  <2>5. run[o].claim \in Claims /\ worker[run[o].claim].phase = "joined"
    BY Zenon, <1>0 DEF LoadForSettle, RunOK
  <2>6. RunOK(o)'
    BY <1>3, <2>1, <2>2, <2>4, <2>5 DEF RunOK
  <2> QED BY Zenon, <1>0, <1>3, <2>2, <2>3, <2>6, QuietIdle
<1> QED BY Zenon, <1>1, <1>2, <1>3 DEF LoadForSettle

\* Joining an ended worker fixes the claim to settle.
LEMMA JoinQuiet ==
    ASSUME RunnerInv, NEW o \in Owners, NEW c \in Claims, Join(o, c)
    PROVE  QuietRun(o)
<1> DEFINE pc == IF worker[c].outcome = "Cancelled" THEN "top" ELSE "settle"
           r == [run[o] EXCEPT !.pc = pc, !.claim = c, !.tries = 0]
           w == [worker[c] EXCEPT !.phase = "joined"]
<1>1. /\ run[o] \in Runs /\ run \in [Owners -> Runs] /\ worker \in [Claims -> Workers]
      /\ worker[c] \in Workers /\ RunnerTypeOK
  BY Zenon DEF RunnerInv, RunnerTypeOK
<1>2. pc \in {"top", "settle"} /\ pc \in Pcs
  BY Zenon DEF Pcs
<1>3. run' = [run EXCEPT ![o] = r] /\ worker' = [worker EXCEPT ![c] = w]
  BY Zenon, <1>1 DEF Join
<1> HIDE DEF pc
<1>4. r \in Runs /\ r.pc = pc /\ r.claim = c
  BY Zenon, <1>1, <1>2 DEF Runs
<1>5. /\ w \in Workers /\ w.phase = "joined" /\ w.by = worker[c].by /\ w.due = worker[c].due
      /\ w.outcome = worker[c].outcome /\ w.workspace = worker[c].workspace
      /\ w.sending = worker[c].sending
  BY Zenon, <1>1 DEF Workers, Phases
<1>6. run'[o] = r /\ worker'[c] = w /\ \A d \in Claims \ {c} : worker'[d] = worker[d]
  BY Zenon, <1>1, <1>3
<1>7. worker' \in [Claims -> Workers]
  BY Zenon, <1>1, <1>3, <1>5
<1> HIDE DEF r, w
<1>8. worker[c].by = o /\ worker[c].phase = "ended"
  BY Zenon DEF Join, Held
<1>9. ASSUME NEW d \in Claims
      PROVE  Softened(d) /\ (worker[d].by # o => worker'[d] = worker[d])
  <2>1. CASE d = c
    BY Zenon, <1>5, <1>6, <1>8, <2>1 DEF Softened, Calmed
  <2>2. CASE d # c
    BY Zenon, <1>6, <2>2 DEF Softened, Calmed
  <2> QED BY Zenon, <2>1, <2>2
<1>10. RunOK(o)'
  BY Zenon, <1>2, <1>4, <1>5, <1>6 DEF RunOK
<1>11. UNCHANGED << vars, now, revision >>
  BY Zenon DEF Join
<1> QED BY Zenon, <1>1, <1>3, <1>4, <1>7, <1>9, <1>10, <1>11, QuietBy

\* A host that cancels a run only sets its flag.
LEMMA StopRunQuiet ==
    ASSUME RunnerInv, NEW o \in Owners, StopRun(o)
    PROVE  QuietRun(o)
<1> DEFINE r == [run[o] EXCEPT !.stop = TRUE]
<1>1. run[o] \in Runs /\ run \in [Owners -> Runs] /\ RunnerTypeOK /\ RunOK(o)
  BY Zenon DEF RunnerInv, RunnerTypeOK
<1>2. r \in Runs /\ r.pc = run[o].pc /\ r.at = run[o].at /\ r.claim = run[o].claim
  BY Zenon, <1>1 DEF Runs
<1>3. run' = [run EXCEPT ![o] = r] /\ UNCHANGED << vars, now, revision, token, worker >>
  BY Zenon, <1>1 DEF StopRun
<1>4. run'[o] = r
  BY Zenon, <1>1, <1>3
<1> HIDE DEF r
<1>5. Available(o)' = Available(o) /\ worker' = worker /\ now' = now
  BY Zenon, <1>3 DEF Available, Held
<1>6. RunOK(o)'
  BY Zenon, <1>1, <1>2, <1>4, <1>5 DEF RunOK
<1> QED BY Zenon, <1>1, <1>2, <1>3, <1>6, QuietIdle

\* Every step of an orchestrator but its two commits is quiet.
LEMMA OrchestratorQuiet ==
    ASSUME RunnerInv, NEW o \in Owners, OrchestratorStep(o), ~CommitClaim(o), ~CommitSettle(o)
    PROVE  QuietRun(o)
<1>0. RunnerTypeOK
  BY Zenon DEF RunnerInv
<1>1. CASE LoadGraph(o) \/ LoadForClaim(o) \/ LoadForSettle(o)
  BY Zenon, <1>1, LoadGraphQuiet, LoadForClaimQuiet, LoadForSettleQuiet
<1>2. CASE ClaimConflict(o) \/ SettleConflict(o)
  BY Zenon, <1>2, ConflictQuiet DEF ClaimConflict, SettleConflict
<1>3. CASE \E c \in Claims : Join(o, c)
  BY Zenon, <1>3, JoinQuiet
<1>4. CASE SelectStop(o) \/ Drained(o)
  BY Zenon, <1>0, <1>4, ReturnQuiet, CancelWorkersQuiet DEF SelectStop, Drained
<1>5. CASE Poll(o)
  BY Zenon, <1>0, <1>5, GotoQuiet DEF Poll
<1> QED BY Zenon, <1>1, <1>2, <1>3, <1>4, <1>5 DEF OrchestratorStep

----------------------------------------------------------------------------
(* Commits that issue no lease.                                             *)

\* The workers do nothing but end a send.
WorkersRest ==
    \A c \in Claims : worker'[c] = worker[c] \/ worker'[c] = [worker[c] EXCEPT !.sending = 0]

\* A completed Task stays settled by the worker that settled it.
LEMMA SettledKept ==
    ASSUME NEW t \in Tasks, SettledOK(t),
           status'[t] = "Completed" => status[t] = "Completed" /\ settledBy'[t] = settledBy[t],
           \A c \in Claims : worker[c].phase = "joined" =>
              worker'[c].phase = "joined" /\ worker'[c].workspace = worker[c].workspace
    PROVE  SettledOK(t)'
  BY Zenon DEF SettledOK

\* Settling Tasks, or sending a message, under the compare-and-swap keeps the invariant.
LEMMA CommitStep ==
    ASSUME RunnerInv, LifecycleInv', Settling, now' = now,
           \/ Committed
           \/ UNCHANGED << vars, revision >>,
           worker' \in [Claims -> Workers], WorkersRest, run' \in [Owners -> Runs],
           \A p \in Owners : run'[p] = run[p] \/ run'[p].pc = "top",
           \A t \in Tasks : SettledOK(t)'
    PROVE  RunnerInv'
<1>1. RunnerTypeOK /\ ExclusiveExecution
  BY Zenon DEF RunnerInv
<1>2. /\ revision' \in Nat
      /\ \/ revision' = revision + 1
         \/ revision' = revision /\ status' = status /\ lease' = lease
  BY <1>1, Typed DEF Committed, vars
<1>3. ASSUME NEW c \in Claims
      PROVE  /\ Calmed(c) /\ worker'[c].phase = worker[c].phase
             /\ worker'[c].sending \in {worker[c].sending, 0}
  <2>1. worker[c] \in Workers
    BY Zenon, <1>1, Typed
  <2>2. CASE worker'[c] = worker[c]
    BY Zenon, <2>2 DEF Calmed
  <2>3. CASE worker'[c] = [worker[c] EXCEPT !.sending = 0]
    BY Zenon, <2>1, <2>3 DEF Calmed, Workers
  <2> QED BY Zenon, <2>2, <2>3 DEF WorkersRest
<1>4. ASSUME NEW c \in Claims PROVE LiveOK(c)' /\ EndOK(c)'
  <2>1. LiveOK(c) /\ EndOK(c) /\ Calmed(c)
    BY Zenon, <1>3 DEF RunnerInv
  <2> QED BY Zenon, <1>1, <2>1, LiveKept, EndKept
<1>5. ASSUME NEW c \in Claims PROVE SendOK(c)'
  <2>1. SendOK(c) /\ worker[c].sending \in Nat /\ revision \in Nat
    BY Zenon, <1>1, Typed DEF RunnerInv
  <2> SUFFICES ASSUME worker'[c].sending # 0
               PROVE  /\ worker'[c].phase # "none" /\ worker'[c].sending <= revision'
                      /\ worker'[c].sending = revision' => Leased(c)'
    BY Zenon DEF SendOK
  <2>2. /\ worker'[c].sending = worker[c].sending /\ worker[c].sending # 0
        /\ worker'[c].phase = worker[c].phase
    BY Zenon, <1>3
  <2>3. worker[c].phase # "none" /\ worker[c].sending <= revision
    BY Zenon, <2>1, <2>2 DEF SendOK
  <2>4. CASE revision' = revision + 1
    BY <2>1, <2>2, <2>3, <2>4
  <2>5. CASE revision' = revision /\ status' = status /\ lease' = lease
    BY Zenon, <2>1, <2>2, <2>3, <2>5 DEF SendOK, Leased
  <2> QED BY Zenon, <1>2, <2>4, <2>5
<1>6. ExclusiveExecution'
  BY Zenon, <1>1, <1>3, ExclusiveKept
<1>7. ASSUME NEW p \in Owners PROVE RunOK(p)'
  <2>1. CASE run'[p].pc = "top"
    BY Zenon, <2>1, Forgets
  <2>2. CASE run'[p] = run[p]
    <3>1. Available(p)' = Available(p)
      <4>1. \A c \in Claims : worker'[c].by = worker[c].by /\ worker'[c].phase = worker[c].phase
        BY Zenon, <1>3 DEF Calmed
      <4> QED BY Zenon, <4>1, RoomKept
    <3>2. RunOK(p)
      BY Zenon DEF RunnerInv
    <3> QED BY Zenon, <1>3, <2>2, <3>1, <3>2, RunKept
  <2> QED BY Zenon, <2>1, <2>2
<1>8. RunnerTypeOK'
  BY Zenon, <1>1, <1>2 DEF RunnerTypeOK
<1> QED BY Zenon, <1>4, <1>5, <1>6, <1>7, <1>8 DEF RunnerInv

\* A settlement leaves every Task but the settled and the blocked ones alone.
LEMMA SettledAsSettles ==
    ASSUME NEW t \in Tasks, NEW outcome \in Terminal, NEW n, NEW blocked,
           SettledAs(t, outcome, n, blocked)
    PROVE  Settling
<1>1. attempts' = attempts
  BY Zenon DEF SettledAs
<1>2. ASSUME NEW u \in Tasks
      PROVE  \/ status'[u] \in Terminal
             \/ status'[u] = status[u] /\ lease'[u] = lease[u]
  <2>1. /\ status'[u] = IF u = t THEN outcome ELSE IF u \in blocked THEN "Blocked" ELSE status[u]
        /\ lease'[u] = IF u \in {t} \cup blocked THEN NoLease ELSE lease[u]
    BY Zenon DEF SettledAs
  <2> QED BY Zenon, <2>1 DEF Terminal, Unsuccessful
<1> QED BY Zenon, <1>1, <1>2 DEF Settling

\* An administrator's cancellation keeps the invariant.
LEMMA CancelTaskStep ==
    ASSUME RunnerInv, LifecycleInv', NEW t \in Tasks, CancelTask(t)
    PROVE  RunnerInv'
<1> DEFINE blocked == BlockedMutations({}, {t})
<1>1. /\ SettledAs(t, "Cancelled", 0, blocked) /\ Committed
      /\ now' = now /\ run' = run /\ worker' = worker
  BY Zenon DEF CancelTask, Cancel
<1> HIDE DEF blocked
<1>2. "Cancelled" \in Terminal
  BY Zenon DEF Terminal, Unsuccessful
<1>3. Settling
  BY Zenon, <1>1, <1>2, SettledAsSettles
<1>4. run' \in [Owners -> Runs] /\ worker' \in [Claims -> Workers] /\ WorkersRest
  BY Zenon, <1>1 DEF RunnerInv, RunnerTypeOK, WorkersRest
<1>5. ASSUME NEW u \in Tasks PROVE SettledOK(u)'
  <2>1. SettledOK(u) /\ settledBy \in [Tasks -> Nat]
    BY Zenon DEF RunnerInv, LifecycleInv, TasksTypeOK
  <2>2. ASSUME status'[u] = "Completed"
        PROVE  status[u] = "Completed" /\ settledBy'[u] = settledBy[u]
    <3>1. u # t /\ status[u] = "Completed"
      BY Zenon, <1>1, <2>2 DEF SettledAs
    <3> QED BY Zenon, <1>1, <2>1, <3>1 DEF SettledAs
  <2> QED BY Zenon, <1>1, <2>1, <2>2, SettledKept
<1> QED BY Zenon, <1>1, <1>3, <1>4, <1>5, CommitStep

\* The settlement of a joined worker's claim keeps the invariant: a success was
\* reported after the workspace was released.
LEMMA CommitSettleStep ==
    ASSUME RunnerInv, LifecycleInv', NEW o \in Owners, CommitSettle(o)
    PROVE  RunnerInv'
<1> DEFINE c == run[o].claim
           r == [run[o] EXCEPT !.pc = "top", !.tries = 0]
<1>1. /\ RunnerTypeOK /\ run[o] \in Runs /\ run \in [Owners -> Runs]
      /\ worker \in [Claims -> Workers] /\ settledBy \in [Tasks -> Nat]
  BY Zenon DEF RunnerInv, RunnerTypeOK, LifecycleInv, TasksTypeOK
<1>2. c \in Claims /\ worker[c].phase = "joined" /\ EndOK(c)
  BY Zenon DEF RunnerInv, RunOK, CommitSettle
<1>3. /\ Committed /\ now' = now /\ worker' = worker
      /\ IF worker[c].outcome = "Completed"
         THEN SettledAs(c[1], "Completed", c[2], {})
         ELSE SettledAs(c[1], "Failed", c[2], BlockedMutations({}, {c[1]}))
  BY Zenon DEF CommitSettle, Complete, Fail
<1>4. run' = [run EXCEPT ![o] = r]
  BY Zenon, <1>1 DEF CommitSettle, Goto
<1>5. r \in Runs /\ r.pc = "top"
  BY Zenon, <1>1 DEF Runs, Pcs
<1>6. /\ run' \in [Owners -> Runs]
      /\ \A p \in Owners : run'[p] = run[p] \/ run'[p].pc = "top"
  BY Zenon, <1>1, <1>4, <1>5
<1> HIDE DEF c, r
<1>7. c[1] \in Tasks /\ c = << c[1], c[2] >>
  BY Zenon, <1>2, ClaimParts
<1>8. "Completed" \in Terminal /\ "Failed" \in Terminal
  BY Zenon DEF Terminal, Unsuccessful
<1>9. Settling
  BY Zenon, <1>3, <1>7, <1>8, SettledAsSettles
<1>10. ASSUME NEW u \in Tasks PROVE SettledOK(u)'
  <2>1. SettledOK(u)
    BY Zenon DEF RunnerInv
  <2>2. CASE u = c[1] /\ worker[c].outcome = "Completed"
    <3>1. settledBy'[u] = c[2]
      BY Zenon, <1>1, <1>3, <2>2 DEF SettledAs
    <3>2. << u, settledBy'[u] >> = c
      BY Zenon, <1>7, <2>2, <3>1
    <3>3. worker[c].workspace = "released"
      BY Zenon, <1>2, <2>2 DEF EndOK
    <3> QED BY Zenon, <1>2, <1>3, <3>2, <3>3 DEF SettledOK
  <2>3. CASE u # c[1] \/ worker[c].outcome # "Completed"
    <3>1. ASSUME status'[u] = "Completed"
          PROVE  status[u] = "Completed" /\ u # c[1]
      <4>1. CASE worker[c].outcome = "Completed"
        BY ZenonT(30), <1>3, <2>3, <3>1, <4>1 DEF SettledAs
      <4>2. CASE worker[c].outcome # "Completed"
        <5>1. SettledAs(c[1], "Failed", c[2], BlockedMutations({}, {c[1]}))
          BY Zenon, <1>3, <4>2
        <5>2. u # c[1]
          BY Zenon, <1>7, <3>1, <5>1 DEF SettledAs
        <5> QED BY Zenon, <3>1, <5>1, <5>2 DEF SettledAs
      <4> QED BY Zenon, <4>1, <4>2
    <3>2. ASSUME u # c[1] PROVE settledBy'[u] = settledBy[u]
      BY Zenon, <1>1, <1>3, <3>2 DEF SettledAs
    <3> QED BY Zenon, <1>3, <2>1, <3>1, <3>2, SettledKept
  <2> QED BY Zenon, <2>2, <2>3
<1>11. worker' \in [Claims -> Workers] /\ WorkersRest
  BY Zenon, <1>1, <1>3 DEF WorkersRest
<1> QED BY Zenon, <1>3, <1>6, <1>9, <1>10, <1>11, CommitStep

\* A send that is published or refused keeps the invariant.
LEMMA SendCommitStep ==
    ASSUME RunnerInv, LifecycleInv', NEW c \in Claims, NEW to \in Tasks, SendCommit(c, to)
    PROVE  RunnerInv'
<1> DEFINE w == [worker[c] EXCEPT !.sending = 0]
<1>1. worker \in [Claims -> Workers] /\ worker[c] \in Workers /\ run \in [Owners -> Runs]
  BY Zenon DEF RunnerInv, RunnerTypeOK
<1>2. /\ worker' = [worker EXCEPT ![c] = w] /\ now' = now /\ run' = run
      /\ \/ SendMessage(c[1], to) /\ Committed
         \/ UNCHANGED << vars, revision >>
  BY Zenon, <1>1 DEF SendCommit
<1>3. w \in Workers /\ w.phase = worker[c].phase /\ w.workspace = worker[c].workspace
  BY Zenon, <1>1 DEF Workers
<1>4. worker' \in [Claims -> Workers] /\ WorkersRest
  BY Zenon, <1>1, <1>2, <1>3 DEF WorkersRest
<1>5. status' = status /\ lease' = lease /\ attempts' = attempts /\ settledBy' = settledBy
  BY Zenon, <1>2 DEF SendMessage, vars
<1>6. Settling
  BY Zenon, <1>5 DEF Settling
<1>7. ASSUME NEW d \in Claims, worker[d].phase = "joined"
      PROVE  worker'[d].phase = "joined" /\ worker'[d].workspace = worker[d].workspace
  BY Zenon, <1>1, <1>2, <1>3, <1>7
<1>8. ASSUME NEW u \in Tasks PROVE SettledOK(u)'
  <2>1. SettledOK(u)
    BY Zenon DEF RunnerInv
  <2> QED BY Zenon, <1>5, <1>7, <2>1, SettledKept
<1> QED BY Zenon, <1>1, <1>2, <1>4, <1>6, <1>8, CommitStep

----------------------------------------------------------------------------
(* Steps of a worker and of the clock.                                      *)

Workspaces == {"none", "held", "released", "failed"}

\* A worker's own step keeps the invariant when it does not put off its end.
LEMMA BecomesStep ==
    ASSUME RunnerInv, NEW c \in Claims, NEW phase \in Active \cup {"ended"}, NEW due \in Nat,
           NEW outcome \in Outcomes, NEW workspace \in Workspaces,
           worker[c].phase \in Active, Becomes(c, phase, due, outcome, workspace),
           phase \in Active => now <= due /\ Latest(c)' <= Latest(c),
           EndOK(c)'
    PROVE  RunnerInv'
<1> DEFINE w == [worker[c] EXCEPT !.phase = phase, !.due = due, !.outcome = outcome,
                                  !.workspace = workspace]
<1>1. /\ worker \in [Claims -> Workers] /\ worker[c] \in Workers
      /\ RunnerTypeOK /\ ExclusiveExecution
  BY Zenon DEF RunnerInv, RunnerTypeOK
<1>2. /\ worker' = [worker EXCEPT ![c] = w] /\ vars' = vars
      /\ now' = now /\ revision' = revision /\ run' = run
  BY Zenon, <1>1 DEF Becomes
<1>a. phase \in Phases /\ phase # "none" /\ phase # "joined"
  BY Zenon DEF Phases, Active
<1>3. /\ w \in Workers /\ w.phase = phase /\ w.due = due /\ w.by = worker[c].by
      /\ w.sending = worker[c].sending
  BY Zenon, <1>1, <1>a DEF Workers, Workspaces
<1>4. worker'[c] = w /\ \A d \in Claims : d # c => worker'[d] = worker[d]
  BY Zenon, <1>1, <1>2
<1>5. worker' \in [Claims -> Workers]
  BY Zenon, <1>1, <1>2, <1>3
<1> HIDE DEF w
<1>6. status' = status /\ lease' = lease /\ attempts' = attempts /\ settledBy' = settledBy
  BY Zenon, <1>2 DEF vars
<1>7. LifecycleInv'
  BY Zenon, <1>2 DEF vars, RunnerInv, LifecycleInv, TasksTypeOK, DependenciesFirst,
     BlockedExactly, DepsCompleted
<1>8. RunnerTypeOK'
  BY Zenon, <1>1, <1>2, <1>5 DEF RunnerTypeOK
<1>b. worker[c].phase # "none" /\ worker[c].phase # "joined"
  BY Zenon DEF Active
<1>9. ASSUME NEW d \in Claims PROVE LiveOK(d)' /\ EndOK(d)' /\ SendOK(d)'
  <2>1. LiveOK(d) /\ EndOK(d) /\ SendOK(d)
    BY Zenon DEF RunnerInv
  <2>2. CASE d # c
    <3>1. worker'[d] = worker[d]
      BY Zenon, <1>4, <2>2
    <3> QED BY Zenon, <1>2, <1>6, <2>1, <3>1 DEF LiveOK, EndOK, SendOK, Leased, Latest
  <2>3. CASE d = c
    <3>1. SendOK(c)'
      BY Zenon, <1>2, <1>3, <1>4, <1>6, <1>a, <1>b, <2>1, <2>3 DEF SendOK, Leased
    <3>2. c[2] <= attempts'[c[1]]
      BY Zenon, <1>6, <1>b, <2>1, <2>3 DEF LiveOK
    <3>3. ASSUME phase \in Active
          PROVE  \/ status'[c[1]] \in Terminal
                 \/ Leased(c)' /\ Latest(c)' < lease'[c[1]].expires
      <4>1. CASE status[c[1]] \in Terminal
        BY Zenon, <1>6, <4>1
      <4>2. CASE Leased(c) /\ Latest(c) < lease[c[1]].expires
        <5>1. Leased(c)' /\ Latest(c)' <= Latest(c)
          BY Zenon, <1>6, <3>3, <4>2 DEF Leased
        <5>2. Latest(c) \in Int /\ Latest(c)' \in Int
          BY <1>1, <1>8, Typed, RunnerAssumption, <1>3, <1>4 DEF Latest
        <5>3. lease[c[1]].expires \in Int
          BY ClaimParts, GraphAssumption DEF RunnerInv, LifecycleInv, TasksTypeOK, Leases, NoLease
        <5>4. Latest(c)' < lease[c[1]].expires
          BY <4>2, <5>1, <5>2, <5>3
        <5> QED BY Zenon, <1>6, <5>1, <5>4
      <4> QED BY Zenon, <2>1, <2>3, <4>1, <4>2 DEF LiveOK
    <3>4. worker'[c].phase = phase /\ worker'[c].due = due
      BY Zenon, <1>3, <1>4
    <3>5. LiveOK(c)'
      BY Zenon, <1>2, <3>2, <3>3, <3>4 DEF LiveOK
    <3> QED BY Zenon, <2>3, <3>1, <3>5
  <2> QED BY Zenon, <2>2, <2>3
<1>10. ASSUME NEW t \in Tasks PROVE SettledOK(t)'
  <2>1. SettledOK(t)
    BY Zenon DEF RunnerInv
  <2> QED BY Zenon, <1>4, <1>6, <1>b, <2>1, SettledKept
<1>11. ExclusiveExecution'
  <2>1. \A d \in Claims : worker'[d].phase \in Active => worker[d].phase \in Active
    BY Zenon, <1>4
  <2> QED BY Zenon, <1>1, <2>1, ExclusiveKept
<1>12. ASSUME NEW p \in Owners PROVE RunOK(p)'
  <2>1. RunOK(p) /\ run'[p] = run[p]
    BY Zenon, <1>2 DEF RunnerInv
  <2>2. Available(p)' = Available(p)
    BY Zenon, <1>3, <1>4, RoomKept
  <2> QED BY Zenon, <1>2, <1>4, <1>b, <2>1, <2>2, RunKept
<1> QED BY Zenon, <1>7, <1>8, <1>9, <1>10, <1>11, <1>12 DEF RunnerInv

\* The worker after its step.
Became(c, phase, due, outcome, workspace) ==
    /\ worker'[c].phase = phase /\ worker'[c].due = due
    /\ worker'[c].outcome = outcome /\ worker'[c].workspace = workspace

\* What a worker's step shows of the worker.
LEMMA BecomesFields ==
    ASSUME RunnerTypeOK, NEW c \in Claims, NEW phase, NEW due, NEW outcome, NEW workspace,
           Becomes(c, phase, due, outcome, workspace)
    PROVE  Became(c, phase, due, outcome, workspace)
<1>1. worker \in [Claims -> Workers] /\ worker[c] \in Workers
  BY Zenon DEF RunnerTypeOK
<1>2. worker'[c] = [worker[c] EXCEPT !.phase = phase, !.due = due, !.outcome = outcome,
                                     !.workspace = workspace]
  BY Zenon, <1>1 DEF Becomes
<1> QED BY Zenon, <1>1, <1>2 DEF Workers, Became

\* Every step of execute_claim keeps the invariant: it never puts off the moment at which
\* the worker's cleanup is over, and never ends in success without a release.
LEMMA WorkerSteps ==
    ASSUME RunnerInv, NEW c \in Claims, WorkerStep(c)
    PROVE  RunnerInv'
<1>1. /\ RunnerTypeOK /\ LiveOK(c) /\ EndOK(c)
      /\ worker[c].due \in Nat /\ worker[c].outcome \in Outcomes /\ now \in Nat
  BY Zenon, Typed DEF RunnerInv
<1>2. /\ ReleaseTimeout \in Nat /\ PreparationDrainGrace \in Nat
      /\ now + ReleaseTimeout \in Nat /\ now + PreparationDrainGrace \in Nat
  BY <1>1, RunnerAssumption
<1>3. ASSUME worker[c].phase \in Active PROVE now <= worker[c].due
  BY Zenon, <1>1, <1>3 DEF LiveOK
<1>4. /\ "Failed" \in Outcomes /\ "Completed" \in Outcomes
      /\ Interrupted(c) \in Outcomes /\ Interrupted(c) # "Completed"
      /\ MergedOutcome(worker[c].outcome) \in Outcomes
      /\ MergedOutcome(worker[c].outcome) # "Completed"
  BY Zenon, <1>1 DEF Outcomes, Interrupted, MergedOutcome
<1>5. /\ \A p \in {"preparing", "draining", "executing", "releasing"} : p \in Active
      /\ "ended" \notin Active
      /\ \A w \in {"none", "held", "released", "failed"} : w \in Workspaces
  BY Zenon DEF Active, Workspaces
\* Each of the steps has one of five shapes.
<1>6. ASSUME worker[c].phase = "preparing", Becomes(c, "executing", worker[c].due, "Failed", "held")
      PROVE  RunnerInv'
  <2>1. /\ worker'[c].phase = "executing" /\ worker'[c].due = worker[c].due
    <3>1. Became(c, "executing", worker[c].due, "Failed", "held")
      BY Zenon, <1>1, <1>6, BecomesFields
    <3> QED BY Zenon, <3>1 DEF Became
  <2>2. Latest(c)' <= Latest(c)
    BY <1>1, <1>2, <1>6, <2>1 DEF Latest
  <2>3. EndOK(c)'
    BY <2>1 DEF EndOK
  <2> QED BY Zenon, <1>1, <1>3, <1>4, <1>5, <1>6, <2>2, <2>3, BecomesStep
<1>7. ASSUME worker[c].phase \in Active \ {"releasing"}, NEW outcome \in Outcomes,
             Becomes(c, "releasing", now + ReleaseTimeout, outcome, "held")
      PROVE  RunnerInv'
  <2>1. /\ worker'[c].phase = "releasing" /\ worker'[c].due = now + ReleaseTimeout
    <3>1. Became(c, "releasing", now + ReleaseTimeout, outcome, "held")
      BY Zenon, <1>1, <1>7, BecomesFields
    <3> QED BY Zenon, <3>1 DEF Became
  <2>2. Latest(c)' = now + ReleaseTimeout
    BY <1>2, <2>1 DEF Latest
  <2>3. Latest(c) >= worker[c].due + ReleaseTimeout
    BY <1>1, <1>2, <1>7 DEF Latest
  <2>4. Latest(c) \in Int
    BY <1>1, <1>2 DEF Latest
  <2>5. Latest(c)' <= Latest(c) /\ now <= now + ReleaseTimeout
    BY <1>1, <1>2, <1>3, <1>7, <2>2, <2>3, <2>4
  <2>6. EndOK(c)'
    BY Zenon, <2>1 DEF EndOK
  <2>7. worker[c].phase \in Active
    BY Zenon, <1>7
  <2> QED BY Zenon, <1>2, <1>5, <1>7, <2>5, <2>6, <2>7, BecomesStep
<1>8. ASSUME worker[c].phase = "preparing",
             Becomes(c, "draining", now + PreparationDrainGrace, Interrupted(c), "none")
      PROVE  RunnerInv'
  <2>1. /\ worker'[c].phase = "draining" /\ worker'[c].due = now + PreparationDrainGrace
        /\ worker'[c].outcome = Interrupted(c)
    <3>1. Became(c, "draining", now + PreparationDrainGrace, Interrupted(c), "none")
      BY Zenon, <1>1, <1>8, BecomesFields
    <3> QED BY Zenon, <3>1 DEF Became
  <2>2. now <= worker[c].due
    BY Zenon, <1>3, <1>5, <1>8
  <2>3. Latest(c)' <= Latest(c) /\ now <= now + PreparationDrainGrace
    BY <1>1, <1>2, <1>8, <2>1, <2>2 DEF Latest
  <2>4. EndOK(c)'
    BY Zenon, <1>4, <2>1 DEF EndOK
  <2> QED BY Zenon, <1>2, <1>4, <1>5, <1>8, <2>3, <2>4, BecomesStep
<1>9. ASSUME worker[c].phase \in Active, NEW outcome \in Outcomes, NEW workspace \in Workspaces,
             outcome = "Completed" => workspace = "released",
             Becomes(c, "ended", 0, outcome, workspace)
      PROVE  RunnerInv'
  <2>1. /\ worker'[c].phase = "ended" /\ worker'[c].outcome = outcome
        /\ worker'[c].workspace = workspace
    <3>1. Became(c, "ended", 0, outcome, workspace)
      BY Zenon, <1>1, <1>9, BecomesFields
    <3> QED BY Zenon, <3>1 DEF Became
  <2>2. EndOK(c)'
    BY Zenon, <1>9, <2>1 DEF EndOK
  <2>3. 0 \in Nat
    BY Zenon
  <2> QED BY Zenon, <1>5, <1>9, <2>2, <2>3, BecomesStep
<1>10. CASE Prepared(c)
  <2>1. /\ worker[c].phase = "preparing" /\ worker[c].phase \in Active
        /\ worker[c].phase \in Active \ {"releasing"}
    BY Zenon, <1>10, <1>5 DEF Prepared
  <2> QED BY Zenon, <1>4, <1>5, <1>6, <1>7, <1>9, <1>10, <2>1 DEF Prepared
<1>11. CASE PreparationInterrupted(c)
  BY Zenon, <1>8, <1>11 DEF PreparationInterrupted
<1>12. CASE PreparationDrained(c)
  <2>1. /\ worker[c].phase = "draining" /\ worker[c].phase \in Active
        /\ worker[c].phase \in Active \ {"releasing"} /\ worker[c].outcome # "Completed"
    BY Zenon, <1>1, <1>12, <1>5 DEF PreparationDrained, EndOK
  <2> QED BY Zenon, <1>1, <1>5, <1>7, <1>9, <1>12, <2>1 DEF PreparationDrained
<1>13. CASE Executed(c)
  <2>1. worker[c].phase \in Active \ {"releasing"}
    BY Zenon, <1>13, <1>5 DEF Executed
  <2>2. PICK outcome \in IF Waiting(c) THEN {"Completed", "Failed"} ELSE {Interrupted(c)} :
           Becomes(c, "releasing", now + ReleaseTimeout, outcome, "held")
    BY Zenon, <1>13 DEF Executed
  <2>3. outcome \in Outcomes
    BY Zenon, <1>4, <2>2
  <2> QED BY Zenon, <1>7, <2>1, <2>2, <2>3
<1>14. CASE Released(c)
  <2>1. worker[c].phase \in Active
    BY Zenon, <1>14, <1>5 DEF Released
  <2> QED BY Zenon, <1>1, <1>4, <1>5, <1>9, <1>14, <2>1 DEF Released
<1> QED BY Zenon, <1>10, <1>11, <1>12, <1>13, <1>14 DEF WorkerStep

\* A send loads the graph only while the worker's lease is current.
LEMMA SendLoadStep ==
    ASSUME RunnerInv, NEW c \in Claims, SendLoad(c)
    PROVE  RunnerInv'
<1> DEFINE w == [worker[c] EXCEPT !.sending = revision]
<1>1. /\ worker \in [Claims -> Workers] /\ worker[c] \in Workers /\ RunnerTypeOK
      /\ ExclusiveExecution /\ revision \in Nat
  BY Zenon DEF RunnerInv, RunnerTypeOK
<1>2. /\ worker' = [worker EXCEPT ![c] = w] /\ vars' = vars
      /\ now' = now /\ revision' = revision /\ run' = run
      /\ worker[c].phase = "executing" /\ ClaimIsCurrent(c, now)
  BY Zenon, <1>1 DEF SendLoad
<1>3. /\ w \in Workers /\ w.sending = revision /\ w.phase = worker[c].phase
      /\ w.by = worker[c].by /\ w.due = worker[c].due /\ w.outcome = worker[c].outcome
      /\ w.workspace = worker[c].workspace
  BY Zenon, <1>1 DEF Workers
<1>4. worker'[c] = w /\ \A d \in Claims : d # c => worker'[d] = worker[d]
  BY Zenon, <1>1, <1>2
<1>5. worker' \in [Claims -> Workers]
  BY Zenon, <1>1, <1>2, <1>3
<1> HIDE DEF w
<1>6. \A d \in Claims : Calmed(d) /\ worker'[d].phase = worker[d].phase
  BY Zenon, <1>3, <1>4 DEF Calmed
<1>7. status' = status /\ lease' = lease /\ attempts' = attempts /\ settledBy' = settledBy
  BY Zenon, <1>2 DEF vars
<1>8. LifecycleInv'
  BY Zenon, <1>2 DEF vars, RunnerInv, LifecycleInv, TasksTypeOK, DependenciesFirst,
     BlockedExactly, DepsCompleted
<1>9. RunnerTypeOK' /\ Settling
  BY Zenon, <1>1, <1>2, <1>5, <1>7 DEF RunnerTypeOK, Settling
<1>10. ASSUME NEW d \in Claims PROVE LiveOK(d)' /\ EndOK(d)'
  <2>1. LiveOK(d) /\ EndOK(d) /\ Calmed(d)
    BY Zenon, <1>6 DEF RunnerInv
  <2> QED BY Zenon, <1>1, <1>2, <1>9, <2>1, LiveKept, EndKept
<1>11. ASSUME NEW d \in Claims PROVE SendOK(d)'
  <2>1. CASE d # c
    <3>1. SendOK(d) /\ worker'[d] = worker[d]
      BY Zenon, <1>4, <2>1 DEF RunnerInv
    <3> QED BY Zenon, <1>2, <1>7, <3>1 DEF SendOK, Leased
  <2>2. CASE d = c
    <3>1. Leased(c)'
      BY Zenon, <1>2, <1>7 DEF Leased, ClaimIsCurrent, CurrentLease
    <3>2. worker'[c].sending <= revision' /\ worker'[c].phase # "none"
      BY <1>1, <1>2, <1>3, <1>4
    <3> QED BY Zenon, <2>2, <3>1, <3>2 DEF SendOK
  <2> QED BY Zenon, <2>1, <2>2
<1>12. ASSUME NEW t \in Tasks PROVE SettledOK(t)'
  <2>1. SettledOK(t)
    BY Zenon DEF RunnerInv
  <2>2. \A d \in Claims : worker'[d].phase = worker[d].phase
                          /\ worker'[d].workspace = worker[d].workspace
    BY Zenon, <1>6 DEF Calmed
  <2> QED BY Zenon, <1>7, <2>1, <2>2, SettledKept
<1>13. ExclusiveExecution'
  BY Zenon, <1>1, <1>6, ExclusiveKept
<1>14. ASSUME NEW p \in Owners PROVE RunOK(p)'
  <2>1. RunOK(p) /\ run'[p] = run[p]
    BY Zenon, <1>2 DEF RunnerInv
  <2>2. Available(p)' = Available(p)
    BY Zenon, <1>3, <1>4, RoomKept
  <2> QED BY Zenon, <1>2, <1>6, <2>1, <2>2, RunKept
<1> QED BY Zenon, <1>8, <1>9, <1>10, <1>11, <1>12, <1>13, <1>14 DEF RunnerInv

\* Time passes only while no timer is due.
LEMMA TickStep ==
    ASSUME RunnerInv, Tick
    PROVE  RunnerInv'
<1>1. /\ RunnerTypeOK /\ now' = now + 1 /\ now' \in Times /\ now \in Nat
      /\ vars' = vars /\ revision' = revision /\ run' = run /\ worker' = worker
  BY Typed, GraphAssumption DEF RunnerInv, Tick, Times
<1>2. status' = status /\ lease' = lease /\ attempts' = attempts /\ settledBy' = settledBy
  BY Zenon, <1>1 DEF vars
<1>3. LifecycleInv'
  BY Zenon, <1>1 DEF vars, RunnerInv, LifecycleInv, TasksTypeOK, DependenciesFirst,
     BlockedExactly, DepsCompleted
<1>4. RunnerTypeOK'
  BY Zenon, <1>1 DEF RunnerTypeOK
<1>5. ASSUME NEW c \in Claims PROVE LiveOK(c)'
  <2>1. LiveOK(c) /\ worker[c].due \in Nat
    BY Zenon, <1>1, Typed DEF RunnerInv
  <2>2. worker[c].phase \in Active => now < worker[c].due
    BY Zenon DEF Tick
  <2>3. worker[c].phase \in Active => now + 1 <= worker[c].due
    BY <1>1, <2>1, <2>2
  <2>4. Leased(c)' = Leased(c) /\ Latest(c)' = Latest(c)
    BY Zenon, <1>1, <1>2 DEF Leased, Latest
  <2> QED BY Zenon, <1>1, <1>2, <2>1, <2>3, <2>4 DEF LiveOK
<1>6. ASSUME NEW c \in Claims PROVE EndOK(c)' /\ SendOK(c)'
  BY Zenon, <1>1, <1>2 DEF RunnerInv, EndOK, SendOK, Leased
<1>7. ASSUME NEW t \in Tasks PROVE SettledOK(t)'
  BY Zenon, <1>1, <1>2 DEF RunnerInv, SettledOK
<1>8. ExclusiveExecution'
  BY Zenon, <1>1 DEF RunnerInv, ExclusiveExecution
<1>9. ASSUME NEW p \in Owners PROVE RunOK(p)'
  <2>1. RunOK(p) /\ run[p].at \in Nat /\ CommitLatency \in Nat
    BY Zenon, <1>1, Typed, RunnerAssumption DEF RunnerInv
  <2>2. run[p].pc = "claimCAS" => now < run[p].at + CommitLatency
    BY Zenon DEF Tick
  <2>3. Available(p)' = Available(p)
    BY Zenon, <1>1 DEF Available, Held
  <2> QED BY <1>1, <2>1, <2>2, <2>3 DEF RunOK
<1> QED BY Zenon, <1>3, <1>4, <1>5, <1>6, <1>7, <1>8, <1>9 DEF RunnerInv

----------------------------------------------------------------------------
(* The commit of a claim.                                                   *)

\* The state of a worker that execute_claim has just started.
NewWorker(o) == [NoWorker EXCEPT !.by = o, !.phase = "preparing", !.due = now + TaskTimeout]

\* The Tasks whose leases a claim issues or releases.
Moved(o) == SelectedFor(o, run[o].at) \cup Expired(run[o].at)

\* What claim_available commits: it issues the next attempt of waiting or expired Tasks,
\* and touches no Task that has settled or whose lease has not expired.
LEMMA ClaimFacts ==
    ASSUME RunnerInv, NEW o \in Owners, CommitClaim(o)
    PROVE  LET at == run[o].at
               selected == SelectedFor(o, at)
           IN  /\ selected \subseteq Tasks
               /\ \A t \in selected : /\ attempts[t] + 1 \in 1 .. MaxAttempts
                                      /\ status'[t] = "Running"
                                      /\ lease'[t].attempt = attempts[t] + 1
                                      /\ lease'[t].expires = at + LeaseDuration
                                      /\ attempts'[t] = attempts[t] + 1
               /\ \A t \in Tasks \ selected : attempts'[t] = attempts[t]
               /\ \A t \in Tasks \ Moved(o) : status'[t] = status[t] /\ lease'[t] = lease[t]
               /\ \A t \in Moved(o) :
                     status[t] = "Pending" \/ (status[t] = "Running" /\ lease[t].expires <= at)
               /\ \A t \in Tasks : status'[t] = "Completed" => status[t] = "Completed"
               /\ settledBy' = settledBy
<1> DEFINE at == run[o].at
           caps == WorkerCapabilities[o]
           ready == Ready(at, {}, caps)
           selected == Selected(ready, Available(o))
           released == Expired(at) \ selected
<1>1. LifecycleInv /\ RunnerTypeOK /\ RunOK(o) /\ run[o].pc = "claimCAS"
  BY Zenon DEF RunnerInv, CommitClaim
<1>2. at \in Times
  BY <1>1, Typed, GraphAssumption DEF RunnerTypeOK, RunOK, Times
<1>3. BlockedMutations(Expired(at), {}) = {}
  BY Zenon, <1>1, <1>2, ClaimBlocksNothing
<1>4. SelectedFor(o, at) = selected
  BY Zenon, <1>3 DEF SelectedFor, ReadyFor
<1>5. /\ AttemptsLeft(ready)
      /\ status' = [t \in Tasks |-> IF t \in selected THEN "Running"
                                    ELSE IF t \in released THEN "Pending" ELSE status[t]]
      /\ lease' = [t \in Tasks |->
                     IF t \in selected
                     THEN [owner |-> o, attempt |-> attempts[t] + 1,
                           expires |-> at + LeaseDuration]
                     ELSE IF t \in released THEN NoLease ELSE lease[t]]
      /\ attempts' = [t \in Tasks |-> IF t \in selected THEN attempts[t] + 1
                                      ELSE attempts[t]]
      /\ settledBy' = settledBy
  <2>1. ClaimReady(o, at, LeaseDuration, Available(o), Governed[o], caps)
    BY Zenon DEF CommitClaim
  <2> QED BY Zenon, <1>3, <2>1 DEF ClaimReady
<1>6. selected \subseteq ready /\ ready \subseteq Tasks /\ Expired(at) \subseteq Tasks
  BY Zenon DEF Selected, Ready, Expired
<1>7. \A t \in selected : status[t] = "Pending" \/ t \in Expired(at)
  BY Zenon DEF Selected, Ready
<1>8. \A t \in Expired(at) : status[t] = "Running" /\ lease[t].expires <= at
  BY Zenon DEF Expired
<1>9. \A t \in selected : attempts[t] \in Nat /\ attempts[t] < MaxAttempts
  BY <1>1, <1>5, <1>6 DEF LifecycleInv, TasksTypeOK, AttemptsLeft
<1> HIDE DEF ready, selected, caps
<1>10. Moved(o) = selected \cup Expired(at)
  BY Zenon, <1>4 DEF Moved
<1>11. ASSUME NEW t \in selected
       PROVE  /\ attempts[t] + 1 \in 1 .. MaxAttempts /\ status'[t] = "Running"
              /\ lease'[t].attempt = attempts[t] + 1
              /\ lease'[t].expires = at + LeaseDuration
              /\ attempts'[t] = attempts[t] + 1
  <2>1. attempts[t] + 1 \in 1 .. MaxAttempts
    BY <1>9, GraphAssumption
  <2>2. t \in Tasks
    BY Zenon, <1>6
  <2>3. lease'[t] = [owner |-> o, attempt |-> attempts[t] + 1, expires |-> at + LeaseDuration]
    BY Zenon, <1>5, <2>2
  <2> QED BY Zenon, <1>5, <2>1, <2>2, <2>3
<1>12. ASSUME NEW t \in Tasks \ (selected \cup Expired(at))
       PROVE  status'[t] = status[t] /\ lease'[t] = lease[t]
  BY Zenon, <1>5
<1>13. ASSUME NEW t \in Tasks \ selected PROVE attempts'[t] = attempts[t]
  BY Zenon, <1>5
<1>14. ASSUME NEW t \in Tasks, status'[t] = "Completed" PROVE status[t] = "Completed"
  <2>1. t \notin selected /\ t \notin released
    BY Zenon, <1>5, <1>14
  <2> QED BY Zenon, <1>5, <1>14, <2>1
<1> QED BY Zenon, <1>4, <1>5, <1>6, <1>7, <1>8, <1>10, <1>11, <1>12, <1>13, <1>14

\* The workers a claim spawns are those of the attempts it issues, which had none.
LEMMA SpawnFacts ==
    ASSUME RunnerInv, NEW o \in Owners, CommitClaim(o)
    PROVE  LET selected == SelectedFor(o, run[o].at)
           IN  \A c \in Claims :
                  \/ /\ c[1] \in selected /\ c[2] = attempts[c[1]] + 1
                     /\ worker[c].phase = "none" /\ worker'[c] = NewWorker(o)
                  \/ /\ ~(c[1] \in selected /\ c[2] = attempts[c[1]] + 1)
                     /\ worker'[c] = worker[c]
<1> DEFINE selected == SelectedFor(o, run[o].at)
           claims == {<< t, attempts[t] + 1 >> : t \in selected}
<1>1. Spawned(o, claims)
  BY Zenon DEF CommitClaim
<1>2. ASSUME NEW c \in Claims
      PROVE  c \in claims <=> c[1] \in selected /\ c[2] = attempts[c[1]] + 1
  <2>1. c = << c[1], c[2] >>
    BY Zenon, ClaimParts
  <2> HIDE DEF selected
  <2> QED BY <2>1
<1> HIDE DEF claims
<1>3. ASSUME NEW c \in Claims
      PROVE  worker'[c] = IF c \in claims THEN NewWorker(o) ELSE worker[c]
  BY Zenon, <1>1 DEF Spawned, NewWorker
<1>4. ASSUME NEW c \in Claims, c[2] = attempts[c[1]] + 1 PROVE worker[c].phase = "none"
  <2>1. LiveOK(c) /\ c[1] \in Tasks
    BY Zenon, ClaimParts DEF RunnerInv
  <2>2. attempts[c[1]] \in Nat
    BY <2>1, GraphAssumption DEF RunnerInv, LifecycleInv, TasksTypeOK
  <2> QED BY <1>4, <2>1, <2>2 DEF LiveOK
<1> HIDE DEF selected
<1>5. ASSUME NEW c \in Claims
      PROVE  \/ /\ c[1] \in selected /\ c[2] = attempts[c[1]] + 1
                /\ worker[c].phase = "none" /\ worker'[c] = NewWorker(o)
             \/ /\ ~(c[1] \in selected /\ c[2] = attempts[c[1]] + 1)
                /\ worker'[c] = worker[c]
  BY Zenon, <1>2, <1>3, <1>4
<1> QED BY Zenon, <1>5 DEF selected

\* A Task that a worker executes is not claimed: its lease outlives the worker.
LEMMA ActiveNotMoved ==
    ASSUME RunnerInv, NEW o \in Owners, CommitClaim(o), NEW c \in Claims,
           worker[c].phase \in Active
    PROVE  c[1] \notin Moved(o)
<1>1. /\ RunnerTypeOK /\ LiveOK(c) /\ RunOK(o) /\ run[o].pc = "claimCAS" /\ c[1] \in Tasks
      /\ worker[c].due \in Nat /\ run[o].at \in Nat /\ now \in Nat
  BY Zenon, Typed, ClaimParts DEF RunnerInv, CommitClaim
<1>2. run[o].at <= now /\ now <= worker[c].due
  BY Zenon, <1>1 DEF RunOK, LiveOK
<1>3. c[1] \in Moved(o) =>
         status[c[1]] = "Pending" \/ (status[c[1]] = "Running" /\ lease[c[1]].expires <= run[o].at)
  BY Zenon, ClaimFacts
<1>4. CASE status[c[1]] \in Terminal
  BY Zenon, <1>3, <1>4 DEF Terminal, Unsuccessful
<1>5. CASE Leased(c) /\ Latest(c) < lease[c[1]].expires
  <2>1. worker[c].due <= Latest(c) /\ Latest(c) \in Int
    BY <1>1, RunnerAssumption DEF Latest
  <2>2. lease[c[1]].expires \in Int
    BY <1>1, GraphAssumption DEF RunnerInv, LifecycleInv, TasksTypeOK, Leases, NoLease
  <2>3. ~(lease[c[1]].expires <= run[o].at)
    BY <1>1, <1>2, <1>5, <2>1, <2>2
  <2>4. status[c[1]] = "Running"
    BY Zenon, <1>5 DEF Leased
  <2> QED BY Zenon, <1>3, <2>3, <2>4
<1> QED BY Zenon, <1>1, <1>4, <1>5 DEF LiveOK

\* The commit of a claim keeps the invariant: a new worker ends before its lease, since
\* the claim was committed within the slack that with_timing leaves, and it starts where
\* no other worker is active.
LEMMA CommitClaimStep ==
    ASSUME RunnerInv, LifecycleInv', NEW o \in Owners, CommitClaim(o)
    PROVE  RunnerInv'
<1> DEFINE at == run[o].at
           selected == SelectedFor(o, at)
           New(c) == c[1] \in selected /\ c[2] = attempts[c[1]] + 1
           w == NewWorker(o)
           r == [run[o] EXCEPT !.pc = "select", !.tries = 0]
<1>1. /\ RunnerTypeOK /\ ExclusiveExecution /\ RunOK(o) /\ LifecycleInv
      /\ run[o] \in Runs /\ run \in [Owners -> Runs] /\ worker \in [Claims -> Workers]
      /\ run[o].pc = "claimCAS"
      /\ Committed /\ now' = now /\ Goto(o, "select")
  BY Zenon DEF RunnerInv, RunnerTypeOK, CommitClaim
<1>2. /\ now \in Nat /\ revision \in Nat /\ at \in Nat /\ now <= at + CommitLatency
      /\ TaskTimeout \in Nat /\ CommitLatency \in Nat /\ PreparationDrainGrace \in Nat
      /\ ReleaseTimeout \in Nat /\ CleanupBudget \in Nat /\ LeaseDuration \in Nat
      /\ now + TaskTimeout \in Nat /\ revision' \in Nat /\ revision' = revision + 1
  BY <1>1, Typed, RunnerAssumption DEF RunOK, Committed
<1>3. /\ w \in Workers /\ w.by = o /\ w.phase = "preparing" /\ w.due = now + TaskTimeout
      /\ w.sending = 0 /\ w.outcome = "Failed"
  BY Zenon, <1>2 DEF NewWorker, NoWorker, Workers, Phases, Active, Outcomes
<1>4. ASSUME NEW c \in Claims
      PROVE  \/ New(c) /\ worker[c].phase = "none" /\ worker'[c] = w
             \/ ~New(c) /\ worker'[c] = worker[c]
  BY Zenon, SpawnFacts
<1>5. /\ selected \subseteq Tasks
      /\ \A t \in selected : /\ status'[t] = "Running"
                             /\ lease'[t].attempt = attempts[t] + 1
                             /\ lease'[t].expires = at + LeaseDuration
                             /\ attempts'[t] = attempts[t] + 1
      /\ \A t \in Tasks \ selected : attempts'[t] = attempts[t]
      /\ \A t \in Tasks \ Moved(o) : status'[t] = status[t] /\ lease'[t] = lease[t]
      /\ selected \subseteq Moved(o)
      /\ \A t \in Tasks : status'[t] = "Completed" => status[t] = "Completed"
      /\ settledBy' = settledBy
  BY ZenonT(30), ClaimFacts DEF Moved
<1>6. run' = [run EXCEPT ![o] = r]
  BY Zenon, <1>1 DEF Goto
<1>7. r \in Runs /\ r.pc = "select"
  BY Zenon, <1>1 DEF Runs, Pcs
<1>8. run' \in [Owners -> Runs] /\ run'[o].pc = "select" /\ \A p \in Owners \ {o} : run'[p] = run[p]
  BY Zenon, <1>1, <1>6, <1>7
<1> HIDE DEF selected, New, w, r
<1>9. worker' \in [Claims -> Workers]
  <2>1. ASSUME NEW c \in Claims PROVE worker'[c] \in Workers
    BY Zenon, <1>1, <1>3, <1>4
  <2>2. worker' = [c \in Claims |-> worker'[c]]
    BY Zenon DEF CommitClaim, Spawned
  <2> QED BY Zenon, <2>1, <2>2
<1>10. RunnerTypeOK'
  BY Zenon, <1>1, <1>2, <1>8, <1>9 DEF RunnerTypeOK
<1>11. ASSUME NEW c \in Claims, worker[c].phase = "joined"
       PROVE  worker'[c].phase = "joined" /\ worker'[c].workspace = worker[c].workspace
  BY Zenon, <1>4, <1>11
<1>12. ASSUME NEW c \in Claims, New(c), worker'[c] = w PROVE LiveOK(c)'
  <2>1. /\ c[1] \in selected /\ c[2] = attempts[c[1]] + 1
    BY Zenon, <1>12 DEF New
  <2>2. /\ status'[c[1]] = "Running" /\ lease'[c[1]].attempt = c[2]
        /\ lease'[c[1]].expires = at + LeaseDuration /\ attempts'[c[1]] = c[2]
    BY Zenon, <1>5, <2>1
  <2>3. Leased(c)'
    BY Zenon, <2>2 DEF Leased
  <2>4. c[2] \in Nat
    BY Zenon, ClaimParts
  <2>5. Latest(c)' = now + TaskTimeout + (PreparationDrainGrace + ReleaseTimeout)
    BY Zenon, <1>3, <1>12 DEF Latest
  <2>6. Latest(c)' < at + LeaseDuration
    BY <1>2, <2>5, TimingAssumption, LatencyAssumption
  <2>7. c[2] <= attempts'[c[1]] /\ now' <= worker'[c].due
    BY <1>1, <1>2, <1>3, <1>12, <2>2, <2>4
  <2> QED BY Zenon, <2>2, <2>3, <2>6, <2>7 DEF LiveOK
<1>13. ASSUME NEW c \in Claims, worker'[c] = worker[c] PROVE LiveOK(c)'
  <2>1. LiveOK(c) /\ c[1] \in Tasks /\ c[2] \in Nat
    BY Zenon, ClaimParts DEF RunnerInv
  <2>2. attempts[c[1]] \in Nat
    <3>1. attempts[c[1]] \in 0 .. MaxAttempts
      BY Zenon, <1>1, <2>1 DEF LifecycleInv, TasksTypeOK
    <3> QED BY <3>1
  <2>3. worker[c].phase # "none" => c[2] <= attempts'[c[1]]
    <3>1. attempts'[c[1]] \in {attempts[c[1]], attempts[c[1]] + 1}
      BY Zenon, <1>5, <2>1
    <3>2. ASSUME NEW m \in Nat, NEW i \in Nat, NEW j \in {i, i + 1}, m <= i PROVE m <= j
      BY <3>2
    <3> QED BY Zenon, <2>1, <2>2, <3>1, <3>2 DEF LiveOK
  <2>4. ASSUME worker[c].phase \in Active
        PROVE  /\ now <= worker[c].due
               /\ status'[c[1]] = status[c[1]] /\ lease'[c[1]] = lease[c[1]]
    BY Zenon, <1>5, <2>1, <2>4, ActiveNotMoved DEF LiveOK
  <2>5. Latest(c)' = Latest(c)
    BY Zenon, <1>13 DEF Latest
  <2>6. ASSUME worker[c].phase \in Active
        PROVE  \/ status'[c[1]] \in Terminal
               \/ Leased(c)' /\ Latest(c)' < lease'[c[1]].expires
    BY Zenon, <2>1, <2>4, <2>5, <2>6 DEF LiveOK, Leased
  <2> QED BY Zenon, <1>1, <1>13, <2>3, <2>4, <2>6 DEF LiveOK
<1>14. ASSUME NEW c \in Claims PROVE LiveOK(c)'
  BY Zenon, <1>4, <1>12, <1>13
<1>15. ASSUME NEW c \in Claims PROVE EndOK(c)' /\ SendOK(c)'
  <2>1. EndOK(c) /\ SendOK(c) /\ worker[c].sending \in Nat
    BY Zenon, <1>1, Typed DEF RunnerInv
  <2>2. CASE worker'[c] = w
    BY Zenon, <1>3, <2>2 DEF EndOK, SendOK
  <2>3. CASE worker'[c] = worker[c]
    <3>1. EndOK(c)'
      BY Zenon, <2>1, <2>3 DEF EndOK
    <3>2. worker[c].sending <= revision =>
             worker[c].sending # revision' /\ worker[c].sending <= revision'
      BY <1>2, <2>1
    <3>3. SendOK(c)'
      BY Zenon, <2>1, <2>3, <3>2 DEF SendOK
    <3> QED BY Zenon, <3>1, <3>3
  <2> QED BY Zenon, <1>4, <2>2, <2>3
<1>16. ASSUME NEW t \in Tasks PROVE SettledOK(t)'
  <2>1. SettledOK(t)
    BY Zenon DEF RunnerInv
  <2> QED BY Zenon, <1>5, <1>11, <2>1, SettledKept
<1>17. ExclusiveExecution'
  <2> SUFFICES ASSUME NEW c \in Claims, NEW d \in Claims, c[1] = d[1], c # d,
                      worker'[c].phase \in Active, worker'[d].phase \in Active
               PROVE  FALSE
    BY Zenon DEF ExclusiveExecution
  <2>1. ASSUME NEW x \in Claims, NEW y \in Claims, x[1] = y[1], New(x), ~New(y),
               worker'[y] = worker[y], worker'[y].phase \in Active
        PROVE  FALSE
    <3>1. y[1] \in Moved(o)
      BY Zenon, <1>5, <2>1 DEF New
    <3> QED BY Zenon, <2>1, <3>1, ActiveNotMoved
  <2>2. CASE New(c) /\ New(d)
    BY Zenon, <2>2, ClaimParts DEF New
  <2>3. CASE ~New(c) /\ ~New(d)
    BY Zenon, <1>1, <1>4, <2>3 DEF ExclusiveExecution
  <2>4. CASE New(c) /\ ~New(d)
    BY Zenon, <1>4, <2>1, <2>4
  <2>5. CASE ~New(c) /\ New(d)
    <3>1. worker'[c] = worker[c] /\ d[1] = c[1]
      BY Zenon, <1>4, <2>5
    <3> QED BY Zenon, <2>1, <2>5, <3>1
  <2> QED BY Zenon, <2>2, <2>3, <2>4, <2>5
<1>18. ASSUME NEW p \in Owners PROVE RunOK(p)'
  <2>1. CASE p = o
    BY Zenon, <1>8, <2>1, Forgets
  <2>2. CASE p # o
    <3>1. RunOK(p) /\ run'[p] = run[p]
      BY Zenon, <1>8, <2>2 DEF RunnerInv
    <3>2. ASSUME NEW c \in Claims
          PROVE  (worker'[c].by = p /\ worker'[c].phase \in Active \cup {"ended"}) <=>
                    (worker[c].by = p /\ worker[c].phase \in Active \cup {"ended"})
      <4>1. "none" \notin Active \cup {"ended"}
        BY Zenon DEF Active
      <4> QED BY Zenon, <1>3, <1>4, <2>2, <4>1
    <3>3. Available(p)' = Available(p)
      BY Zenon, <3>2, RoomKept
    <3> QED BY Zenon, <1>1, <1>11, <3>1, <3>3, RunKept
  <2> QED BY Zenon, <2>1, <2>2
<1> QED BY Zenon, <1>10, <1>14, <1>15, <1>16, <1>17, <1>18 DEF RunnerInv

----------------------------------------------------------------------------
(* The mailbox.                                                             *)

INSTANCE WellFoundedInduction

NatLess == {ss \in Nat \X Nat : ss[1] < ss[2]}

\* A set of naturals that is not empty has a least element.
LEMMA LeastElement ==
    ASSUME NEW S \in SUBSET Nat, S # {}
    PROVE  \E m \in S : \A k \in S : m <= k
<1>1. IsWellFoundedOn(NatLess, Nat)
  BY NatLessThanWellFounded, Zenon DEF OpToRel, NatLess
<1>2. PICK m \in S : \A k \in S : ~ (<<k, m>> \in NatLess)
  BY WFMin, <1>1, Zenon
<1>3. \A k \in S : <<k, m>> \in Nat \X Nat /\ <<k, m>>[1] = k /\ <<k, m>>[2] = m
  BY Zenon
<1>4. \A k \in S : ~ (k < m)
  BY <1>2, <1>3, Zenon DEF NatLess
<1> QED BY <1>4

\* Sequences of the same length with the same members are the same.
LEMMA SameSequence ==
    ASSUME NEW S, NEW s \in Seq(S), NEW q \in Seq(S), Len(s) = Len(q),
           \A i \in 1 .. Len(s) : s[i] = q[i]
    PROVE  s = q
  OBVIOUS

\* A part of a sequence grows by the next member.
LEMMA PartAppend ==
    ASSUME NEW S, NEW q \in Seq(S), NEW m \in 1 .. Len(q), NEW n \in m .. Len(q)
    PROVE  SubSeq(q, m, n) = Append(SubSeq(q, m, n - 1), q[n])
<1> DEFINE s == SubSeq(q, m, n)
           r == Append(SubSeq(q, m, n - 1), q[n])
<1>1. s \in Seq(S) /\ Len(s) = n - m + 1 /\ \A i \in 1 .. Len(s) : s[i] = q[m + i - 1]
  OBVIOUS
<1>2. r \in Seq(S) /\ Len(r) = n - m + 1 /\ \A i \in 1 .. Len(s) : r[i] = q[m + i - 1]
  OBVIOUS
<1> QED BY Zenon, <1>1, <1>2, SameSequence

\* Adjacent parts of a sequence make one part.
LEMMA PartsJoin ==
    ASSUME NEW S, NEW q \in Seq(S), NEW k \in 0 .. Len(q), NEW n \in k .. Len(q)
    PROVE  SubSeq(q, 1, k) \o SubSeq(q, k + 1, n) = SubSeq(q, 1, n)
<1> DEFINE a == SubSeq(q, 1, k)
           b == SubSeq(q, k + 1, n)
           c == SubSeq(q, 1, n)
<1>2. a \in Seq(S) /\ Len(a) = k /\ \A i \in 1 .. k : a[i] = q[i]
  OBVIOUS
<1>3. b \in Seq(S) /\ Len(b) = n - k /\ \A i \in 1 .. n - k : b[i] = q[i + k]
  OBVIOUS
<1>4. c \in Seq(S) /\ Len(c) = n /\ \A i \in 1 .. n : c[i] = q[i]
  OBVIOUS
<1> HIDE DEF a, b, c
<1>1. /\ a \o b \in Seq(S) /\ Len(a \o b) = Len(a) + Len(b)
      /\ \A i \in 1 .. Len(a) : (a \o b)[i] = a[i]
      /\ \A i \in 1 .. Len(b) : (a \o b)[i + Len(a)] = b[i]
  <2>1. a \in Seq(S) /\ b \in Seq(S)
    BY Zenon, <1>2, <1>3
  <2> QED BY <2>1
<1>5. PICK s :
         /\ s = a \o b
         /\ s \in Seq(S) /\ Len(s) = Len(a) + Len(b)
         /\ \A i \in 1 .. Len(a) : s[i] = a[i]
         /\ \A i \in 1 .. Len(b) : s[i + Len(a)] = b[i]
  BY Zenon, <1>1
<1>6. /\ s \in Seq(S) /\ Len(s) = k + (n - k)
      /\ \A i \in 1 .. k : s[i] = q[i]
      /\ \A i \in 1 .. n - k : s[i + k] = q[i + k]
  BY Zenon, <1>2, <1>3, <1>5
<1>7. ASSUME NEW i \in 1 .. n PROVE s[i] = q[i]
  <2>1. CASE i <= k
    BY <1>6, <2>1
  <2>2. CASE ~ (i <= k)
    <3>1. i - k \in 1 .. n - k /\ (i - k) + k = i
      BY <2>2
    <3> QED BY Zenon, <1>6, <3>1
  <2> QED BY Zenon, <2>1, <2>2
<1>8. Len(s) = n
  BY <1>6
<1>9. s = c
  BY Zenon, <1>4, <1>6, <1>7, <1>8, SameSequence
<1> QED BY Zenon, <1>5, <1>9 DEF a, b, c

\* What the filter holds after the i-th member of s.
Filtered(s, S, i, q) == IF s[i] \in S THEN Append(q, s[i]) ELSE q

\* f holds the filtered sequence after each of the first m members of s.
Filters(f, s, S, m) ==
    f = [i \in 0 .. m |-> IF i = 0 THEN << >> ELSE Filtered(s, S, i, f[i - 1])]

\* Filtering any number of members is defined: a first number for which it is not
\* would extend the filtering of the members before it.
LEMMA FilterExists ==
    ASSUME NEW s, NEW S, NEW n \in Nat
    PROVE  \E f : Filters(f, s, S, n)
<1> DEFINE Step(i, q) == Filtered(s, S, i, q)
           M == {m \in Nat : ~ \E f : Filters(f, s, S, m)}
<1>1. SUFFICES ASSUME M # {} PROVE FALSE
  BY Zenon
<1>2. PICK m \in M : \A k \in M : m <= k
  BY Zenon, <1>1, LeastElement, M \in SUBSET Nat
<1>3. CASE m = 0
  <2>1. Filters([i \in 0 .. 0 |-> << >>], s, S, 0)
    BY DEF Filters
  <2> QED BY Zenon, <2>1, <1>2, <1>3
<1>4. CASE m # 0
  <2>1. m \in Nat /\ m - 1 \in Nat /\ m - 1 \notin M
    BY <1>2, <1>4
  <2>2. PICK f : Filters(f, s, S, m - 1)
    BY Zenon, <2>1
  <2> HIDE DEF Step
  <2> DEFINE g == [i \in 0 .. m |-> IF i = m THEN Step(m, f[m - 1]) ELSE f[i]]
  <2>3. ASSUME NEW i \in 0 .. m
        PROVE  g[i] = IF i = 0 THEN << >> ELSE Step(i, g[i - 1])
    <3>1. CASE i = m
      BY <3>1, <1>4, <2>1
    <3>2. CASE i # m
      <4>1. g[i] = f[i] /\ (i # 0 => g[i - 1] = f[i - 1])
        BY <3>2, <2>1
      <4>2. f[i] = IF i = 0 THEN << >> ELSE Step(i, f[i - 1])
        BY <2>2, <3>2, <2>1 DEF Filters, Step
      <4> QED BY Zenon, <4>1, <4>2
    <3> QED BY Zenon, <3>1, <3>2
  <2>4. g = [i \in 0 .. m |-> IF i = 0 THEN << >> ELSE Step(i, g[i - 1])]
    BY Zenon, <2>3
  <2>5. Filters(g, s, S, m)
    BY Zenon, <2>4 DEF Filters, Step
  <2> QED BY Zenon, <2>5, <1>2
<1> QED BY Zenon, <1>3, <1>4

\* Select is what the filter holds after the last member.
LEMMA SelectFilters ==
    ASSUME NEW s, NEW S, Len(s) \in Nat
    PROVE  \E f : Filters(f, s, S, Len(s)) /\ Select(s, S) = f[Len(s)]
<1> DEFINE p == CHOOSE f : Filters(f, s, S, Len(s))
<1>1. Filters(p, s, S, Len(s))
  BY Zenon, FilterExists
<1>2. Select(s, S) = p[Len(s)]
  BY Zenon DEF Select, Filters, Filtered
<1> QED BY Zenon, <1>1, <1>2

\* Two filterings that agree on what they filter agree on what they hold.
LEMMA FiltersAgree ==
    ASSUME NEW s, NEW s2, NEW S, NEW n \in Nat, NEW n2 \in Nat, n <= n2, NEW f, NEW g,
           Filters(f, s, S, n), Filters(g, s2, S, n2), \A i \in 1 .. n : s2[i] = s[i]
    PROVE  g[n] = f[n]
<1> DEFINE M == {i \in 0 .. n : g[i] # f[i]}
<1>1. /\ \A i \in 0 .. n : f[i] = IF i = 0 THEN << >> ELSE Filtered(s, S, i, f[i - 1])
      /\ \A i \in 0 .. n2 : g[i] = IF i = 0 THEN << >> ELSE Filtered(s2, S, i, g[i - 1])
  BY Zenon DEF Filters
<1>2. SUFFICES ASSUME M # {} PROVE FALSE
  OBVIOUS
<1>3. M \in SUBSET Nat
  OBVIOUS
<1>4. PICK m \in M : \A k \in M : m <= k
  BY Zenon, <1>2, <1>3, LeastElement
<1>5. m \in 0 .. n /\ m \in 0 .. n2 /\ g[m] # f[m]
  OBVIOUS
<1>6. CASE m = 0
  BY Zenon, <1>1, <1>5, <1>6
<1>7. CASE m # 0
  <2>1. m \in 1 .. n /\ m - 1 \in 0 .. n /\ ~ (m <= m - 1)
    BY <1>5, <1>7
  <2>2. g[m - 1] = f[m - 1]
    BY Zenon, <1>4, <2>1
  <2>3. f[m] = Filtered(s, S, m, f[m - 1]) /\ g[m] = Filtered(s2, S, m, g[m - 1])
    BY Zenon, <1>1, <1>5, <1>7
  <2> QED BY <1>5, <2>1, <2>2, <2>3 DEF Filtered
<1> QED BY Zenon, <1>6, <1>7

\* Filtering one more message keeps it exactly when it is selected.
LEMMA SelectAppend ==
    ASSUME NEW s \in Seq(Message), NEW x \in Message, NEW S
    PROVE  Select(Append(s, x), S)
             = IF x \in S THEN Append(Select(s, S), x) ELSE Select(s, S)
<1> DEFINE n == Len(s)
           s2 == Append(s, x)
<1>1. /\ n \in Nat /\ n + 1 \in Nat /\ n <= n + 1
      /\ Len(s2) = n + 1
      /\ s2[n + 1] = x
      /\ \A j \in 1 .. n : s2[j] = s[j]
      /\ n + 1 \in 0 .. n + 1 /\ n + 1 # 0 /\ (n + 1) - 1 = n
  OBVIOUS
<1>2. PICK f : Filters(f, s, S, n) /\ Select(s, S) = f[n]
  BY <1>1, SelectFilters, Zenon
<1> HIDE DEF n, s2
<1>3. PICK g : Filters(g, s2, S, n + 1) /\ Select(s2, S) = g[n + 1]
  BY Zenon, <1>1, SelectFilters
<1>4. g[n] = f[n]
  BY <1>1, <1>2, <1>3, FiltersAgree
<1>5. g[n + 1] = Filtered(s2, S, n + 1, g[n])
  BY Zenon, <1>1, <1>3 DEF Filters
<1> QED BY Zenon, <1>1, <1>2, <1>3, <1>4, <1>5 DEF Filtered, s2

\* Where exactly the messages after the k-th are selected, they are what is left.
LEMMA SelectSuffix ==
    ASSUME NEW q \in Seq(Message), NEW S, NEW k \in 0 .. Len(q),
           \A i \in 1 .. Len(q) : q[i] \in S <=> i > k
    PROVE  Select(q, S) = SubSeq(q, k + 1, Len(q))
<1> DEFINE n == Len(q)
<1>1. n \in Nat /\ k \in Nat
  OBVIOUS
<1>2. PICK f : Filters(f, q, S, n) /\ Select(q, S) = f[n]
  BY <1>1, SelectFilters, Zenon
<1>3. \A i \in 0 .. n : f[i] = IF i = 0 THEN << >> ELSE Filtered(q, S, i, f[i - 1])
  BY Zenon, <1>2 DEF Filters
<1> DEFINE M == {i \in 0 .. n : f[i] # SubSeq(q, k + 1, i)}
<1>4. SUFFICES ASSUME M # {} PROVE FALSE
  BY <1>1, <1>2
<1>5. M \in SUBSET Nat
  BY <1>1
<1>6. PICK m \in M : \A j \in M : m <= j
  BY Zenon, <1>4, <1>5, LeastElement
<1>7. m \in 0 .. n /\ f[m] # SubSeq(q, k + 1, m)
  BY Zenon
<1>8. m > k
  <2> SUFFICES ASSUME ~ (m > k) PROVE FALSE
    BY Zenon
  <2>1. SubSeq(q, k + 1, m) = << >>
    BY <1>1, <1>7
  <2>2. m # 0
    BY Zenon, <1>3, <1>7, <2>1
  <2>3. m \in 1 .. n /\ m - 1 \in 0 .. n /\ ~ (m <= m - 1) /\ m - 1 < k + 1
    BY <1>1, <1>7, <2>2
  <2>4. f[m - 1] = SubSeq(q, k + 1, m - 1)
    BY Zenon, <1>6, <2>3
  <2>5. SubSeq(q, k + 1, m - 1) = << >>
    BY <1>1, <2>3
  <2>6. f[m] = Filtered(q, S, m, f[m - 1]) /\ q[m] \notin S
    BY Zenon, <1>3, <1>7, <2>2, <2>3
  <2> QED BY Zenon, <1>7, <2>1, <2>4, <2>5, <2>6 DEF Filtered
<1>9. m \in 1 .. n /\ m - 1 \in 0 .. n /\ ~ (m <= m - 1) /\ k + 1 \in 1 .. n /\ m \in k + 1 .. n
  BY <1>1, <1>7, <1>8
<1>10. f[m - 1] = SubSeq(q, k + 1, m - 1)
  BY Zenon, <1>6, <1>9
<1>11. f[m] = Append(SubSeq(q, k + 1, m - 1), q[m])
  <2>1. f[m] = Filtered(q, S, m, f[m - 1]) /\ q[m] \in S
    BY <1>3, <1>7, <1>8, <1>9
  <2> QED BY Zenon, <1>10, <2>1 DEF Filtered
<1>12. SubSeq(q, k + 1, m) = Append(SubSeq(q, k + 1, m - 1), q[m])
  BY Zenon, <1>9, PartAppend
<1> QED BY Zenon, <1>7, <1>11, <1>12

\* q is an inbox in sequence order, numbered up to n.
Ordered(q, n) ==
    /\ q \in Seq(Message)
    /\ \A i, j \in 1 .. Len(q) : i < j => q[i].sequence < q[j].sequence
    /\ \A i \in 1 .. Len(q) : q[i].sequence \in 1 .. n

\* The mailbox invariant: InboxInOrder, the next sequence number, which is fresh, and the
\* order of every inbox, from which the last sequence read finds the place read up to.
MailInv ==
    /\ messages \in Seq(Message)
    /\ nextSequence = Len(messages) + 1
    /\ received \in [Tasks -> Seq(Message)]
    /\ \A t \in Tasks : Ordered(MessagesFor(t), Len(messages))
    /\ InboxInOrder

\* What MailInv says of one inbox.
LEMMA MailFacts ==
    ASSUME MailInv, NEW t \in Tasks
    PROVE  /\ messages \in Seq(Message) /\ Len(messages) \in Nat
           /\ received[t] \in Seq(Message) /\ MessagesFor(t) \in Seq(Message)
           /\ Ordered(MessagesFor(t), Len(messages))
           /\ Len(received[t]) \in 0 .. Len(MessagesFor(t))
           /\ received[t] = SubSeq(MessagesFor(t), 1, Len(received[t]))
<1>1. /\ messages \in Seq(Message) /\ received[t] \in Seq(Message)
      /\ Ordered(MessagesFor(t), Len(messages))
      /\ Len(received[t]) <= Len(MessagesFor(t))
      /\ received[t] = SubSeq(MessagesFor(t), 1, Len(received[t]))
  BY Zenon DEF MailInv, InboxInOrder
<1>2. MessagesFor(t) \in Seq(Message)
  BY Zenon, <1>1 DEF Ordered
<1>3. \A q \in Seq(Message) : Len(q) \in Nat
  OBVIOUS
<1>4. \A i, j \in Nat : i <= j => i \in 0 .. j
  OBVIOUS
<1> QED BY Zenon, <1>1, <1>2, <1>3, <1>4

\* An inbox stays ordered when a message is numbered for another.
LEMMA OrderedLonger ==
    ASSUME NEW n \in Nat, NEW q, Ordered(q, n)
    PROVE  Ordered(q, n + 1)
<1>1. \A i : i \in 1 .. n => i \in 1 .. n + 1
  OBVIOUS
<1> QED BY Zenon, <1>1 DEF Ordered

\* A message with the next sequence number extends an inbox and what was read of it.
LEMMA OrderedAppend ==
    ASSUME NEW n \in Nat, NEW q, Ordered(q, n), NEW x \in Message, x.sequence = n + 1,
           NEW k \in 0 .. Len(q)
    PROVE  /\ Ordered(Append(q, x), n + 1)
           /\ Len(Append(q, x)) = Len(q) + 1
           /\ SubSeq(Append(q, x), 1, k) = SubSeq(q, 1, k)
<1> DEFINE r == Append(q, x)
<1>1. /\ q \in Seq(Message) /\ Len(q) \in Nat
      /\ r \in Seq(Message) /\ Len(r) = Len(q) + 1
      /\ \A i \in 1 .. Len(q) : r[i] = q[i]
      /\ r[Len(q) + 1] = x
  BY DEF Ordered
<1> HIDE DEF r
<1>2. \A i \in 1 .. Len(q) : q[i].sequence \in 1 .. n
  BY Zenon DEF Ordered
<1>3. ASSUME NEW i \in 1 .. Len(r), NEW j \in 1 .. Len(r), i < j
      PROVE  r[i].sequence < r[j].sequence
  <2>1. i \in 1 .. Len(q) /\ r[i] = q[i] /\ q[i].sequence < n + 1
    BY <1>1, <1>2, <1>3
  <2>2. CASE j = Len(q) + 1
    BY Zenon, <1>1, <2>1, <2>2
  <2>3. CASE j # Len(q) + 1
    <3>1. j \in 1 .. Len(q) /\ r[j] = q[j]
      BY <1>1, <2>3
    <3> QED BY Zenon, <1>3, <2>1, <3>1 DEF Ordered
  <2> QED BY Zenon, <2>2, <2>3
<1>4. ASSUME NEW i \in 1 .. Len(r)
      PROVE  r[i].sequence \in 1 .. n + 1
  <2>1. CASE i = Len(q) + 1
    BY <1>1, <2>1
  <2>2. CASE i # Len(q) + 1
    <3>1. i \in 1 .. Len(q) /\ r[i] = q[i]
      BY <1>1, <2>2
    <3> QED BY <1>2, <3>1
  <2> QED BY Zenon, <2>1, <2>2
<1>5. Ordered(r, n + 1)
  BY Zenon, <1>1, <1>3, <1>4 DEF Ordered
<1>6. SubSeq(r, 1, k) = SubSeq(q, 1, k)
  <2>1. /\ 1 \in Int /\ k \in Int
        /\ \A i \in 1 .. k : q[i] \in Message /\ r[i] \in Message /\ r[i] = q[i]
    BY <1>1
  <2>2. /\ SubSeq(r, 1, k) \in Seq(Message) /\ SubSeq(q, 1, k) \in Seq(Message)
        /\ Len(SubSeq(r, 1, k)) = Len(SubSeq(q, 1, k))
        /\ Len(SubSeq(r, 1, k)) = k
        /\ \A i \in 1 .. k : SubSeq(r, 1, k)[i] = SubSeq(q, 1, k)[i]
    BY <1>1, <2>1
  <2> QED BY Zenon, <2>2, SameSequence
<1> QED BY Zenon, <1>1, <1>5, <1>6 DEF r

\* Sending numbers the message next and appends it to the receiver's inbox alone.
LEMMA SendStep ==
    ASSUME MailInv, NEW from \in Tasks, NEW to \in Tasks, SendMessage(from, to)
    PROVE  MailInv'
<1> DEFINE x == [sequence |-> nextSequence, from |-> from, to |-> to]
           n == Len(messages)
<1>1. /\ messages \in Seq(Message) /\ n \in Nat /\ nextSequence = n + 1
      /\ messages' = Append(messages, x) /\ nextSequence' = nextSequence + 1
      /\ received' = received
  BY DEF MailInv, SendMessage
<1>2. x \in Message /\ x.sequence = n + 1 /\ x.to = to
  BY <1>1 DEF Message
<1> HIDE DEF x
<1>3. /\ messages' \in Seq(Message) /\ Len(messages') = n + 1
      /\ \A i \in 1 .. n : messages'[i] = messages[i]
      /\ messages'[n + 1] = x
  BY <1>1, <1>2
<1>4. \A i \in DOMAIN messages' : messages'[i].sequence = i
  <2>1. \A i \in 1 .. n : messages[i].sequence = i
    BY <1>1 DEF MailInv, InboxInOrder
  <2>2. DOMAIN messages' = 1 .. n + 1
    BY <1>3
  <2> HIDE DEF n
  <2> QED BY <1>1, <1>2, <1>3, <2>1, <2>2
<1>5. ASSUME NEW t \in Tasks
      PROVE  /\ Ordered(MessagesFor(t)', n + 1)
             /\ Len(received[t]) <= Len(MessagesFor(t)')
             /\ received[t] = SubSeq(MessagesFor(t)', 1, Len(received[t]))
  <2> DEFINE q == MessagesFor(t)
             k == Len(received[t])
             To == {m \in Message : m.to = t}
  <2>1. /\ Ordered(q, n) /\ q \in Seq(Message) /\ k \in 0 .. Len(q)
        /\ received[t] = SubSeq(q, 1, k)
    BY Zenon, MailFacts
  <2>2. MessagesFor(t)' = IF x \in To THEN Append(q, x) ELSE q
    <3> HIDE DEF To
    <3> QED BY Zenon, <1>1, <1>2, SelectAppend DEF MessagesFor, To
  <2> HIDE DEF q, k, To, n
  <2>3. CASE x \in To
    <3>1. /\ Ordered(Append(q, x), n + 1)
          /\ Len(Append(q, x)) = Len(q) + 1
          /\ SubSeq(Append(q, x), 1, k) = SubSeq(q, 1, k)
      BY Zenon, <1>1, <1>2, <2>1, OrderedAppend
    <3>2. k <= Len(q) + 1
      BY <2>1
    <3> QED BY Zenon, <2>1, <2>2, <2>3, <3>1, <3>2 DEF k
  <2>4. CASE x \notin To
    <3>1. Ordered(q, n + 1)
      BY Zenon, <1>1, <2>1, OrderedLonger
    <3>2. k <= Len(q)
      BY <2>1
    <3> QED BY Zenon, <2>1, <2>2, <2>4, <3>1, <3>2 DEF k
  <2> QED BY Zenon, <2>3, <2>4
<1> QED BY Zenon, <1>1, <1>3, <1>4, <1>5 DEF MailInv, InboxInOrder

\* In an ordered inbox, what follows the sequence of the k-th message is what follows
\* the k-th message.
LEMMA LaterIsRest ==
    ASSUME NEW n \in Nat, NEW q, Ordered(q, n), NEW k \in 0 .. Len(q),
           NEW after, after = IF k = 0 THEN 0 ELSE q[k].sequence
    PROVE  Select(q, {m \in Message : m.sequence > after}) = SubSeq(q, k + 1, Len(q))
<1> DEFINE S == {m \in Message : m.sequence > after}
<1>1. q \in Seq(Message) /\ Len(q) \in Nat
  BY DEF Ordered
<1>2. ASSUME NEW i \in 1 .. Len(q)
      PROVE  q[i] \in S <=> i > k
  <2>1. q[i] \in Message /\ q[i].sequence \in 1 .. n
    BY <1>1 DEF Ordered
  <2>2. CASE k = 0
    BY <2>1, <2>2
  <2>3. CASE k # 0
    <3>1. k \in 1 .. Len(q) /\ q[k].sequence \in 1 .. n /\ after = q[k].sequence
      BY <2>3 DEF Ordered
    <3>2. /\ i < k => q[i].sequence < q[k].sequence
          /\ k < i => q[k].sequence < q[i].sequence
          /\ i = k => q[i].sequence = q[k].sequence
      BY Zenon, <3>1 DEF Ordered
    <3>3. q[i] \in S <=> q[i].sequence > after
      BY Zenon, <2>1
    <3> HIDE DEF S
    <3> QED BY <2>1, <3>1, <3>2, <3>3
  <2> QED BY Zenon, <2>2, <2>3
<1> HIDE DEF S
<1>3. Select(q, S) = SubSeq(q, k + 1, Len(q))
  BY Zenon, <1>1, <1>2, SelectSuffix
<1> QED BY Zenon, <1>3 DEF S

\* A page read after the last sequence received continues the part of the inbox read.
LEMMA ReadStep ==
    ASSUME MailInv, NEW t \in Tasks, NEW size, ReadPage(t, size)
    PROVE  MailInv'
<1> DEFINE q == MessagesFor(t)
           k == Len(received[t])
           cursor == IF received[t] = << >> THEN 0 ELSE received[t][k].sequence
           rest == PageAfter(t, cursor)
           read == received[t] \o SubSeq(rest, 1, size)
<1>1. /\ messages \in Seq(Message) /\ Len(messages) \in Nat
      /\ received[t] \in Seq(Message) /\ q \in Seq(Message)
      /\ Ordered(q, Len(messages)) /\ k \in 0 .. Len(q)
      /\ received[t] = SubSeq(q, 1, k)
  BY Zenon, MailFacts
<1>2. /\ size \in 1 .. Len(rest)
      /\ received' = [received EXCEPT ![t] = read]
      /\ messages' = messages /\ nextSequence' = nextSequence
  BY Zenon DEF ReadPage
<1>3. cursor = IF k = 0 THEN 0 ELSE q[k].sequence
  <2>1. received[t] = << >> <=> k = 0
    BY <1>1
  <2>2. k # 0 => received[t][k] = q[k]
    <3> HIDE DEF q
    <3> QED BY <1>1
  <2> QED BY Zenon, <2>1, <2>2
<1> HIDE DEF q, k, cursor
<1>4. rest = SubSeq(q, k + 1, Len(q))
  BY Zenon, <1>1, <1>3, LaterIsRest DEF PageAfter, q
<1> HIDE DEF rest
<1>5. /\ Len(q) \in Nat /\ k \in Nat /\ Len(rest) = Len(q) - k
      /\ size \in Nat \ {0} /\ k + size <= Len(q)
  BY <1>1, <1>2, <1>4
<1>6. SubSeq(rest, 1, size) = SubSeq(q, k + 1, k + size)
  <2>1. /\ SubSeq(rest, 1, size) \in Seq(Message)
        /\ SubSeq(q, k + 1, k + size) \in Seq(Message)
        /\ Len(SubSeq(rest, 1, size)) = size
        /\ Len(SubSeq(q, k + 1, k + size)) = size
    BY <1>1, <1>4, <1>5
  <2>2. \A i \in 1 .. size : SubSeq(rest, 1, size)[i] = SubSeq(q, k + 1, k + size)[i]
    BY <1>1, <1>4, <1>5
  <2> QED BY Zenon, <2>1, <2>2, SameSequence
<1>7. /\ read \in Seq(Message) /\ Len(read) = k + size
      /\ read = SubSeq(q, 1, k + size)
  <2>1. /\ SubSeq(q, 1, k) \in Seq(Message) /\ Len(SubSeq(q, 1, k)) = k
        /\ SubSeq(q, k + 1, k + size) \in Seq(Message)
        /\ Len(SubSeq(q, k + 1, k + size)) = size
        /\ SubSeq(q, 1, k + size) \in Seq(Message)
        /\ Len(SubSeq(q, 1, k + size)) = k + size
    BY <1>1, <1>5
  <2>2. read = SubSeq(q, 1, k) \o SubSeq(q, k + 1, k + size)
    BY Zenon, <1>1, <1>6
  <2> HIDE DEF read
  <2>3. read \in Seq(Message) /\ Len(read) = k + size
    BY <2>1, <2>2
  <2>4. k \in 0 .. Len(q) /\ k + size \in k .. Len(q)
    BY <1>1, <1>5
  <2>5. SubSeq(q, 1, k) \o SubSeq(q, k + 1, k + size) = SubSeq(q, 1, k + size)
    BY Zenon, <1>1, <2>4, PartsJoin
  <2> QED BY Zenon, <2>2, <2>3, <2>5
<1> HIDE DEF read
<1>8. received \in [Tasks -> Seq(Message)] /\ received' \in [Tasks -> Seq(Message)]
  BY Zenon, <1>2, <1>7 DEF MailInv
<1>9. \A u \in Tasks : MessagesFor(u)' = MessagesFor(u)
  BY Zenon, <1>2 DEF MessagesFor
<1>10. ASSUME NEW u \in Tasks
       PROVE  /\ Len(received'[u]) <= Len(MessagesFor(u))
              /\ received'[u] = SubSeq(MessagesFor(u), 1, Len(received'[u]))
  <2>1. CASE u = t
    <3>1. received'[u] = read
      BY Zenon, <1>2, <1>8, <2>1
    <3> QED BY Zenon, <1>5, <1>7, <2>1, <3>1 DEF q
  <2>2. CASE u # t
    <3>1. received'[u] = received[u]
      BY Zenon, <1>2, <1>8, <2>2
    <3> QED BY Zenon, <3>1 DEF MailInv, InboxInOrder
  <2> QED BY Zenon, <2>1, <2>2
<1> QED BY Zenon, <1>2, <1>8, <1>9, <1>10 DEF MailInv, InboxInOrder

\* For any number of Tasks and messages, with the messages and the pages in any order,
\* paging through an inbox loses, repeats and reorders nothing.
THEOREM InboxInOrderAlways == Spec => []InboxInOrder
<1>1. Init => MailInv
  <2> SUFFICES ASSUME Init PROVE MailInv
    BY Zenon
  <2> DEFINE empty == << >>
  <2>1. messages = empty /\ empty \in Seq(Message) /\ Len(empty) = 0 /\ nextSequence = 1
        /\ SubSeq(empty, 1, 0) = empty /\ DOMAIN empty = {}
    BY DEF Init
  <2>2. \A t \in Tasks : MessagesFor(t) = empty
    <3> SUFFICES ASSUME NEW t \in Tasks PROVE MessagesFor(t) = empty
      BY Zenon
    <3> DEFINE S == {m \in Message : m.to = t}
    <3>1. PICK f : Filters(f, messages, S, 0) /\ Select(messages, S) = f[0]
      BY Zenon, <2>1, SelectFilters
    <3> HIDE DEF S
    <3>2. f[0] = << >>
      BY <3>1 DEF Filters
    <3> QED BY Zenon, <3>1, <3>2 DEF MessagesFor, S
  <2>3. received = [t \in Tasks |-> empty]
    BY Zenon DEF Init
  <2> HIDE DEF empty
  <2>4. Ordered(empty, Len(empty))
    BY <2>1 DEF Ordered
  <2> QED BY <2>1, <2>2, <2>3, <2>4 DEF MailInv, InboxInOrder
<1>2. MailInv /\ UNCHANGED mailbox => MailInv'
  BY Zenon DEF MailInv, InboxInOrder, MessagesFor, mailbox
<1>3. MailInv /\ [Next]_vars => MailInv'
  <2>1. UNCHANGED vars => UNCHANGED mailbox
    BY Zenon DEF vars, mailbox
  <2>2. Claim \/ Settle \/ Administer => UNCHANGED mailbox
    <3>1. Claim => UNCHANGED mailbox
      <4>1. ASSUME NEW owner, NEW at, NEW duration, NEW maximum, NEW governed, NEW caps,
                   ClaimReady(owner, at, duration, maximum, governed, caps)
            PROVE  UNCHANGED mailbox
        BY Zenon, <4>1 DEF ClaimReady
      <4> QED BY Zenon, <4>1 DEF Claim
    <3>2. \A t, o, n, b : SettledAs(t, o, n, b) => UNCHANGED mailbox
      BY Zenon DEF SettledAs
    <3>3. Settle => UNCHANGED mailbox
      BY Zenon, <3>2 DEF Settle, Heartbeat, Complete, Fail
    <3>4. Administer => UNCHANGED mailbox
      BY Zenon, <3>2 DEF Administer, Cancel, ReleaseExpired
    <3> QED BY Zenon, <3>1, <3>3, <3>4
  <2>3. MailInv /\ Communicate => MailInv'
    BY Zenon, SendStep, ReadStep DEF Communicate
  <2> QED BY Zenon, <1>2, <2>1, <2>2, <2>3 DEF Next
<1>4. MailInv => InboxInOrder
  BY Zenon DEF MailInv
<1> QED BY <1>1, <1>3, <1>4, PTL DEF Spec
----------------------------------------------------------------------------
(* The stored graph changes as TaskGraph allows.                            *)

INSTANCE FiniteSetTheorems

\* More room than there are Tasks makes no difference to what a claim selects.
LEMMA SelectedBounded ==
    ASSUME NEW ready \in SUBSET Tasks, NEW m \in Nat, m >= NTasks
    PROVE  Selected(ready, m) = Selected(ready, NTasks)
<1>1. NTasks \in Nat
  BY Zenon, GraphAssumption
<1>2. IsFiniteSet(Tasks) /\ Cardinality(Tasks) = NTasks
  <2>1. /\ IsFiniteSet(1 .. NTasks)
        /\ Cardinality(1 .. NTasks) = IF 1 > NTasks THEN 0 ELSE NTasks - 1 + 1
    BY <1>1, FS_Interval
  <2> QED BY <1>1, <2>1 DEF Tasks
<1>3. ASSUME NEW t \in ready
      PROVE  /\ Cardinality({u \in ready : Before(u, t)}) \in Nat
             /\ Cardinality({u \in ready : Before(u, t)}) < NTasks
  <2> DEFINE earlier == {u \in ready : Before(u, t)}
  <2>1. Priority[t] \in Int /\ t \in Int
    BY GraphAssumption DEF Tasks
  <2>2. ~Before(t, t)
    BY <2>1 DEF Before
  <2>3. earlier \in SUBSET (Tasks \ {t})
    BY Zenon, <2>2
  <2>4. IsFiniteSet(Tasks \ {t}) /\ Cardinality(Tasks \ {t}) = NTasks - 1
    BY Zenon, <1>2, FS_RemoveElement
  <2> HIDE DEF earlier
  <2>5. IsFiniteSet(earlier) /\ Cardinality(earlier) <= Cardinality(Tasks \ {t})
    BY Zenon, <2>3, <2>4, FS_Subset
  <2>6. Cardinality(earlier) \in Nat
    BY Zenon, <2>5, FS_CardinalityType
  <2>7. Cardinality(earlier) < NTasks
    BY <1>1, <2>4, <2>5, <2>6
  <2> QED BY Zenon, <2>6, <2>7 DEF earlier
<1>4. \A t \in ready : Cardinality({u \in ready : Before(u, t)}) < m
  BY <1>1, <1>3
<1> QED BY Zenon, <1>3, <1>4 DEF Selected

\* The room for workers is a number.
LEMMA AvailableInt ==
    ASSUME NEW o \in Owners
    PROVE  Available(o) \in Int
<1>1. IsFiniteSet(Tasks) /\ IsFiniteSet(1 .. MaxAttempts)
  BY GraphAssumption, FS_Interval DEF Tasks
<1>2. IsFiniteSet(Claims)
  BY Zenon, <1>1, FS_Product DEF Claims
<1>3. Held(o) \in SUBSET Claims
  BY Zenon DEF Held
<1>4. Cardinality(Held(o)) \in Nat
  BY Zenon, <1>2, <1>3, FS_Subset, FS_CardinalityType
<1> QED BY <1>4, RunnerAssumption DEF Available

\* A claim is a claim of the graph, for some number of Tasks that the graph has.
LEMMA CommitClaimRefines ==
    ASSUME RunnerInv, NEW o \in Owners, CommitClaim(o)
    PROVE  Next
<1> DEFINE at == run[o].at
           caps == WorkerCapabilities[o]
           ready == Ready(at, BlockedMutations(Expired(at), {}), caps)
<1>1. RunnerTypeOK /\ RunOK(o) /\ run[o].pc = "claimCAS"
  BY Zenon DEF RunnerInv, CommitClaim
<1>2. at \in Times
  BY <1>1, Typed, GraphAssumption DEF RunnerTypeOK, RunOK, Times
<1>3. Governed[o] \in BOOLEAN /\ caps \in SUBSET Capabilities
  BY Zenon, RunnerAssumption
<1>4. LeaseDuration \in 1 .. MaxTime
  BY RunnerAssumption, TimingAssumption, GraphAssumption
<1>5. Available(o) > 0 /\ Available(o) \in Int
  BY Zenon, <1>1, AvailableInt DEF RunOK
<1>6. ClaimReady(o, at, LeaseDuration, Available(o), Governed[o], caps)
  BY Zenon DEF CommitClaim
<1>7. CASE Available(o) <= NTasks
  <2>1. Available(o) \in 1 .. NTasks
    BY <1>5, <1>7, GraphAssumption
  <2>2. Claim
    BY Zenon, <1>2, <1>3, <1>4, <1>6, <2>1 DEF Claim
  <2> QED BY Zenon, <2>2 DEF Next
<1>8. CASE Available(o) > NTasks
  <2>1. ready \in SUBSET Tasks /\ Available(o) \in Nat /\ Available(o) >= NTasks
    BY <1>5, <1>8, GraphAssumption DEF Ready
  <2>2. Selected(ready, Available(o)) = Selected(ready, NTasks)
    BY Zenon, <2>1, SelectedBounded
  <2>3. ClaimReady(o, at, LeaseDuration, NTasks, Governed[o], caps)
    BY Zenon, <1>6, <2>2 DEF ClaimReady
  <2>4. NTasks # 0
    <3>1. ASSUME NTasks = 0 PROVE FALSE
      <4>1. Tasks = {}
        BY <3>1 DEF Tasks
      <4>2. /\ Expired(at) = {} /\ ready = {} /\ BlockedMutations(Expired(at), {}) = {}
        BY Zenon, <4>1 DEF Expired, Ready, BlockedMutations
      <4>3. Selected(ready, NTasks) = {}
        BY Zenon, <4>2 DEF Selected
      <4> QED BY Zenon, <2>3, <4>2, <4>3 DEF ClaimReady
    <3> QED BY Zenon, <3>1
  <2>5. NTasks \in 1 .. NTasks
    BY <2>4, GraphAssumption
  <2>6. Claim
    BY Zenon, <1>2, <1>3, <1>4, <2>3, <2>5 DEF Claim
  <2> QED BY Zenon, <2>6 DEF Next
<1> QED BY <1>5, <1>7, <1>8, GraphAssumption

\* A settlement is a settlement of the graph.
LEMMA CommitSettleRefines ==
    ASSUME RunnerInv, NEW o \in Owners, CommitSettle(o)
    PROVE  Next
<1> DEFINE c == run[o].claim
<1>1. RunnerTypeOK /\ RunOK(o) /\ run[o].pc = "settleCAS"
  BY Zenon DEF RunnerInv, CommitSettle
<1>2. run[o].at \in Times
  BY <1>1, Typed, GraphAssumption DEF RunnerTypeOK, RunOK, Times
<1>3. c[1] \in Tasks /\ c[2] \in 1 .. MaxAttempts
  BY Zenon, <1>1, ClaimParts DEF RunOK
<1>4. Complete(c[1], c[2], run[o].at) \/ Fail(c[1], c[2], run[o].at)
  BY Zenon DEF CommitSettle
<1>5. Settle
  BY Zenon, <1>2, <1>3, <1>4 DEF Settle
<1> QED BY Zenon, <1>5 DEF Next

\* Every step of the runner is a step of the graph or leaves it alone.
LEMMA GraphSteps ==
    ASSUME RunnerInv, [RunnerNext]_runnerVars
    PROVE  UNCHANGED vars \/ Next
<1>1. ASSUME NEW o \in Owners, OrchestratorStep(o) PROVE UNCHANGED vars \/ Next
  BY Zenon, <1>1, OrchestratorQuiet, CommitClaimRefines, CommitSettleRefines DEF QuietRun
<1>2. ASSUME NEW c \in Claims, WorkerStep(c) PROVE UNCHANGED vars
  BY Zenon, <1>2 DEF WorkerStep, Prepared, PreparationInterrupted, PreparationDrained,
     Executed, Released, Becomes
<1>3. ASSUME NEW c \in Claims, NEW to \in Tasks, SendCommit(c, to) PROVE UNCHANGED vars \/ Next
  <2>1. c[1] \in Tasks
    BY Zenon, ClaimParts
  <2> QED BY Zenon, <1>3, <2>1 DEF SendCommit, Next, Communicate
<1>4. ASSUME NEW t \in Cancellable, CancelTask(t) PROVE Next
  <2>1. t \in Tasks
    BY Zenon, RunnerAssumption
  <2> QED BY Zenon, <1>4, <2>1 DEF CancelTask, Next, Administer
<1>5. CASE UNCHANGED runnerVars
  BY Zenon, <1>5 DEF runnerVars
<1>6. CASE RunnerNext
  BY Zenon, <1>1, <1>2, <1>3, <1>4, <1>6 DEF RunnerNext, SendLoad, StopRun, Tick
<1> QED BY Zenon, <1>5, <1>6

----------------------------------------------------------------------------
(* The theorems.                                                            *)

\* The invariant holds before the first step.
LEMMA RunnerInitially ==
    ASSUME RunnerInit
    PROVE  RunnerInv
<1>1. LifecycleInv
  <2>1. TasksTypeOK
    BY GraphAssumption DEF RunnerInit, Init, TasksTypeOK, States
  <2> QED
    BY Zenon, <2>1 DEF RunnerInit, Init, LifecycleInv, TasksTypeOK, DependenciesFirst,
       BlockedExactly, Unsuccessful
<1>2. /\ now = 0 /\ revision = 1
      /\ run = [o \in Owners |-> [pc |-> "top", stop |-> FALSE, rev |-> 0, at |-> 0,
                                  tries |-> 0, claim |-> NoClaim]]
      /\ worker = [c \in Claims |-> NoWorker]
      /\ status = [t \in Tasks |-> "Pending"]
  BY Zenon DEF RunnerInit, Init
<1>3. 0 \in Times /\ 0 \in Nat /\ 1 \in Nat
  BY GraphAssumption DEF Times
<1>4. /\ NoWorker \in Workers /\ NoWorker.phase = "none" /\ NoWorker.sending = 0
  BY Zenon, <1>3 DEF NoWorker, Workers, Phases, Outcomes
<1>5. [pc |-> "top", stop |-> FALSE, rev |-> 0, at |-> 0, tries |-> 0,
       claim |-> NoClaim] \in Runs
  BY Zenon, <1>3 DEF Runs, Pcs
<1>6. RunnerTypeOK
  BY Zenon, <1>2, <1>3, <1>4, <1>5 DEF RunnerTypeOK
<1>7. ASSUME NEW o \in Owners PROVE RunOK(o)
  <2>1. run[o].pc = "top"
    BY Zenon, <1>2
  <2> QED BY Zenon, <2>1 DEF RunOK
<1>8. ASSUME NEW c \in Claims PROVE worker[c].phase = "none" /\ worker[c].sending = 0
  BY Zenon, <1>2, <1>4
<1>9. "none" \notin Active
  BY Zenon DEF Active
<1>10. ASSUME NEW c \in Claims PROVE LiveOK(c) /\ EndOK(c) /\ SendOK(c)
  BY Zenon, <1>8, <1>9 DEF LiveOK, EndOK, SendOK
<1>11. ASSUME NEW t \in Tasks PROVE SettledOK(t)
  BY Zenon, <1>2 DEF SettledOK
<1>12. ExclusiveExecution
  BY Zenon, <1>8, <1>9 DEF ExclusiveExecution
<1> QED BY Zenon, <1>1, <1>6, <1>7, <1>10, <1>11, <1>12 DEF RunnerInv

\* Every step keeps the invariant.
LEMMA RunnerStep ==
    ASSUME RunnerInv, RunnerNext
    PROVE  RunnerInv'
<1>1. LifecycleInv'
  <2>1. LifecycleInv /\ (UNCHANGED vars \/ Next)
    BY Zenon, GraphSteps DEF RunnerInv
  <2>2. CASE UNCHANGED vars
    BY Zenon, <2>1, <2>2 DEF vars, LifecycleInv, TasksTypeOK, DependenciesFirst, BlockedExactly,
       DepsCompleted
  <2> QED BY Zenon, <2>1, <2>2, LifecycleStep
<1>2. ASSUME NEW o \in Owners, OrchestratorStep(o) PROVE RunnerInv'
  BY Zenon, <1>1, <1>2, OrchestratorQuiet, QuietStep, CommitClaimStep, CommitSettleStep
<1>3. ASSUME NEW o \in Stoppable, StopRun(o) PROVE RunnerInv'
  <2>1. o \in Owners
    BY Zenon, RunnerAssumption
  <2> QED BY Zenon, <1>3, <2>1, StopRunQuiet, QuietStep
<1>4. ASSUME NEW t \in Cancellable, CancelTask(t) PROVE RunnerInv'
  <2>1. t \in Tasks
    BY Zenon, RunnerAssumption
  <2> QED BY Zenon, <1>1, <1>4, <2>1, CancelTaskStep
<1> QED
  BY Zenon, <1>1, <1>2, <1>3, <1>4, WorkerSteps, SendLoadStep, SendCommitStep, TickStep
  DEF RunnerNext

\* The invariant depends on nothing but the runner's variables.
LEMMA RunnerStutter ==
    ASSUME RunnerInv, UNCHANGED runnerVars
    PROVE  RunnerInv'
<1>1. /\ now' = now /\ revision' = revision /\ run' = run /\ worker' = worker
      /\ status' = status /\ lease' = lease /\ attempts' = attempts
      /\ settledBy' = settledBy /\ deps' = deps /\ bindings' = bindings
  BY Zenon DEF runnerVars, vars
<1>2. LifecycleInv'
  BY Zenon, <1>1 DEF RunnerInv, LifecycleInv, TasksTypeOK, DependenciesFirst, BlockedExactly,
     DepsCompleted
<1>3. RunnerTypeOK' /\ ExclusiveExecution'
  BY Zenon, <1>1 DEF RunnerInv, RunnerTypeOK, ExclusiveExecution
<1>4. ASSUME NEW o \in Owners PROVE RunOK(o)'
  BY Zenon, <1>1 DEF RunnerInv, RunOK, Available, Held
<1>5. ASSUME NEW c \in Claims PROVE LiveOK(c)' /\ EndOK(c)' /\ SendOK(c)'
  BY Zenon, <1>1 DEF RunnerInv, LiveOK, EndOK, SendOK, Leased, Latest
<1>6. ASSUME NEW t \in Tasks PROVE SettledOK(t)'
  BY Zenon, <1>1 DEF RunnerInv, SettledOK
<1> QED BY Zenon, <1>2, <1>3, <1>4, <1>5, <1>6 DEF RunnerInv

\* Whatever orchestrators, workers, timers and administrators do, the invariant holds.
THEOREM RunnerAlways == RunnerSpec => []RunnerInv
<1>1. RunnerInit => RunnerInv
  BY Zenon, RunnerInitially
<1>2. RunnerInv /\ [RunnerNext]_runnerVars => RunnerInv'
  BY Zenon, RunnerStep, RunnerStutter
<1> QED BY <1>1, <1>2, PTL DEF RunnerSpec

\* Any number of orchestrators that load, compute and compare-and-swap concurrently
\* change the stored graph only by operations of the Task Graph.
THEOREM RunnerImplementsGraph == RunnerSpec => ImplementsGraph
<1>1. RunnerInit => Init
  BY Zenon DEF RunnerInit
<1>2. RunnerInv /\ [RunnerNext]_runnerVars => [UNCHANGED vars \/ Next]_vars
  BY Zenon, GraphSteps
<1> QED BY <1>1, <1>2, RunnerAlways, PTL DEF RunnerSpec, ImplementsGraph

\* with_timing's bound is enough: a Task never has two active workers, however many
\* orchestrators claim it and however late they are.
THEOREM ExclusiveExecutionAlways == RunnerSpec => []ExclusiveExecution
<1>1. RunnerInv => ExclusiveExecution
  BY Zenon DEF RunnerInv
<1> QED BY <1>1, RunnerAlways, PTL

\* A Task is recorded complete only after its workspace was released.
THEOREM CleanBeforeCompleteAlways == RunnerSpec => []CleanBeforeComplete
<1>1. RunnerInv => CleanBeforeComplete
  BY Zenon DEF RunnerInv, SettledOK, CleanBeforeComplete
<1> QED BY <1>1, RunnerAlways, PTL

\* A message is published only while its sender holds the Task's lease.
THEOREM MailboxAlwaysFenced == RunnerSpec => MailboxFenced
<1>1. ASSUME RunnerInv, RunnerNext, NEW c \in Claims, worker[c].sending # 0,
             worker'[c].sending = 0, messages' # messages
      PROVE  status[c[1]] = "Running" /\ lease[c[1]].attempt = c[2]
  <2>1. SendOK(c) /\ worker \in [Claims -> Workers] /\ worker[c] \in Workers
    BY Zenon, <1>1 DEF RunnerInv, RunnerTypeOK
  <2>2. ~ UNCHANGED vars
    BY Zenon, <1>1 DEF vars
  <2>3. ASSUME NEW o \in Owners, OrchestratorStep(o) PROVE FALSE
    <3>1. CASE CommitClaim(o)
      BY Zenon, <1>1, <3>1 DEF CommitClaim, ClaimReady, mailbox
    <3>2. CASE CommitSettle(o)
      BY Zenon, <1>1, <3>2 DEF CommitSettle, Complete, Fail, SettledAs, mailbox
    <3>3. CASE ~CommitClaim(o) /\ ~CommitSettle(o)
      BY Zenon, <1>1, <2>2, <2>3, <3>3, OrchestratorQuiet DEF QuietRun
    <3> QED BY Zenon, <3>1, <3>2, <3>3
  <2>4. ASSUME NEW d \in Claims, WorkerStep(d) PROVE FALSE
    BY Zenon, <2>2, <2>4 DEF WorkerStep, Prepared, PreparationInterrupted, PreparationDrained,
       Executed, Released, Becomes
  <2>5. ASSUME NEW t, CancelTask(t) PROVE FALSE
    BY Zenon, <1>1, <2>5 DEF CancelTask, Cancel, SettledAs, mailbox
  <2>6. ASSUME NEW d \in Claims, NEW to \in Tasks, SendCommit(d, to) PROVE Leased(c)
    <3>1. d = c
      <4>1. ASSUME d # c PROVE worker'[c] = worker[c]
        BY Zenon, <2>1, <2>6, <4>1 DEF SendCommit
      <4> QED BY Zenon, <1>1, <4>1
    <3>2. worker[c].sending = revision
      BY Zenon, <2>2, <2>6, <3>1 DEF SendCommit
    <3> QED BY Zenon, <1>1, <2>1, <3>2 DEF SendOK
  <2> QED
    BY Zenon, <1>1, <2>2, <2>3, <2>4, <2>5, <2>6
    DEF RunnerNext, SendLoad, StopRun, Tick, Leased
<1>2. RunnerInv /\ [RunnerNext]_runnerVars =>
         [\A c \in Claims :
            (worker[c].sending # 0 /\ worker'[c].sending = 0 /\ messages' # messages) =>
               status[c[1]] = "Running" /\ lease[c[1]].attempt = c[2]]_runnerVars
  BY Zenon, <1>1
<1> QED BY <1>2, RunnerAlways, PTL DEF RunnerSpec, MailboxFenced

\* What the Task Graph promises holds of the graph that orchestrators share: it never
\* gets stuck, blocks exactly what can no longer run, keeps attempts governed and
\* numbers the messages of all workers in the order they were committed.
THEOREM SharedGraphGuarantees ==
    RunnerSpec => [](NeverStuck /\ BlockedExactly /\ AttemptsGoverned /\ InboxInOrder)
<1>1. RunnerInit => Init
  BY Zenon DEF RunnerInit
<1>2. RunnerInv /\ [RunnerNext]_runnerVars => [Next]_vars
  BY Zenon, GraphSteps
<1>3. RunnerSpec => Spec
  BY <1>1, <1>2, RunnerAlways, PTL DEF RunnerSpec, Spec
<1> QED BY <1>3, NeverStuckAlways, BlockedExactlyAlways, AttemptsGovernedAlways,
           InboxInOrderAlways, PTL
=============================================================================
