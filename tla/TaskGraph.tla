----------------------------- MODULE TaskGraph -----------------------------
(***************************************************************************)
(* The Task Graph aggregate of src/orchestration/mod.rs: an acyclic graph  *)
(* of Tasks claimed under fenced leases, with dependency blocking, governed *)
(* attempts and an ordered mailbox.                                        *)
(*                                                                         *)
(* The aggregate keeps no clock of its own: each caller brings the time it *)
(* read, so the actions take any time, in any order.  A lease identity,    *)
(* freshly generated by the code for every claim, is the pair of the Task  *)
(* and the number of the attempt it was issued for.                        *)
(***************************************************************************)
EXTENDS Integers, Sequences, FiniteSets

CONSTANTS Owners,           \* worker identities
          NTasks,           \* Tasks are numbered in identity order
          Priority,         \* Task -> priority, larger first
          Capabilities,
          Required,         \* Task -> the capabilities it requires
          MaxTime,          \* bound of the modelled clock
          MaxAttempts,      \* the attempt counter's largest value (u32::MAX)
          MAX_MESSAGES, MAX_TASK_ATTEMPT_BINDINGS,
          NoOwner

Tasks == 1 .. NTasks
Times == 0 .. MaxTime

ASSUME GraphAssumption ==
    /\ NTasks \in Nat /\ MaxTime \in Nat /\ MaxAttempts \in Nat /\ MAX_MESSAGES \in Nat
    /\ MAX_TASK_ATTEMPT_BINDINGS \in Nat
    /\ Priority \in [Tasks -> Int]
    /\ Required \in [Tasks -> SUBSET Capabilities]
    /\ NoOwner \notin Owners

VARIABLES
    deps,          \* Task -> its predecessors, fixed when the graph is created
    status,        \* Task -> lifecycle state
    lease,         \* Task -> current lease; NoLease unless Running
    attempts,      \* Task -> leases ever issued
    bindings,      \* governed attempts: [task, attempt, by]
    messages,      \* the graph's mailbox, in sequence order
    nextSequence,
    settledBy,     \* history: Task -> the attempt whose holder settled it, or 0
    received       \* history: Task -> the messages its worker has paged through

vars == << deps, status, lease, attempts, bindings, messages, nextSequence, settledBy,
           received >>
mailbox == << messages, nextSequence, received >>

Unsuccessful == {"Failed", "Cancelled", "Blocked"}
Terminal == Unsuccessful \cup {"Completed"}
States == Terminal \cup {"Pending", "Running"}

Leases == [owner : Owners, attempt : Nat, expires : Nat]
NoLease == [owner |-> NoOwner, attempt |-> 0, expires |-> 0]

\* validate_acyclic: every set of Tasks has one that depends on none of the others.
ValidateAcyclic(d) ==
    \A S \in SUBSET Tasks : S # {} => \E t \in S : d[t] \cap S = {}

\* TaskGraph::new.
Init ==
    /\ deps \in {d \in [Tasks -> SUBSET Tasks] : ValidateAcyclic(d)}
    /\ status = [t \in Tasks |-> "Pending"]
    /\ lease = [t \in Tasks |-> NoLease]
    /\ attempts = [t \in Tasks |-> 0]
    /\ bindings = {}
    /\ messages = << >> /\ nextSequence = 1
    /\ settledBy = [t \in Tasks |-> 0]
    /\ received = [t \in Tasks |-> << >>]

----------------------------------------------------------------------------
(* Dependencies.                                                            *)

DepsCompleted(t) == \A d \in deps[t] : status[d] = "Completed"

Expired(now) == {t \in Tasks : status[t] = "Running" /\ lease[t].expires <= now}

\* A faulty BlockedMutations: only the direct dependents of a failure are blocked.
BlockedMutationsDirect(overrides, additional) ==
    LET failed == {t \in Tasks : status[t] \in Unsuccessful} \cup additional
    IN  {t \in Tasks \ failed : /\ status[t] = "Pending" \/ t \in overrides
                                /\ deps[t] \cap failed # {}}

\* A faulty BlockedMutations: a failure blocks every waiting Task.
BlockedMutationsAll(overrides, additional) ==
    LET failed == {t \in Tasks : status[t] \in Unsuccessful} \cup additional
    IN  IF failed = {} THEN {}
        ELSE {t \in Tasks \ failed : status[t] = "Pending" \/ t \in overrides}

\* blocked_mutations: the least set of waiting Tasks that is closed under "depends
\* on an unsuccessful Task or on one of the set", which the loop computes by rounds.
BlockedMutations(overrides, additional) ==
    LET failed  == {t \in Tasks : status[t] \in Unsuccessful} \cup additional
        waiting == {t \in Tasks \ failed : status[t] = "Pending" \/ t \in overrides}
        Closed(S) == \A t \in waiting : deps[t] \cap (failed \cup S) # {} => t \in S
    IN  {t \in waiting : \A S \in SUBSET waiting : Closed(S) => t \in S}

----------------------------------------------------------------------------
(* Claiming.                                                                *)

Ready(now, blocked, caps) ==
    {t \in Tasks \ blocked :
        /\ status[t] = "Pending" \/ t \in Expired(now)
        /\ Required[t] \subseteq caps
        /\ DepsCompleted(t)}

Before(t, u) == Priority[t] > Priority[u] \/ (Priority[t] = Priority[u] /\ t < u)

\* The first Tasks in claim order: larger priority first, then identity.
Selected(ready, maximum) ==
    {t \in ready : Cardinality({u \in ready : Before(u, t)}) < maximum}

\* A ready Task whose attempt counter is exhausted refuses the whole claim.
AttemptsLeft(ready) == \A t \in ready : attempts[t] < MaxAttempts

\* A faulty MayClaim: an ungoverned worker may retry a governed Task.
MayClaimUngoverned(selected, governed) == TRUE

\* A governed Task is never retried without an execution binding.
MayClaim(selected, governed) ==
    governed \/ \A b \in bindings : b.task \notin selected

NewBindings(selected, owner, governed) ==
    IF governed
    THEN {[task |-> t, attempt |-> attempts[t] + 1, by |-> owner] : t \in selected}
    ELSE {}

\* claim_ready_governed: expired leases are released, blocked dependents settled and
\* the first ready Tasks leased, in one mutation of the graph.
ClaimReady(owner, now, duration, maximum, governed, caps) ==
    LET blocked  == BlockedMutations(Expired(now), {})
        ready    == Ready(now, blocked, caps)
        selected == Selected(ready, maximum)
        released == Expired(now) \ (selected \cup blocked)
    IN  /\ AttemptsLeft(ready)
        /\ MayClaim(selected, governed)
        /\ governed => Cardinality(bindings) + Cardinality(selected)
                          <= MAX_TASK_ATTEMPT_BINDINGS
        /\ blocked \cup released \cup selected # {}
        /\ status' = [t \in Tasks |-> IF t \in selected THEN "Running"
                                      ELSE IF t \in blocked THEN "Blocked"
                                      ELSE IF t \in released THEN "Pending"
                                      ELSE status[t]]
        /\ lease' = [t \in Tasks |->
                       IF t \in selected
                       THEN [owner |-> owner, attempt |-> attempts[t] + 1,
                             expires |-> now + duration]
                       ELSE IF t \in blocked \cup released THEN NoLease
                       ELSE lease[t]]
        /\ attempts' = [t \in Tasks |-> IF t \in selected THEN attempts[t] + 1
                                        ELSE attempts[t]]
        /\ bindings' = bindings \cup NewBindings(selected, owner, governed)
        /\ UNCHANGED << deps, mailbox, settledBy >>

----------------------------------------------------------------------------
(* Settling.                                                                *)

CurrentLease(t, attempt, now) ==
    /\ status[t] = "Running"
    /\ lease[t].attempt = attempt
    /\ lease[t].expires > now

\* The Task becomes `outcome`, and the Tasks that can no longer run are blocked.
SettledAs(t, outcome, attempt, blocked) ==
    /\ status' = [u \in Tasks |-> IF u = t THEN outcome
                                  ELSE IF u \in blocked THEN "Blocked" ELSE status[u]]
    /\ lease' = [u \in Tasks |-> IF u \in {t} \cup blocked THEN NoLease ELSE lease[u]]
    /\ settledBy' = [settledBy EXCEPT ![t] = attempt]
    /\ UNCHANGED << deps, attempts, bindings, mailbox >>

Heartbeat(t, attempt, now, expires) ==
    /\ CurrentLease(t, attempt, now)
    /\ expires > now /\ expires > lease[t].expires
    /\ lease' = [lease EXCEPT ![t].expires = expires]
    /\ UNCHANGED << deps, status, attempts, bindings, mailbox, settledBy >>

Complete(t, attempt, now) ==
    /\ CurrentLease(t, attempt, now)
    /\ SettledAs(t, "Completed", attempt, {})

Fail(t, attempt, now) ==
    /\ CurrentLease(t, attempt, now)
    /\ SettledAs(t, "Failed", attempt, BlockedMutations({}, {t}))

Cancel(t) ==
    /\ status[t] \notin Terminal
    /\ SettledAs(t, "Cancelled", 0, BlockedMutations({}, {t}))

ReleaseExpired(now) ==
    /\ Expired(now) # {}
    /\ status' = [t \in Tasks |-> IF t \in Expired(now) THEN "Pending" ELSE status[t]]
    /\ lease' = [t \in Tasks |-> IF t \in Expired(now) THEN NoLease ELSE lease[t]]
    /\ UNCHANGED << deps, attempts, bindings, mailbox, settledBy >>

SendMessage(from, to) ==
    /\ Len(messages) < MAX_MESSAGES
    /\ messages' = Append(messages, [sequence |-> nextSequence, from |-> from, to |-> to])
    /\ nextSequence' = nextSequence + 1
    /\ UNCHANGED << deps, status, lease, attempts, bindings, settledBy, received >>

Message == [sequence : Nat, from : Tasks, to : Tasks]

\* iter().filter(): the members of s that are in S, in their order.
Select(s, S) ==
    LET f[i \in 0 .. Len(s)] ==
          IF i = 0 THEN << >>
          ELSE IF s[i] \in S THEN Append(f[i - 1], s[i]) ELSE f[i - 1]
    IN  f[Len(s)]

\* messages_for: a Task's inbox in sequence order.
MessagesFor(t) == Select(messages, {m \in Message : m.to = t})

\* A faulty PageAfter: the message at the cursor is delivered again.
PageAfterInclusive(t, after) == Select(MessagesFor(t), {m \in Message : m.sequence >= after})

PageAfter(t, after) == Select(MessagesFor(t), {m \in Message : m.sequence > after})

\* messages_page_for, read by a worker that continues from the last sequence it has:
\* a page is cut by its item limit or, earlier but never before its first message, by
\* its byte limit.
ReadPage(t, size) ==
    LET cursor == IF received[t] = << >> THEN 0
                  ELSE received[t][Len(received[t])].sequence
        rest   == PageAfter(t, cursor)
    IN  /\ size \in 1 .. Len(rest)
        /\ received' = [received EXCEPT ![t] = @ \o SubSeq(rest, 1, size)]
        /\ UNCHANGED << deps, status, lease, attempts, bindings, messages, nextSequence,
                        settledBy >>

----------------------------------------------------------------------------
Claim ==
    \E owner \in Owners, now \in Times, duration \in 1 .. MaxTime, maximum \in 1 .. NTasks,
       governed \in BOOLEAN, caps \in SUBSET Capabilities :
        ClaimReady(owner, now, duration, maximum, governed, caps)

Settle ==
    \E t \in Tasks, attempt \in 1 .. MaxAttempts, now \in Times :
        \/ \E expires \in 1 .. 2 * MaxTime : Heartbeat(t, attempt, now, expires)
        \/ Complete(t, attempt, now)
        \/ Fail(t, attempt, now)

Administer ==
    \/ \E t \in Tasks : Cancel(t)
    \/ \E now \in Times : ReleaseExpired(now)

Communicate ==
    \/ \E from, to \in Tasks : SendMessage(from, to)
    \/ \E t \in Tasks, size \in 1 .. MAX_MESSAGES : ReadPage(t, size)

Next == Claim \/ Settle \/ Administer \/ Communicate

Spec == Init /\ [][Next]_vars

----------------------------------------------------------------------------
(* Properties.                                                              *)

\* The Tasks have their types, and a lease exists exactly while its Task runs.
TasksTypeOK ==
    /\ deps \in [Tasks -> SUBSET Tasks] /\ ValidateAcyclic(deps)
    /\ status \in [Tasks -> States]
    /\ lease \in [Tasks -> Leases \cup {NoLease}]
    /\ attempts \in [Tasks -> 0 .. MaxAttempts]
    /\ \A t \in Tasks : status[t] = "Running" <=> lease[t] # NoLease
    /\ bindings \subseteq [task : Tasks, attempt : Nat, by : Owners]
    /\ settledBy \in [Tasks -> Nat]

\* The graph has its type: its Tasks, as TaskRecord and TaskLease describe them, with
\* an attempt counter that never passes its width, and its mailbox.
TypeOK ==
    /\ TasksTypeOK
    /\ messages \in Seq(Message)
    /\ nextSequence \in Nat
    /\ received \in [Tasks -> Seq(Message)]

\* No Task runs, or has completed, before every Task it depends on has completed.
DependenciesFirst ==
    \A t \in Tasks : status[t] \in {"Running", "Completed"} => DepsCompleted(t)

\* Blocking is exact: a waiting Task has no unsuccessful predecessor, and a blocked
\* Task has one, however long the chain a failure or a cancellation travels.
BlockedExactly ==
    \A t \in Tasks :
        /\ status[t] \in {"Pending", "Running"} =>
              \A d \in deps[t] : status[d] \notin Unsuccessful
        /\ status[t] = "Blocked" => \E d \in deps[t] : status[d] \in Unsuccessful

IsTerminal == \A t \in Tasks : status[t] \in Terminal

\* The graph never gets stuck: unless every Task is settled, one is running or one
\* is ready for a worker that has its capabilities.
NeverStuck ==
    IsTerminal \/ \E t \in Tasks : \/ status[t] = "Running"
                                   \/ status[t] = "Pending" /\ DepsCompleted(t)

Bound(t, n) == \E b \in bindings : b.task = t /\ b.attempt = n

\* What validate_integrity demands of a stored graph about attempts: the running
\* lease carries the Task's last attempt, and once one attempt of a Task is governed
\* every later one is, the running one with its owner.
AttemptsGoverned ==
    /\ \A t \in Tasks : status[t] = "Running" =>
          lease[t].attempt = attempts[t] /\ attempts[t] > 0
    /\ \A b \in bindings :
          /\ b.attempt \in 1 .. attempts[b.task]
          /\ \A n \in b.attempt .. attempts[b.task] : Bound(b.task, n)
          /\ \A c \in bindings : (b.task = c.task /\ b.attempt = c.attempt) => b = c
          /\ status[b.task] = "Running" =>
                [task |-> b.task, attempt |-> attempts[b.task],
                 by |-> lease[b.task].owner] \in bindings

\* A settled Task stays as it is: a late worker, a cancellation or an expired lease
\* never changes its outcome.
TerminalIsFinal ==
    [][\A t \in Tasks : status[t] \in Terminal => status'[t] = status[t]]_vars

\* Stale workers are fenced: a completed or failed Task was settled by the holder of
\* its last attempt, never by one whose lease had been reissued.
LastAttemptSettles ==
    \A t \in Tasks : status[t] \in {"Completed", "Failed"} =>
        settledBy[t] = attempts[t] /\ attempts[t] > 0

\* Paging through an inbox loses, repeats and reorders nothing: what a worker has read
\* is a prefix of the messages sent to its Task.
InboxInOrder ==
    /\ \A i \in DOMAIN messages : messages[i].sequence = i
    /\ \A t \in Tasks :
          /\ Len(received[t]) <= Len(MessagesFor(t))
          /\ received[t] = SubSeq(MessagesFor(t), 1, Len(received[t]))
============================================================================
