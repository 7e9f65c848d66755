# Verification of Y-Harness

Y-Harness is a durable agent harness. Its state lives in aggregates that are
changed by commands under a revision compare-and-swap; commands are idempotent,
work is owned through fenced leases, and nothing in the core runs on its own:
hosts call bounded sweeps. This directory models the parts where that discipline
is hardest to test, checks the models with TLC and proves their safety properties
with TLAPS.

## The system and what is modelled

| Part | Source (under `src/`) | Module | Theorems |
|---|---|---|---|
| Effect aggregate | `effect/mod.rs` | `Effect` | |
| Effect coordinator | `effect/coordinator.rs` | `EffectLedger` | `EffectLedgerProofs` |
| Executor, Reconciler, lease expiry | `effect/executor.rs`, `effect/reconciler.rs`, `temporal/mod.rs` | `EffectExecution` | `EffectExecutionProofs` |
| its mapping to the ledger | | `EffectRefinement` | `EffectExecutionProofs` |
| Dispatch governor | `effect/governor.rs` | `EffectGovernor` | `EffectGovernorProofs` |
| Task Graph | `orchestration/mod.rs` | `TaskGraph` | `TaskRunnerProofs` |
| Orchestrator, workers, mailbox, compare-and-swap | `orchestration/runner.rs`, `coordinator.rs`, `workspace.rs` | `TaskRunner` | `TaskRunnerProofs` |
| Workflow Runs, store and engine | `workflow/` | `Workflow` | `TemporalProofs` |
| Human Handoff cases and queue | `human_handoff/` | `HumanHandoff` | `TemporalProofs` |
| Temporal Driver | `temporal/mod.rs` | `TemporalDriver` | `TemporalProofs` |
| State journal, wait row, cached heads | `state/mod.rs`, `state/wait_due.rs` | `Journal` | `AgentLoopProofs` |
| Agent Loop with Approvals | `runtime/mod.rs`, `approval/mod.rs` | `AgentLoop` | `AgentStepProofs`, `AgentTurnProofs` |

The `MC*` modules and the `.cfg` files are the instances TLC checks.

How the parts interact. A client records an external side effect as an Effect. An
Executor sweep claims it under a lease, asks the governor and enters a connector;
the answer, or the lack of one, settles the Effect. The Temporal Driver turns an
expired lease into `unknown`, and the Reconciler looks an unknown attempt up.
Orchestrators claim ready Tasks of a graph, execute them in a workspace and settle
them through a revision compare-and-swap. A Workflow Run waits for signals and
timers and completes only after the Tasks of its graph; a Handoff case is claimed
by an operator under a lease; the Temporal Driver wakes the one and expires the
other. The Agent Loop runs the Turns of a Thread: a Tool call that needs an
Approval suspends the Turn in a journalled wait, any process may resume it, and a
sweep settles waits that are due.

## Correspondence

*Effects.* `effects[k]` is a stored aggregate: status and transition history.
`Effect` has one operator per command kind and the replay of a stored history
(`Projection`); `CreateAs` and `ApplyAs` are the coordinator's transactions. In
`EffectExecution` each await point of `execute_prepared` and `reconcile_prepared`
is an action, so any other process, the clock and the target may move in between,
and a worker may stop anywhere (`Stop`). A worker names its sweep's cycle when it
scans: two workers may run the same cycle, or rival ones. The target is external:
`Land` and `Drop` decide a request, in either order with the worker's own timeout.

*Governor.* Each store operation is one transaction and takes any clock reading,
since callers read their clocks before they reach the store. `grants` is a history
variable: one record per dispatch let through, also when an identity is admitted
again after retention pruned its first admission.

*Task Graph.* A lease is identified by its Task and attempt. `claim_ready` with its
maintenance (expiry, blocking, selection by priority) is one action. `settledBy`
and `received` are history variables.

*Orchestrator.* `run[o]` is the program counter of `run()`, `worker[c]` the state of
`execute_claim` for claim `c`, `token` the `worker_cancellations` map. A load and its
compare-and-swap are two actions; the clock is read at the load.

*Workflow and Handoff.* `runs[r]` and `cases[h]` are status and history, with the
revision as the length of the history. Guards, the settlement reserve and the
replay (`Projection`, `CaseProjection`) are those of the aggregates; the completion
of a Run reads the Task store in one step and commits in another. A tick of the
driver scans one page of each installed subsystem, fixes its commands and applies
them one by one at the scanned revisions; the cursor may be lost with the host.

*Journal and Agent Loop.* `journal` is the stream of one Thread, each event with the
projection replay makes of it; `row` is the live wait row, `heads` the head cache of
each process. An operation checks a projection (`Prepare`) and appends later
(`Commit`); the append may be answered, its answer lost and the event found, or
both lost. `actor[a].pc` is the place of a worker, the host or the sweeper in its
operation. The identity of a lifecycle event is derived from its command, so two
attempts of one command are one event; random identities never coincide. Both ways
of waiting for an Approval are modelled: `durable` and the older `blocking` one.

## Runs

| Run | Question |
|---|---|
| `effect_ledger` | any command from two actors at any time: retries need proof, leases fence, histories replay |
| `effect_rivals` | same or rival cycles on two hosts: the effect happens at most once, the ledger is true of the target, no lease is dispatched twice |
| `effect_liveness` | no Effect stays claimed or unknown; the processes implement `EffectLedger` |
| `effect_history_limit` | finding: at the transition limit a claimed Effect is never expired |
| `governor` | windows, circuit, probes, retention and capacity |
| `task_graph` | blocking, attempts and paged inboxes, in all 25 acyclic graphs of three Tasks |
| `task_runner` | one worker per Task at a time, completion after cleanup, a fenced mailbox |
| `task_runner_terminates` | prompt orchestrators settle the graph; they implement `TaskGraph` |
| `task_runner_fenced` | finding: a fenced worker may never be cancelled |
| `temporal` | Runs and cases under every command and two drivers: replay, reserves, completion, complete queues, waits and claims that end |
| `agent_loop` | the journal replays and agrees with its row and every cached head; a Tool is entered once and only when approved; one worker carries a Turn; waits end |
| `approval_resume` | finding: a Turn that can no longer be resumed |

Bounds. Two attempts suffice for a late answer of the first to meet the second;
two workers, hosts or orchestrators for every race, since each operation involves
one aggregate; times reach past one lease, window or retention, so that expiry and
pruning happen; transition limits are small enough that the reserves are used. The
governor run has one lane at a time (of four possible): two lanes share only pruning
and capacity, which the refused requests exercise. `task_graph` explores mail apart
from the rest (`MCMailApart`), with which it shares no variable. `temporal` and
`agent_loop` explore several small deployments side by side, each of which brings
another pair of actors together; one deployment of all of them is out of reach.
`CHECK_DEADLOCK FALSE` is set where the bounded clock, attempts or Turns leave
nothing to do at the end; `temporal` checks deadlock.

The two refinement properties are the abstract `Spec` with the stuttering disjunct
first, which TLC evaluates much faster and which means the same.

## Assumptions and fairness

- A connector sends nothing at or after `lease_expires_at_ms`; its `Applied` and
  `NotApplied` answers are authoritative; hosts share a trusted clock.
- Effect liveness: the host keeps calling the driver and the Reconciler, the clock
  advances, the target decides each request, and repeated lookups are at last
  answered. Executor workers get no fairness. The transition limit must leave room
  for every allowed attempt; the code's constants do not guarantee it, which is the
  first finding.
- Orchestrator timers fire on time (`Tick`'s guard). `with_timing` only makes the
  lease longer than timeout plus cleanup budget (`TimingAssumption`), so exclusive
  execution needs the delay between reading the clock and committing a claim to stay
  within the slack (`LatencyAssumption`). Store errors other than a lost
  compare-and-swap are left out.
- Orchestrator liveness: tasks of the async runtime are scheduled (weak fairness),
  time passes (strong fairness on `Tick`), orchestrators are prompt, and contention
  stays below `MAX_CAS_ATTEMPTS`.
- Temporal liveness: the hosts keep ticking some driver (weak fairness on
  `DriverStep`), and lose a cursor at most `MaxStops` times. Callers, operators and
  people owe nothing.
- Agent Loop liveness: every wait has an expiry, which comes, and the sweep goes on.
  Workers, people and the host's other calls owe nothing. One non-decreasing clock
  is shared; `close_wait_as` itself does not compare `closed_at_ms` with the time a
  wait was accepted.

## Proofs

Every theorem is for all values of the constants that satisfy the assumption of its
module: `EffectAssumption`, `LedgerAssumption`, `ExecutionAssumption`,
`GovernorAssumption`, `GraphAssumption`, `TimingAssumption`, `RunnerAssumption`,
`LatencyAssumption`, `WorkflowAssumption`, `HandoffAssumption`, `QueueAssumption`,
`DriverAssumption`, `EngineAssumption` and `ScenarioAssumption`. These say that counters,
priorities and times are natural numbers, that there are finitely many cases, that
absent values are none of the present ones, and what the code's own validation
requires; `LatencyAssumption` is the one that asks something of the host.

*Ledger.* Whether a retry is proven depends on how the status sums up the history,
so `LedgerInv` conjoins types, facts on each history (`AggregateOK`) and uniqueness
of keys. Retry, uncertainty, settlement and terminal safety follow.
`HistoryAlwaysValid` adds that the stored status is what the replay of the whole
history gives: replaying one more transition is one step of `ProjectTransition`
(`ProjectionAppend`), and that step agrees with the command that was accepted
(`ReplayAgrees`). `LeaseFenceAlways` needs the same history facts.

*Replay.* `Projection` is a recursive function. That it exists, and that a longer
history extends the replay of a shorter one, is shown by a least counterexample
(`LeastElement`, from the well-foundedness of the naturals). Workflow Runs, Handoff
cases and the inbox filter are treated in the same way.

*Execution.* `ExecInv` relates the worker, reconciler and driver states to the ledger
and the target: before a worker enters the connector nothing was sent under its
lease; once a lease is retired its expiry has come, so nothing more can be sent; a
reconciler looks up only retired leases, so what it learns stays true. From it
`LedgerIsTrue`, `AtMostOnce` and `EnteredOnce`; and `ExecutionImplementsLedger` shows
every step to be a step of `EffectLedger` or a stutter.

*Governor.* `LaneInv` relates a lane to the grants made on it and is shown to survive
`decide` and `apply_settlement` as functions on a lane; `AdmissionInv` relates a
retained request to its grant. `GovernorInv` lifts both to the store with pruning.

*Task Graph.* `LifecycleInv` (types, `DependenciesFirst`, `BlockedExactly`) is
inductive because blocking is the least set closed under failed dependencies;
`NeverStuck` follows from it by acyclicity. `AttemptInv` rests on it. `MailInv` has,
besides `InboxInOrder`, the order of every inbox: from it the last sequence number
read gives the place read up to, and what `messages_page_for` selects after that
number is exactly the rest of the inbox (`LaterIsRest`).

*Orchestrators.* `RunnerInv`: what an orchestrator remembers between load and commit is
still true when it is used; a running worker ends before its lease does or works for
a Task that is settled for good; a send keeps its revision only while the lease
holds. The runner implements `TaskGraph`, so that what is proved of the graph holds
of the one orchestrators share (`SharedGraphGuarantees`).

*Workflow, Handoff, Driver.* The reserves are inductive with the ordering and identity
facts of a history; `CompletionCovered` needs that a completed Task never leaves that
status between the engine's read and its commit. `RunAlwaysReplays` and
`CaseAlwaysReplays` state that `validate()` accepts every stored aggregate.
`QueueListedAlways` is for any page size: `comes_after` is a total order on the queued
cases (`QueueOrder`), what a reader has seen is always everything up to its cursor
(`Reading`), and a page adds a case while one is left (`PageAdvances`). Each tick
of the driver is a step of the stores or none, so all of it holds with the driver
running (`DrivenStoresSafe`).

*Journal.* `LoopInv` says what each prepared event has been checked against and that
only the row and the compare-and-swap stand between the check and the append. The
central lemma (`RowAcceptsOnlyReplayable`): an event that its operation checked and
that `projection_change` accepts over the row is one that replay accepts. It gives
`JournalReplays`, `RowMatchesJournal` and `HeadsTrue` for any number of processes.

*Executors of a Turn.* `SoleExecutor` and `ToolOnceApproved` rest on `LoopInv` and on
`TurnInv`, which adds what the journal's events say of each other (a wait is of one
Turn, and is started before it is accepted, claimed or closed), what each actor knows of
its wait at each of its steps, that one process at most holds the running Turn, and that
one about to enter a Tool holds an approved wait no Tool was entered for.
The hard steps are the appends: one lemma (`AppendTurn`) says what an append must bring
for `TurnInv` to survive it, and `CommitTurn` brings it from what the operation checked.
The invariants are in `AgentInvariants`; `AgentLoopProofs` has the journal and what an
append does to an execution, `AgentStepProofs` the steps that append nothing, and
`AgentTurnProofs` puts them together.
A worker stops holding its Turn when the start of its wait is journalled, not when it
hears of it, so a lost answer to that commit does no harm.

Only model-checked: the liveness properties (`ClaimEnds`, `UncertaintyEnds`,
`Terminates`, `DueWaitEnds`, `ExpiredClaimEnds`, `WaitEnds`), which are out of the
prover's reach. Every safety property of a passing run has a theorem.

## Findings

1. `effect_history_limit`: `apply` refuses every command at 4096 transitions,
   `ExpireLease` included, so a claimed Effect can stay claimed for ever.
2. `task_runner_fenced`: cancellation tokens are kept per Task. When a slow loop
   reclaims an expired Task before joining its previous, ended worker, the join
   removes the new worker's token.
3. `approval_resume`: the tombstone of a settled request is written before its decision
   is journalled. After a crash between the two, every resume of the Turn is refused.

No disagreement with a document, but visible in the models: a host cancellation
inside `claim_available` or `settle` returns from `run()` with `?` and aborts running
workers before they release their workspaces (`Dropped`); a process whose cached head
is older than another process's acceptance fails to append the result of a Tool that
has run; and a second wait of a Turn whose start conflicts leaves the Turn running
with an execution that can be neither resumed nor recovered.

## What is not modelled

The modules cover the coordination core, about eight per cent of the lines of a
repository that also holds adapters, transports, a terminal client, domain packs and
tools. `PROJECT.json` lists each part that is left out with the reason. Among them are
stateful ones: the Protocol server (admission, cancellation, shutdown), store
migrations, Completion contracts, the Domain-pack control plane; and of the State
store the snapshots, steering, the inbox-repair outbox, and forking or importing a
Thread. Of the Agent Loop, tool batches and capacity limits are left out. The governor
is not composed with the Executor.

In the modelled parts, payloads, digests, JSON, byte limits, artifacts and reports are
left out. Command identities are compared only for equality. Counters are capped by
named constants (`MaxTime`, `MaxAttempts`, `MAX_*`).
