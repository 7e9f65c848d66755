----------------------------- MODULE TaskRunner -----------------------------
(***************************************************************************)
(* Orchestrators (src/orchestration/runner.rs) that execute one Task Graph *)
(* held by a revisioned coordinator (src/orchestration/coordinator.rs):    *)
(* the scheduling loop with its load, claim, select and settle steps, the  *)
(* workers it spawns, their workspaces and their mailbox.                  *)
(*                                                                         *)
(* A compare-and-swap succeeds only on the revision that was loaded, so a  *)
(* mutation is computed on the stored graph when it commits, with the time *)
(* that was read when it was loaded.  Orchestrators may be slow anywhere;  *)
(* the timers of a worker fire on time, which Tick's guard expresses.      *)
(***************************************************************************)
EXTENDS TaskGraph

CONSTANTS
    Governed,                \* [Owners -> BOOLEAN]: has an execution binding
    WorkerCapabilities,      \* [Owners -> SUBSET Capabilities]
    MaxConcurrency, TaskTimeout, LeaseDuration,
    PreparationDrainGrace, ReleaseTimeout, CleanupBudget, CancellationDrainGrace,
    MAX_CAS_ATTEMPTS,
    CommitLatency,           \* how long a claim's compare-and-swap may take
    Prompt,                  \* orchestrators step before time passes
    Stoppable,               \* orchestrators whose host may cancel the run
    Cancellable              \* Tasks an administrator may cancel

\* with_timing refuses any other lease duration.
ASSUME TimingAssumption ==
    /\ PreparationDrainGrace + ReleaseTimeout <= CleanupBudget
    /\ CleanupBudget <= CancellationDrainGrace
    /\ LeaseDuration > TaskTimeout + CleanupBudget

ASSUME RunnerAssumption ==
    /\ {MaxConcurrency, TaskTimeout, LeaseDuration, PreparationDrainGrace, ReleaseTimeout,
        CleanupBudget, CancellationDrainGrace, CommitLatency, MAX_CAS_ATTEMPTS} \subseteq Nat
    /\ LeaseDuration <= MaxTime
    /\ Governed \in [Owners -> BOOLEAN]
    /\ WorkerCapabilities \in [Owners -> SUBSET Capabilities]
    /\ Stoppable \subseteq Owners /\ Cancellable \subseteq Tasks

\* What the code leaves to its host: the time between reading the clock for a claim and
\* committing it stays within the slack of the lease duration.
ASSUME LatencyAssumption == CommitLatency + TaskTimeout + CleanupBudget < LeaseDuration

VARIABLES
    now, revision,
    run,           \* [Owners -> the state of run()]
    token,         \* [Owners -> [Tasks -> attempt]]: worker_cancellations
    worker         \* [Claims -> the state of execute_claim]

Claims == Tasks \X (1 .. MaxAttempts)
runnerVars == << vars, now, revision, run, token, worker >>

Active == {"preparing", "draining", "executing", "releasing"}
Outcomes == {"Completed", "Failed", "TimedOut", "Cancelled"}
NoWorker == [by |-> NoOwner, phase |-> "none", due |-> 0, cancelled |-> FALSE,
             outcome |-> "Failed", workspace |-> "none", sending |-> 0]
NoClaim == << 0, 0 >>

RunnerInit ==
    /\ Init
    /\ now = 0 /\ revision = 1
    /\ run = [o \in Owners |-> [pc |-> "top", stop |-> FALSE, rev |-> 0, at |-> 0,
                                tries |-> 0, claim |-> NoClaim]]
    /\ token = [o \in Owners |-> [t \in Tasks |-> 0]]
    /\ worker = [c \in Claims |-> NoWorker]

----------------------------------------------------------------------------
(* The coordinator and the sets of workers.                                 *)

\* compare_and_swap_as, once its revision matches.
Committed == revision' = revision + 1

ClaimIsCurrent(c, at) == CurrentLease(c[1], c[2], at)

\* The claims of an orchestrator whose worker has not been joined.
Held(o) == {c \in Claims : worker[c].by = o /\ worker[c].phase \in Active \cup {"ended"}}

\* The workers whose cancellation token is stored for one of the Tasks.
Signalled(o, tasks) ==
    [c \in Claims |->
        IF worker[c].by = o /\ c[1] \in tasks /\ token[o][c[1]] = c[2]
        THEN [worker[c] EXCEPT !.cancelled = TRUE] ELSE worker[c]]

\* The JoinSet is aborted or dropped: what still runs never reaches its release.
Dropped(o) ==
    [c \in Claims |->
        IF c \in Held(o)
        THEN [worker[c] EXCEPT !.phase = IF @ = "ended" THEN "joined" ELSE "aborted"]
        ELSE worker[c]]

Goto(o, pc) == run' = [run EXCEPT ![o].pc = pc, ![o].tries = 0]

\* run() returns an error with `?`, or with nothing left to wait for.
Return(o) ==
    /\ Goto(o, "returned")
    /\ worker' = Dropped(o)
    /\ UNCHANGED << vars, now, revision, token >>

\* cancel_workers.
CancelWorkers(o) ==
    /\ run' = [run EXCEPT ![o].pc = "drain", ![o].at = now + CancellationDrainGrace]
    /\ worker' = Signalled(o, Tasks)
    /\ UNCHANGED << vars, now, revision, token >>

Drained(o) ==
    /\ run[o].pc = "drain"
    /\ (\A c \in Held(o) : worker[c].phase = "ended") \/ now >= run[o].at
    /\ Return(o)

\* A compare-and-swap lost its race; the bounded retry window loads again.
Conflict(o, pc) ==
    /\ run[o].rev # revision
    /\ IF run[o].tries + 1 < MAX_CAS_ATTEMPTS
       THEN /\ run' = [run EXCEPT ![o].pc = pc, ![o].tries = @ + 1]
            /\ UNCHANGED << vars, now, revision, token, worker >>
       ELSE Return(o)

----------------------------------------------------------------------------
(* run(): the top of the loop.                                              *)

Fenced(o) == {c[1] : c \in {d \in Held(o) : ~ClaimIsCurrent(d, now)}}

Available(o) == MaxConcurrency - Cardinality(Held(o))

LoadGraph(o) ==
    /\ run[o].pc = "top"
    /\ IF run[o].stop \/ IsTerminal
       THEN CancelWorkers(o)
       ELSE /\ Goto(o, IF Available(o) > 0 THEN "claim" ELSE "select")
            /\ worker' = Signalled(o, Fenced(o))
            /\ UNCHANGED << vars, now, revision, token >>

----------------------------------------------------------------------------
(* claim_available and spawn_claim.                                         *)

ReadyFor(o, at) == Ready(at, BlockedMutations(Expired(at), {}), WorkerCapabilities[o])
SelectedFor(o, at) == Selected(ReadyFor(o, at), Available(o))

ClaimRefused(o) ==
    \/ ~AttemptsLeft(ReadyFor(o, now))
    \/ ~MayClaim(SelectedFor(o, now), Governed[o])
    \/ /\ Governed[o]
       /\ Cardinality(bindings) + Cardinality(SelectedFor(o, now)) > MAX_TASK_ATTEMPT_BINDINGS

ClaimChanges(o) ==
    BlockedMutations(Expired(now), {}) \cup Expired(now) \cup SelectedFor(o, now) # {}

LoadForClaim(o) ==
    /\ run[o].pc = "claim"
    /\ IF run[o].stop THEN Return(o)
       ELSE IF IsTerminal
       THEN Goto(o, "select") /\ UNCHANGED << vars, now, revision, token, worker >>
       ELSE IF ClaimRefused(o) THEN Return(o)
       ELSE /\ IF ClaimChanges(o)
               THEN run' = [run EXCEPT ![o].pc = "claimCAS", ![o].rev = revision,
                                       ![o].at = now]
               ELSE Goto(o, "select")
            /\ UNCHANGED << vars, now, revision, token, worker >>

\* execute_claim starts with the Task's deadline.
Spawned(o, claims) ==
    /\ worker' = [c \in Claims |->
                    IF c \in claims
                    THEN [NoWorker EXCEPT !.by = o, !.phase = "preparing",
                                          !.due = now + TaskTimeout]
                    ELSE worker[c]]
    /\ token' = [token EXCEPT ![o] = [t \in Tasks |->
                    IF \E c \in claims : c[1] = t THEN attempts'[t] ELSE @[t]]]

CommitClaim(o) ==
    /\ run[o].pc = "claimCAS" /\ run[o].rev = revision
    /\ LET at == run[o].at IN
       /\ ClaimReady(o, at, LeaseDuration, Available(o), Governed[o], WorkerCapabilities[o])
       /\ Spawned(o, {<< t, attempts[t] + 1 >> : t \in SelectedFor(o, at)})
    /\ Committed /\ Goto(o, "select")
    /\ UNCHANGED now

ClaimConflict(o) == run[o].pc = "claimCAS" /\ Conflict(o, "claim")

----------------------------------------------------------------------------
(* The select of the loop and settle.                                       *)

SelectStop(o) ==
    /\ run[o].pc = "select" /\ run[o].stop
    /\ IF Held(o) = {} THEN Return(o) ELSE CancelWorkers(o)

\* A faulty Join: the result of a worker that timed out is thrown away.
JoinForgetful(o, c) ==
    /\ run[o].pc = "select" /\ ~run[o].stop
    /\ c \in Held(o) /\ worker[c].phase = "ended"
    /\ worker' = [worker EXCEPT ![c].phase = "joined"]
    /\ token' = [token EXCEPT ![o][c[1]] = 0]
    /\ run' = [run EXCEPT ![o].pc = IF worker[c].outcome \in {"Cancelled", "TimedOut"}
                                    THEN "top" ELSE "settle",
                          ![o].claim = c, ![o].tries = 0]
    /\ UNCHANGED << vars, now, revision >>

\* join_next_with_id: the ended worker's claim and its Task's token are removed.
Join(o, c) ==
    /\ run[o].pc = "select" /\ ~run[o].stop
    /\ c \in Held(o) /\ worker[c].phase = "ended"
    /\ worker' = [worker EXCEPT ![c].phase = "joined"]
    /\ token' = [token EXCEPT ![o][c[1]] = 0]
    /\ run' = [run EXCEPT ![o].pc = IF worker[c].outcome = "Cancelled" THEN "top"
                                    ELSE "settle",
                          ![o].claim = c, ![o].tries = 0]
    /\ UNCHANGED << vars, now, revision >>

\* The poll interval passes; the biased select prefers a worker that has ended.
Poll(o) ==
    /\ run[o].pc = "select" /\ ~run[o].stop
    /\ \A c \in Held(o) : worker[c].phase # "ended"
    /\ Goto(o, "top")
    /\ UNCHANGED << vars, now, revision, token, worker >>

LoadForSettle(o) ==
    /\ run[o].pc = "settle"
    /\ IF run[o].stop THEN Return(o)
       ELSE /\ IF ClaimIsCurrent(run[o].claim, now)
               THEN run' = [run EXCEPT ![o].pc = "settleCAS", ![o].rev = revision,
                                       ![o].at = now]
               ELSE Goto(o, "top")
            /\ UNCHANGED << vars, now, revision, token, worker >>

\* A faulty CommitSettle: the graph is overwritten whatever happened since it was loaded.
CommitSettleBlind(o) ==
    /\ run[o].pc = "settleCAS"
    /\ LET c == run[o].claim IN
       SettledAs(c[1], IF worker[c].outcome = "Completed" THEN "Completed" ELSE "Failed",
                 c[2], {})
    /\ Committed /\ Goto(o, "top")
    /\ UNCHANGED << now, token, worker >>

\* An outcome that the graph refuses as a completion is settled as a failure.
CommitSettle(o) ==
    /\ run[o].pc = "settleCAS" /\ run[o].rev = revision
    /\ LET c == run[o].claim IN
       IF worker[c].outcome = "Completed"
       THEN Complete(c[1], c[2], run[o].at)
       ELSE Fail(c[1], c[2], run[o].at)
    /\ Committed /\ Goto(o, "top")
    /\ UNCHANGED << now, token, worker >>

SettleConflict(o) == run[o].pc = "settleCAS" /\ Conflict(o, "settle")

----------------------------------------------------------------------------
(* execute_claim.                                                           *)

Becomes(c, phase, due, outcome, workspace) ==
    /\ worker' = [worker EXCEPT ![c].phase = phase, ![c].due = due,
                                ![c].outcome = outcome, ![c].workspace = workspace]
    /\ UNCHANGED << vars, now, revision, run, token >>

\* Whether the biased select of a worker still waits for its capability's result.
Waiting(c) == ~worker[c].cancelled /\ now < worker[c].due

Interrupted(c) ==
    IF worker[c].cancelled THEN "Cancelled" ELSE "TimedOut"

\* prepare_workspace returns: a valid lease, an invalid one, or an error.
Prepared(c) ==
    /\ worker[c].phase = "preparing" /\ Waiting(c)
    /\ \/ Becomes(c, "executing", worker[c].due, "Failed", "held")
       \/ Becomes(c, "releasing", now + ReleaseTimeout, "Failed", "held")
       \/ Becomes(c, "ended", 0, "Failed", "none")

PreparationInterrupted(c) ==
    /\ worker[c].phase = "preparing" /\ ~Waiting(c)
    /\ Becomes(c, "draining", now + PreparationDrainGrace, Interrupted(c), "none")

\* The preparation settles within its grace, with a lease or without one.
PreparationDrained(c) ==
    /\ worker[c].phase = "draining"
    /\ \/ Becomes(c, "releasing", now + ReleaseTimeout, worker[c].outcome, "held")
       \/ Becomes(c, "ended", 0, worker[c].outcome, "none")

Executed(c) ==
    /\ worker[c].phase = "executing"
    /\ \E outcome \in IF Waiting(c) THEN {"Completed", "Failed"} ELSE {Interrupted(c)} :
          Becomes(c, "releasing", now + ReleaseTimeout, outcome, "held")

\* A faulty MergedOutcome: a cleanup failure does not change the result.
MergedOutcomeIgnored(outcome) == outcome

\* merge_workspace_release_failure.
MergedOutcome(outcome) == IF outcome = "Cancelled" THEN outcome ELSE "Failed"

\* A faulty Released: a cleanup that fails is tried again with a new deadline.
ReleasedRetrying(c) ==
    /\ worker[c].phase = "releasing"
    /\ \/ Becomes(c, "ended", 0, worker[c].outcome, "released")
       \/ Becomes(c, "releasing", now + ReleaseTimeout, worker[c].outcome, "held")

Released(c) ==
    /\ worker[c].phase = "releasing"
    /\ \/ Becomes(c, "ended", 0, worker[c].outcome, "released")
       \/ Becomes(c, "ended", 0, MergedOutcome(worker[c].outcome), "failed")

----------------------------------------------------------------------------
(* TaskMailbox::send, from the executor.                                    *)

SendLoad(c) ==
    /\ worker[c].phase = "executing" /\ ~worker[c].cancelled /\ worker[c].sending = 0
    /\ ClaimIsCurrent(c, now) /\ Len(messages) < MAX_MESSAGES
    /\ worker' = [worker EXCEPT ![c].sending = revision]
    /\ UNCHANGED << vars, now, revision, run, token >>

\* A faulty SendCommit: the message is appended without comparing the revision.
SendCommitBlind(c, to) ==
    /\ worker[c].sending # 0
    /\ worker' = [worker EXCEPT ![c].sending = 0]
    /\ SendMessage(c[1], to) /\ Committed
    /\ UNCHANGED << now, run, token >>

\* The compare-and-swap of a send may outlive its executor when it was detached.
SendCommit(c, to) ==
    /\ worker[c].sending # 0
    /\ worker' = [worker EXCEPT ![c].sending = 0]
    /\ IF worker[c].sending = revision
       THEN SendMessage(c[1], to) /\ Committed
       ELSE UNCHANGED << vars, revision >>
    /\ UNCHANGED << now, run, token >>

----------------------------------------------------------------------------
(* The environment.                                                         *)

StopRun(o) ==
    /\ ~run[o].stop /\ run[o].pc # "returned"
    /\ run' = [run EXCEPT ![o].stop = TRUE]
    /\ UNCHANGED << vars, now, revision, token, worker >>

CancelTask(t) == Cancel(t) /\ Committed /\ UNCHANGED << now, run, token, worker >>

\* The orchestrator has nothing to do before a timer or a worker wakes it.
Asleep(o) ==
    \/ run[o].pc \in {"returned", "drain"}
    \/ run[o].pc = "select" /\ \A c \in Held(o) : worker[c].phase # "ended"

Tick ==
    /\ now < MaxTime
    /\ \A c \in Claims : worker[c].phase \in Active => now < worker[c].due
    /\ \A o \in Owners :
          /\ run[o].pc = "claimCAS" => now < run[o].at + CommitLatency
          /\ run[o].pc = "drain" => now < run[o].at
          /\ Prompt => Asleep(o)
    /\ now' = now + 1
    /\ UNCHANGED << vars, revision, run, token, worker >>

OrchestratorStep(o) ==
    \/ LoadGraph(o) \/ LoadForClaim(o) \/ CommitClaim(o) \/ ClaimConflict(o)
    \/ SelectStop(o) \/ (\E c \in Claims : Join(o, c)) \/ Poll(o)
    \/ LoadForSettle(o) \/ CommitSettle(o) \/ SettleConflict(o) \/ Drained(o)

WorkerStep(c) ==
    \/ Prepared(c) \/ PreparationInterrupted(c) \/ PreparationDrained(c)
    \/ Executed(c) \/ Released(c)

RunnerNext ==
    \/ \E o \in Owners : OrchestratorStep(o)
    \/ \E c \in Claims : WorkerStep(c) \/ SendLoad(c) \/ \E to \in Tasks : SendCommit(c, to)
    \/ \E o \in Stoppable : StopRun(o)
    \/ \E t \in Cancellable : CancelTask(t)
    \/ Tick

RunnerSpec == RunnerInit /\ [][RunnerNext]_runnerVars

\* Orchestrators and workers are tasks of a running executor, and polling sleeps.
FairRunnerSpec ==
    /\ RunnerSpec
    /\ \A o \in Owners : WF_runnerVars(OrchestratorStep(o))
    /\ \A c \in Claims : WF_runnerVars(WorkerStep(c))
    /\ SF_runnerVars(Tick)

----------------------------------------------------------------------------
(* Properties.                                                              *)

\* Orchestrators change the stored graph only by the operations of the Task Graph, each
\* computed on the revision it replaces.  This is Spec with the stuttering step first,
\* where TLC finds it before it tries Next.
ImplementsGraph == Init /\ [][UNCHANGED vars \/ Next]_vars

\* A Task is executed by one worker at a time: an attempt's preparation, execution and
\* cleanup end before its lease can be reissued, which is what with_timing's bound on
\* the lease duration is for.
ExclusiveExecution ==
    \A c, d \in Claims : (c[1] = d[1] /\ c # d) =>
        ~(worker[c].phase \in Active /\ worker[d].phase \in Active)

\* A Task is recorded complete only after the workspace of the attempt that completed
\* it has been released; a known cleanup failure never ends in success.
CleanBeforeComplete ==
    \A t \in Tasks : status[t] = "Completed" =>
        worker[<< t, settledBy[t] >>].workspace = "released"

\* A message is published only while the sending attempt holds the Task's lease in the
\* stored graph, although its executor may have ended in the meantime.
MailboxFenced ==
    [][\A c \in Claims :
          (worker[c].sending # 0 /\ worker'[c].sending = 0 /\ messages' # messages) =>
             status[c[1]] = "Running" /\ lease[c[1]].attempt = c[2]]_runnerVars

\* Prompt orchestrators settle every Task and return, whichever of them wins its claims.
Terminates == <>(IsTerminal /\ \A o \in Owners : run[o].pc = "returned")

\* A pass of the loop cancels every local worker whose claim the stored graph no longer
\* holds ("It cancels a local executor when another coordinator mutation fences its
\* claim").
FencedAreCancelled ==
    [][\A o \in Owners, c \in Claims :
          (/\ run[o].pc = "top" /\ run'[o].pc # "top"
           /\ c \in Held(o) /\ worker[c].phase \in Active
           /\ ~ClaimIsCurrent(c, now)) => worker'[c].cancelled]_runnerVars
=============================================================================
