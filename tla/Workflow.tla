------------------------------ MODULE Workflow ------------------------------
(***************************************************************************)
(* Durable Workflow Runs: the aggregate of src/workflow/mod.rs, the store   *)
(* of src/workflow/coordinator.rs and the engine of src/workflow/engine.rs, *)
(* which lets a Run complete only when every Task of its Graph has.         *)
(*                                                                          *)
(* A Run is a status derived from an immutable sequence of transitions.     *)
(* Names, texts and digests are left out; what the code compares is kept.   *)
(* A stored Run has one transition per revision, so its revision is the     *)
(* length of its history.                                                   *)
(***************************************************************************)
EXTENDS Integers, Sequences, FiniteSets

CONSTANTS
    RunIds,                        \* ordered: scans page through them
    WaitIds, SignalIds,
    Topics,                        \* (name, source) of a signal
    Definitions,                   \* <<version, digest>> of one definition name
    Tasks,                         \* the Tasks of the linked Graph
    MaxTime,
    MAX_WORKFLOW_WORK_TRANSITIONS  \* 4096 in the code

ASSUME WorkflowAssumption ==
    /\ RunIds \subseteq Nat \ {0}
    /\ WaitIds \subseteq Nat \ {0}
    /\ MAX_WORKFLOW_WORK_TRANSITIONS \in Nat \ {0}
    /\ MaxTime \in Nat \ {0}

\* Kept back so that a waiting Run can still be woken and then settled.
WORKFLOW_SETTLEMENT_TRANSITION_RESERVE == 2
MAX_WORKFLOW_TRANSITIONS ==
    MAX_WORKFLOW_WORK_TRANSITIONS + WORKFLOW_SETTLEMENT_TRANSITION_RESERVE

VARIABLES
    runs,        \* [RunIds -> Run or NoRun]
    graph,       \* what the engine reads of the Task Graph; NoGraph before it exists
    completing   \* completions that passed the engine's check: <<run, revision>>

workflowVars == << runs, graph, completing >>

Times == 1 .. MaxTime

-----------------------------------------------------------------------------
(* Commands and Runs.  `ms' is the due time of a wait (0: a signal wait     *)
(* without expiry), `ref' a signal, a definition or nothing.                *)

Never == 0
NoId == 0
NoTopic == ""
Nothing == << >>

WaitKinds == {"WaitForSignal", "WaitUntil", "ScheduleRetry"}
EndKinds == {"Complete", "Fail", "Cancel"}
CommandKinds == WaitKinds \cup EndKinds \cup
                {"DeliverSignal", "WakeDue", "MigrateDefinition"}

Command(id, kind, wait, ms, topic, ref) ==
    [id |-> id, kind |-> kind, wait |-> wait, ms |-> ms,
     topic |-> topic, ref |-> ref]

NoWait == [kind |-> "None", id |-> NoId, due |-> Never, topic |-> NoTopic]
Wait(cmd) == [kind |-> cmd.kind, id |-> cmd.wait, due |-> cmd.ms, topic |-> cmd.topic]

NoRun == [status |-> "Absent", wait |-> NoWait, definition |-> Nothing,
          transitions |-> << >>]

Exists(run) == run.status # "Absent"
Terminal == {"Completed", "Failed", "Cancelled"}

Revision(run) == Len(run.transitions)

Transition(cmd, now) == [command |-> cmd, at |-> now]

\* WorkflowRun::new: transition 1 and the status it creates.
NewRun(id, definition, now) ==
    [status |-> "Running", wait |-> NoWait, definition |-> definition,
     transitions |-> << Transition(Command(id, "Create", NoId, Never, NoTopic,
                                           definition), now) >>]

\* recognizes_command: an equal digest is a duplicate, a reused identity an error.
KnownId(run, id) ==
    \E i \in DOMAIN run.transitions : run.transitions[i].command.id = id
Recognizes(run, cmd) ==
    \E i \in DOMAIN run.transitions : run.transitions[i].command = cmd

Settles(kind) == kind \in EndKinds \cup {"DeliverSignal", "WakeDue"}

\* Faulty variant: settlements get the limit of ordinary work.
CapacityLeftNoReserve(n, kind) == n < MAX_WORKFLOW_WORK_TRANSITIONS

\* validate_transition_capacity
CapacityLeft(n, kind) ==
    /\ n < MAX_WORKFLOW_TRANSITIONS
    /\ Settles(kind) \/ n < MAX_WORKFLOW_WORK_TRANSITIONS

\* Faulty variant: an identity may name a second wait.
NewWaitIdAny(run, wait) == TRUE

\* ensure_new_wait_id
NewWaitId(run, wait) ==
    \A i \in DOMAIN run.transitions :
        LET c == run.transitions[i].command
        IN  c.kind \in WaitKinds => c.wait # wait

NewSignalId(run, signal) ==
    \A i \in DOMAIN run.transitions :
        LET c == run.transitions[i].command
        IN  c.kind = "DeliverSignal" => c.ref # signal

\* due_reason: the wait's boundary is reached.
IsDue(wait, now) == wait.due # Never /\ now >= wait.due

Newer(to, from) == to[1] > from[1] /\ to[2] # from[2]

-----------------------------------------------------------------------------
(* apply_kind                                                               *)

Accepts(run, cmd, now) ==
    CASE cmd.kind = "WaitForSignal" ->
           /\ run.status = "Running"
           /\ cmd.ms = Never \/ cmd.ms > now
           /\ NewWaitId(run, cmd.wait)
      [] cmd.kind \in {"WaitUntil", "ScheduleRetry"} ->
           /\ run.status = "Running"
           /\ cmd.ms > now
           /\ NewWaitId(run, cmd.wait)
      [] cmd.kind = "DeliverSignal" ->
           /\ NewSignalId(run, cmd.ref)
           /\ run.status = "Waiting"
           /\ run.wait.kind = "WaitForSignal"
           /\ run.wait.id = cmd.wait
           /\ run.wait.topic = cmd.topic
           /\ ~ IsDue(run.wait, now)
      [] cmd.kind = "WakeDue" ->
           /\ run.status = "Waiting"
           /\ run.wait.id = cmd.wait
           /\ IsDue(run.wait, now)
      [] cmd.kind = "MigrateDefinition" ->
           /\ run.status = "Waiting"
           /\ Newer(cmd.ref, run.definition)
      [] cmd.kind = "Complete" -> run.status = "Running"
      [] cmd.kind \in {"Fail", "Cancel"} -> run.status \notin Terminal

\* The status, wait and definition a transition leads to.
NextStatus(run, cmd) ==
    CASE cmd.kind \in WaitKinds -> "Waiting"
      [] cmd.kind \in {"DeliverSignal", "WakeDue"} -> "Running"
      [] cmd.kind = "MigrateDefinition" -> run.status
      [] cmd.kind = "Complete" -> "Completed"
      [] cmd.kind = "Fail" -> "Failed"
      [] cmd.kind = "Cancel" -> "Cancelled"

NextWait(run, cmd) ==
    CASE cmd.kind \in WaitKinds -> Wait(cmd)
      [] cmd.kind = "MigrateDefinition" -> run.wait
      [] OTHER -> NoWait

\* WorkflowRun::apply on a command that is not recognized.  Its closing call
\* of validate() never refuses: that is the invariant RunReplays.
CanApply(run, cmd, now) ==
    /\ CapacityLeft(Revision(run), cmd.kind)
    /\ now >= run.transitions[Revision(run)].at
    /\ Accepts(run, cmd, now)

AppliedTo(run, cmd, now) ==
    [status      |-> NextStatus(run, cmd),
     wait        |-> NextWait(run, cmd),
     definition  |-> IF cmd.kind = "MigrateDefinition" THEN cmd.ref ELSE run.definition,
     transitions |-> Append(run.transitions, Transition(cmd, now))]

-----------------------------------------------------------------------------
(* validate: the Run re-derived from its transitions on every load.         *)

Refused == [NoRun EXCEPT !.definition = << 0, "refused" >>]

\* Transition i replayed on the projection p of those before it.
ProjectTransition(tr, i, p) ==
    LET c  == tr[i].command
        ok ==
          CASE c.kind = "Create" -> i = 1
            [] c.kind \in WaitKinds ->
                 /\ p.status = "Running"
                 /\ c.kind # "WaitForSignal" => c.ms # Never
                 /\ \A j \in 1 .. i - 1 :
                      tr[j].command.kind \in WaitKinds => tr[j].command.wait # c.wait
            [] c.kind = "DeliverSignal" ->
                 /\ \A j \in 1 .. i - 1 :
                      tr[j].command.kind = "DeliverSignal" => tr[j].command.ref # c.ref
                 /\ p.status = "Waiting"
                 /\ p.wait.kind = "WaitForSignal"
                 /\ p.wait.id = c.wait
                 /\ p.wait.topic = c.topic
                 /\ ~ IsDue(p.wait, tr[i].at)
            [] c.kind = "WakeDue" ->
                 p.status = "Waiting" /\ p.wait.id = c.wait /\ IsDue(p.wait, tr[i].at)
            [] c.kind = "MigrateDefinition" ->
                 p.status = "Waiting" /\ Newer(c.ref, p.definition)
            [] c.kind = "Complete" -> p.status = "Running"
            [] c.kind \in {"Fail", "Cancel"} -> p.status \in {"Running", "Waiting"}
    IN  IF ~ ok \/ p = Refused THEN Refused
        ELSE IF c.kind = "Create"
             THEN [NoRun EXCEPT !.status = "Running", !.definition = c.ref]
             ELSE [AppliedTo(p, c, tr[i].at) EXCEPT !.transitions = << >>]

Projection(tr) ==
    LET p[i \in 0 .. Len(tr)] ==
          IF i = 0 THEN NoRun ELSE ProjectTransition(tr, i, p[i - 1])
    IN  p[Len(tr)]

Validate(run) ==
    LET tr == run.transitions
    IN  /\ Len(tr) \in 1 .. MAX_WORKFLOW_TRANSITIONS
        /\ \A i, j \in DOMAIN tr : i < j =>
             /\ tr[i].at <= tr[j].at
             /\ tr[i].command.id # tr[j].command.id
        /\ \A i \in DOMAIN tr :
             ~ Settles(tr[i].command.kind) => i <= MAX_WORKFLOW_WORK_TRANSITIONS
        /\ Projection(tr) = [run EXCEPT !.transitions = << >>]

-----------------------------------------------------------------------------
(* The coordinator.  Each operation runs under one lock or one immediate    *)
(* transaction, so it is one step.                                          *)

NoGraph == << >>

WorkflowInit ==
    /\ runs = [r \in RunIds |-> NoRun]
    /\ graph = NoGraph
    /\ completing = {}

\* The identity of a caller's next command: fresh, or that of its last
\* committed one when it retries.
CallerIds(run) == {<< "caller", n >> : n \in {Revision(run), Revision(run) + 1}}

\* create_as of the engine and the coordinator: an absent Graph or an existing
\* Run changes nothing.  Graphs are never deleted, so the engine's earlier
\* look at the Graph is still true here.
CreateRun(r, definition, now) ==
    /\ graph # NoGraph
    /\ ~ Exists(runs[r])
    /\ runs' = [runs EXCEPT ![r] = NewRun(<< "caller", 1 >>, definition, now)]
    /\ UNCHANGED << graph, completing >>

\* What the coordinator's apply_as answers; only "applied" changes the store.
\* A committed command is recognized before the revision is compared.
Reply(run, revision, cmd, now) ==
    IF ~ Exists(run) THEN "missing"
    ELSE IF Recognizes(run, cmd) THEN "duplicate"
    ELSE IF KnownId(run, cmd.id) THEN "reused"
    ELSE IF Revision(run) # revision THEN "conflict"
    ELSE IF CanApply(run, cmd, now) THEN "applied" ELSE "refused"

ApplyRun(r, revision, cmd, now) ==
    /\ Reply(runs[r], revision, cmd, now) = "applied"
    /\ runs' = [runs EXCEPT ![r] = AppliedTo(@, cmd, now)]

Submit(r, kind, wait, ms, topic, ref, now) ==
    \E id \in CallerIds(runs[r]) :
        /\ ApplyRun(r, Revision(runs[r]), Command(id, kind, wait, ms, topic, ref), now)
        /\ UNCHANGED << graph, completing >>

\* The wait a caller proposes: the next identity, or the last one again.
Proposed(run) ==
    LET n == Cardinality({i \in DOMAIN run.transitions :
                            run.transitions[i].command.kind \in WaitKinds})
    IN  {n, n + 1} \cap WaitIds

WaitForSignal(r, now) ==
    \E wait \in Proposed(runs[r]), ms \in Times \cup {Never}, topic \in Topics :
        Submit(r, "WaitForSignal", wait, ms, topic, Nothing, now)

WaitUntil(r, now) ==
    \E wait \in Proposed(runs[r]), ms \in Times :
        Submit(r, "WaitUntil", wait, ms, NoTopic, Nothing, now)

ScheduleRetry(r, now) ==
    \E wait \in Proposed(runs[r]), ms \in Times :
        Submit(r, "ScheduleRetry", wait, ms, NoTopic, Nothing, now)

DeliverSignal(r, now) ==
    \E wait \in WaitIds, topic \in Topics, signal \in SignalIds :
        Submit(r, "DeliverSignal", wait, Never, topic, << signal >>, now)

MigrateDefinition(r, now) ==
    \E definition \in Definitions :
        Submit(r, "MigrateDefinition", NoId, Never, NoTopic, definition, now)

Fail(r, now) == Submit(r, "Fail", NoId, Never, NoTopic, Nothing, now)

Cancel(r, now) == Submit(r, "Cancel", NoId, Never, NoTopic, Nothing, now)

\* WakeDue by any actor that names the wait; the Temporal Driver is one.
WakeId(wait) == << "workflow-wake", wait >>
WakeCommand(wait) == Command(WakeId(wait), "WakeDue", wait, Never, NoTopic, Nothing)

WakeDue(r, revision, wait, now) ==
    /\ ApplyRun(r, revision, WakeCommand(wait), now)
    /\ UNCHANGED << graph, completing >>

-----------------------------------------------------------------------------
(* The engine.  Complete reads the Run, then the Task Graph in its own      *)
(* store, and only then asks the coordinator: three steps of which the      *)
(* first two are one here, because neither read depends on the other.       *)

\* Faulty variant: the Tasks have ended, not completed.
TasksCompletedAny == \A t \in Tasks : graph[t] # "open"

TasksCompleted == \A t \in Tasks : graph[t] = "completed"

CheckCompletion(r) ==
    /\ Exists(runs[r])
    /\ graph # NoGraph
    /\ TasksCompleted
    /\ completing' = completing \cup {<< r, Revision(runs[r]) >>}
    /\ completing' # completing
    /\ UNCHANGED << runs, graph >>

CommitCompletion(c, now) ==
    /\ c \in completing
    /\ completing' = completing \ {c}
    /\ \E id \in CallerIds(runs[c[1]]) :
          LET cmd == Command(id, "Complete", NoId, Never, NoTopic, Nothing)
          IN  \/ ApplyRun(c[1], c[2], cmd, now)
              \/ /\ Reply(runs[c[1]], c[2], cmd, now) # "applied"
                 /\ UNCHANGED runs
    /\ UNCHANGED graph

\* The Task Graph as the engine sees it: created once, each Task settled once
\* (TerminalIsFinal of TaskGraph).
CreateGraph ==
    /\ graph = NoGraph
    /\ graph' = [t \in Tasks |-> "open"]
    /\ UNCHANGED << runs, completing >>

SettleTask(t, outcome) ==
    /\ graph # NoGraph
    /\ graph[t] = "open"
    /\ graph' = [graph EXCEPT ![t] = outcome]
    /\ UNCHANGED << runs, completing >>

\* Runs start on version 1 and are migrated to later ones.
RunNext(r, now) ==
    \/ \E definition \in {d \in Definitions : d[1] = 1} : CreateRun(r, definition, now)
    \/ WaitForSignal(r, now)
    \/ WaitUntil(r, now)
    \/ ScheduleRetry(r, now)
    \/ DeliverSignal(r, now)
    \/ MigrateDefinition(r, now)
    \/ Fail(r, now)
    \/ Cancel(r, now)

EngineNext(r, now) ==
    \/ CheckCompletion(r)
    \/ \E c \in completing : CommitCompletion(c, now)
    \/ \E t \in Tasks, outcome \in {"completed", "failed"} : SettleTask(t, outcome)

WorkflowNext ==
    \E now \in Times :
        \/ \E r \in RunIds : RunNext(r, now)
        \/ \E r \in RunIds : WakeDue(r, Revision(runs[r]), runs[r].wait.id, now)
        \/ \E r \in RunIds : EngineNext(r, now)
        \/ CreateGraph

WorkflowSpec == WorkflowInit /\ [][WorkflowNext]_workflowVars

-----------------------------------------------------------------------------
(* Properties.                                                              *)

\* Every stored Run is one that validate() accepts when it is read back: the
\* live transitions and the replay never drift apart.
RunReplays == \A r \in RunIds : Exists(runs[r]) => Validate(runs[r])

\* The settlement reserve is always there: a Run that is not terminal has
\* room to be settled, and a waiting one to be woken and then settled.
SettlementReserve ==
    \A r \in RunIds :
        /\ runs[r].status \in {"Running", "Waiting"} =>
             CapacityLeft(Revision(runs[r]), "Fail")
        /\ runs[r].status = "Waiting" =>
             CapacityLeft(Revision(runs[r]) + 1, "Fail")

\* A completed Run has only completed Tasks, although the engine looks at the
\* Task store before and outside the transaction that completes the Run.
CompletionCovered ==
    \A r \in RunIds :
        runs[r].status = "Completed" =>
            graph # NoGraph /\ \A t \in Tasks : graph[t] = "completed"
=============================================================================
