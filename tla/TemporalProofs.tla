--------------------------- MODULE TemporalProofs ---------------------------
(***************************************************************************)
(* Proofs about Workflow, HumanHandoff and the Temporal Driver that acts on *)
(* both, for any number of Runs, waits, signals, Tasks, definitions, cases, *)
(* operators, claims and drivers, any clock readings, any lease durations   *)
(* and any transition limits.                                               *)
(***************************************************************************)
EXTENDS TemporalDriver, TLAPS

-----------------------------------------------------------------------------
(* The Workflow store.                                                      *)

RunStatuses == {"Absent", "Running", "Waiting"} \cup Terminal

\* What a stored command can be.
References == {Nothing} \cup (Definitions \cup {<< s >> : s \in SignalIds})

Commands == [id : {"caller", "workflow-wake"} \X Nat, kind : CommandKinds \cup {"Create"},
             wait : Nat, ms : Nat, topic : Topics \cup {NoTopic},
             ref : References]

Transitions == [command : Commands, at : Nat]

RunRecords == [status : RunStatuses,
               wait : [kind : WaitKinds \cup {"None"}, id : Nat, due : Nat,
                       topic : Topics \cup {NoTopic}],
               definition : References,
               transitions : Seq(Transitions)]

WorkflowTypeOK ==
    /\ runs \in [RunIds -> RunRecords]
    /\ \A r \in RunIds : Exists(runs[r]) => runs[r].transitions # << >>
    /\ graph \in {NoGraph} \cup [Tasks -> {"open", "completed", "failed"}]
    /\ completing \subseteq RunIds \X Nat

\* What every accepted command does to Run r, its kind being one of `kinds`.
Step(r, kinds) ==
    \E cmd \in Commands, now \in Times :
        /\ cmd.kind \in kinds
        /\ Exists(runs[r])
        /\ ~ KnownId(runs[r], cmd.id)
        /\ CanApply(runs[r], cmd, now)
        /\ runs' = [runs EXCEPT ![r] = AppliedTo(runs[r], cmd, now)]

CallerKinds == CommandKinds \ {"Complete"}

\* apply_as stores nothing but what apply accepts at the current revision.
LEMMA ApplyIsStep ==
    ASSUME NEW r \in RunIds, NEW revision, NEW cmd \in Commands, NEW now \in Times,
           NEW kinds, cmd.kind \in kinds,
           ApplyRun(r, revision, cmd, now)
    PROVE  Step(r, kinds)
BY Zenon DEF ApplyRun, Reply, Step

\* Every command the caller of a Run can send is one of apply's.
LEMMA SubmitIsStep ==
    ASSUME WorkflowTypeOK, NEW r \in RunIds, NEW now \in Times,
           NEW kind \in CallerKinds, NEW wait \in Nat, NEW ms \in Nat,
           NEW topic \in Topics \cup {NoTopic}, NEW ref \in References,
           Submit(r, kind, wait, ms, topic, ref, now)
    PROVE  Step(r, CallerKinds) /\ UNCHANGED << graph, completing >>
<1>1. PICK id \in CallerIds(runs[r]) :
        /\ ApplyRun(r, Revision(runs[r]), Command(id, kind, wait, ms, topic, ref), now)
        /\ UNCHANGED << graph, completing >>
  BY Zenon DEF Submit
<1> DEFINE cmd == Command(id, kind, wait, ms, topic, ref)
<1>2. Revision(runs[r]) \in Nat
  BY DEF WorkflowTypeOK, RunRecords, Revision
<1>3. cmd \in Commands /\ cmd.kind \in CallerKinds
  BY <1>2 DEF Command, Commands, CallerIds, CallerKinds, References
<1> HIDE DEF cmd
<1>4. ApplyRun(r, Revision(runs[r]), cmd, now)
  BY Zenon, <1>1 DEF cmd
<1> QED BY Zenon, <1>1, <1>3, <1>4, ApplyIsStep

\* What the commit of a completion does to its Run.
LEMMA CommitIsStep ==
    ASSUME WorkflowTypeOK, NEW c \in completing, NEW now \in Times,
           CommitCompletion(c, now)
    PROVE  Step(c[1], {"Complete"}) \/ UNCHANGED runs
<1>1. PICK id \in CallerIds(runs[c[1]]) :
        LET cmd == Command(id, "Complete", NoId, Never, NoTopic, Nothing)
        IN  ApplyRun(c[1], c[2], cmd, now) \/ UNCHANGED runs
  BY Zenon DEF CommitCompletion
<1> DEFINE cmd == Command(id, "Complete", NoId, Never, NoTopic, Nothing)
<1>2. c[1] \in RunIds /\ Revision(runs[c[1]]) \in Nat
  BY DEF WorkflowTypeOK, RunRecords, Revision
<1>3. cmd \in Commands /\ cmd.kind = "Complete"
  BY <1>2 DEF Command, Commands, CallerIds, References, CommandKinds, EndKinds, NoId, Never
<1> HIDE DEF cmd
<1>4. ApplyRun(c[1], c[2], cmd, now) \/ UNCHANGED runs
  BY Zenon, <1>1 DEF cmd
<1> QED BY Zenon, <1>2, <1>3, <1>4, ApplyIsStep

\* What a step of the specification can be, seen from the stored Runs.
LEMMA NextCases ==
    ASSUME WorkflowTypeOK, WorkflowNext
    PROVE  \/ \E r \in RunIds : Step(r, CallerKinds) /\ UNCHANGED << graph, completing >>
           \/ \E r \in RunIds, now \in Times, d \in Definitions : CreateRun(r, d, now)
           \/ \E r \in RunIds : CheckCompletion(r)
           \/ \E c \in completing, now \in Times : CommitCompletion(c, now)
           \/ \E t \in Tasks, o \in {"completed", "failed"} : SettleTask(t, o)
           \/ CreateGraph
<1> USE WorkflowAssumption
<1>1. PICK now \in Times :
        \/ \E r \in RunIds : RunNext(r, now)
        \/ \E r \in RunIds : WakeDue(r, Revision(runs[r]), runs[r].wait.id, now)
        \/ \E r \in RunIds : EngineNext(r, now)
        \/ CreateGraph
  BY Zenon DEF WorkflowNext
<1>2. Times \subseteq Nat /\ WaitIds \subseteq Nat /\ Never \in Nat /\ NoId \in Nat
  BY DEF Times, Never, NoId
<1>3. ASSUME NEW r \in RunIds, RunNext(r, now)
      PROVE  \/ Step(r, CallerKinds) /\ UNCHANGED << graph, completing >>
             \/ \E d \in Definitions : CreateRun(r, d, now)
  <2>0. /\ {"WaitForSignal", "WaitUntil", "ScheduleRetry", "DeliverSignal",
            "MigrateDefinition", "Fail", "Cancel"} \subseteq CallerKinds
        /\ NoTopic \in Topics \cup {NoTopic}
        /\ Nothing \in References
        /\ Definitions \subseteq References
        /\ \A s \in SignalIds : << s >> \in References
    BY Zenon DEF CallerKinds, CommandKinds, WaitKinds, EndKinds, References
  <2>1. CASE \E d \in {e \in Definitions : e[1] = 1} : CreateRun(r, d, now)
    BY Zenon, <2>1
  <2>2. CASE WaitForSignal(r, now)
    BY Zenon, <2>2, <1>2, <2>0, SubmitIsStep DEF WaitForSignal, Proposed
  <2>3. CASE WaitUntil(r, now)
    BY Zenon, <2>3, <1>2, <2>0, SubmitIsStep DEF WaitUntil, Proposed
  <2>4. CASE ScheduleRetry(r, now)
    BY Zenon, <2>4, <1>2, <2>0, SubmitIsStep DEF ScheduleRetry, Proposed
  <2>5. CASE DeliverSignal(r, now)
    BY Zenon, <2>5, <1>2, <2>0, SubmitIsStep DEF DeliverSignal
  <2>6. CASE MigrateDefinition(r, now)
    BY Zenon, <2>6, <1>2, <2>0, SubmitIsStep DEF MigrateDefinition
  <2>7. CASE Fail(r, now)
    BY Zenon, <2>7, <1>2, <2>0, SubmitIsStep DEF Fail
  <2>8. CASE Cancel(r, now)
    BY Zenon, <2>8, <1>2, <2>0, SubmitIsStep DEF Cancel
  <2> QED BY Zenon, <1>3, <2>1, <2>2, <2>3, <2>4, <2>5, <2>6, <2>7, <2>8 DEF RunNext
<1>4. ASSUME NEW r \in RunIds, WakeDue(r, Revision(runs[r]), runs[r].wait.id, now)
      PROVE  Step(r, CallerKinds) /\ UNCHANGED << graph, completing >>
  <2> DEFINE wait == runs[r].wait.id
  <2>0. wait \in Nat
    BY Zenon DEF WorkflowTypeOK, RunRecords
  <2> HIDE DEF wait
  <2>1. WakeCommand(wait) \in Commands /\ WakeCommand(wait).kind \in CallerKinds
    BY Zenon, <1>2, <2>0 DEF WakeCommand, WakeId, Command, Commands, CallerKinds, CommandKinds,
                WaitKinds, EndKinds, References
  <2> QED BY Zenon, <1>4, <2>1, ApplyIsStep DEF WakeDue, wait
<1> QED BY Zenon, <1>1, <1>3, <1>4 DEF EngineNext

-----------------------------------------------------------------------------
(* Types.                                                                   *)

\* The Runs after a command was applied to Run r.
Stepped(r, cmd, now) ==
    /\ runs' \in [RunIds -> RunRecords]
    /\ runs'[r].status = NextStatus(runs[r], cmd)
    /\ runs'[r].transitions = Append(runs[r].transitions, Transition(cmd, now))
    /\ Revision(runs[r]) \in Nat
    /\ Revision(runs'[r]) = Revision(runs[r]) + 1
    /\ \A q \in RunIds \ {r} : runs'[q] = runs[q]

\* A step of a Run keeps its shape, lengthens its history by one transition and leaves
\* the other Runs alone.
LEMMA StepShape ==
    ASSUME WorkflowTypeOK, NEW r \in RunIds, NEW cmd \in Commands, NEW now \in Times,
           cmd.kind \in CommandKinds,
           runs' = [runs EXCEPT ![r] = AppliedTo(runs[r], cmd, now)]
    PROVE  Stepped(r, cmd, now)
<1> USE WorkflowAssumption
<1>1. runs[r] \in RunRecords
  BY Zenon DEF WorkflowTypeOK
<1>2. NextStatus(runs[r], cmd) \in RunStatuses
  BY Zenon, <1>1 DEF NextStatus, RunRecords, RunStatuses, Terminal, CommandKinds, WaitKinds, EndKinds
<1>3. NextWait(runs[r], cmd) \in [kind : WaitKinds \cup {"None"}, id : Nat, due : Nat,
                                  topic : Topics \cup {NoTopic}]
  BY Zenon, <1>1 DEF NextWait, NoWait, Wait, RunRecords, Commands, NoId, Never
<1>4. Transition(cmd, now) \in Transitions
  BY DEF Transition, Transitions, Times
<1>5. AppliedTo(runs[r], cmd, now) \in RunRecords
  BY <1>1, <1>2, <1>3, <1>4 DEF AppliedTo, RunRecords, Commands
<1>6. runs' \in [RunIds -> RunRecords] /\ runs'[r] = AppliedTo(runs[r], cmd, now)
  BY Zenon, <1>5 DEF WorkflowTypeOK
<1>7. /\ runs[r].transitions \in Seq(Transitions)
      /\ runs'[r].transitions = Append(runs[r].transitions, Transition(cmd, now))
  BY Zenon, <1>1, <1>6 DEF AppliedTo, RunRecords
<1>8. Revision(runs[r]) \in Nat /\ Revision(runs'[r]) = Revision(runs[r]) + 1
  BY <1>4, <1>7 DEF Revision
<1> QED BY Zenon, <1>6, <1>7, <1>8 DEF Stepped, AppliedTo, WorkflowTypeOK

\* A created Run has one transition.
LEMMA CreateShape ==
    ASSUME WorkflowTypeOK, NEW r \in RunIds, NEW d \in Definitions, NEW now \in Times,
           CreateRun(r, d, now)
    PROVE  /\ runs' \in [RunIds -> RunRecords]
           /\ runs'[r].status = "Running"
           /\ runs'[r].transitions = << Transition(Command(<< "caller", 1 >>, "Create", NoId,
                                                           Never, NoTopic, d), now) >>
           /\ \A q \in RunIds \ {r} : runs'[q] = runs[q]
           /\ UNCHANGED << graph, completing >>
<1> USE WorkflowAssumption
<1> DEFINE tr == Transition(Command(<< "caller", 1 >>, "Create", NoId, Never, NoTopic, d), now)
<1>1. tr \in Transitions
  BY DEF Transition, Transitions, Command, Commands, References, Times, NoId, Never
<1>2. << tr >> \in Seq(Transitions)
  BY <1>1
<1>3. NewRun(<< "caller", 1 >>, d, now) \in RunRecords
  BY Zenon, <1>2 DEF NewRun, RunRecords, RunStatuses, NoWait, NoId, Never, References
<1> QED BY Zenon, <1>3 DEF CreateRun, NewRun, WorkflowTypeOK

\* Every variable keeps its type, and a stored Run has a history.
THEOREM WorkflowTyped == WorkflowSpec => []WorkflowTypeOK
<1> USE WorkflowAssumption
<1>1. WorkflowInit => WorkflowTypeOK
  <2> SUFFICES ASSUME WorkflowInit PROVE WorkflowTypeOK
    BY Zenon
  <2>1. << >> \in Seq(Transitions)
    OBVIOUS
  <2>2. NoRun \in RunRecords
    BY Zenon, <2>1 DEF NoRun, RunRecords, RunStatuses, NoWait, NoId, Never, References, Nothing
  <2> QED BY Zenon, <2>2 DEF WorkflowInit, WorkflowTypeOK, NoRun, Exists
<1>2. WorkflowTypeOK /\ [WorkflowNext]_workflowVars => WorkflowTypeOK'
  <2> SUFFICES ASSUME WorkflowTypeOK, [WorkflowNext]_workflowVars PROVE WorkflowTypeOK'
    BY Zenon
  <2>1. CASE UNCHANGED workflowVars
    BY Zenon, <2>1 DEF WorkflowTypeOK, workflowVars, Exists
  <2>2. ASSUME NEW r \in RunIds, NEW kinds \in SUBSET CommandKinds, Step(r, kinds)
        PROVE  /\ runs' \in [RunIds -> RunRecords]
               /\ \A q \in RunIds : Exists(runs'[q]) => runs'[q].transitions # << >>
    <3>1. PICK cmd \in Commands, now \in Times :
            /\ cmd.kind \in CommandKinds
            /\ runs' = [runs EXCEPT ![r] = AppliedTo(runs[r], cmd, now)]
      BY Zenon, <2>2 DEF Step
    <3>2. Revision(runs'[r]) = Revision(runs[r]) + 1 /\ Revision(runs[r]) \in Nat
      BY Zenon, <3>1, StepShape DEF Stepped
    <3>3. runs'[r].transitions # << >>
      BY <3>2 DEF Revision
    <3>4. runs' \in [RunIds -> RunRecords] /\ \A q \in RunIds \ {r} : runs'[q] = runs[q]
      BY Zenon, <3>1, StepShape DEF Stepped
    <3> QED BY Zenon, <3>3, <3>4 DEF WorkflowTypeOK
  <2>3. CASE \E r \in RunIds : Step(r, CallerKinds) /\ UNCHANGED << graph, completing >>
    BY Zenon, <2>2, <2>3 DEF WorkflowTypeOK, CallerKinds
  <2>4. ASSUME NEW r \in RunIds, NEW now \in Times, NEW d \in Definitions,
               CreateRun(r, d, now)
        PROVE  WorkflowTypeOK'
    <3>1. /\ runs' \in [RunIds -> RunRecords] /\ graph' = graph /\ completing' = completing
          /\ \A q \in RunIds \ {r} : runs'[q] = runs[q]
      BY Zenon, <2>4, CreateShape
    <3>2. PICK x : runs'[r].transitions = << x >>
      BY Zenon, <2>4, CreateShape
    <3>3. runs'[r].transitions # << >>
      BY <3>2
    <3> QED BY Zenon, <3>1, <3>3 DEF WorkflowTypeOK
  <2>5. ASSUME NEW r \in RunIds, CheckCompletion(r) PROVE WorkflowTypeOK'
    <3>1. runs[r].transitions \in Seq(Transitions)
      BY Zenon DEF WorkflowTypeOK, RunRecords
    <3>2. << r, Revision(runs[r]) >> \in RunIds \X Nat
      BY <3>1 DEF Revision
    <3> QED BY Zenon, <2>5, <3>2 DEF CheckCompletion, WorkflowTypeOK
  <2>6. ASSUME NEW c \in completing, NEW now \in Times, CommitCompletion(c, now)
        PROVE  WorkflowTypeOK'
    <3>1. c[1] \in RunIds /\ completing' \subseteq RunIds \X Nat /\ graph' = graph
      BY Zenon, <2>6 DEF CommitCompletion, WorkflowTypeOK
    <3>2. Step(c[1], {"Complete"}) \/ UNCHANGED runs
      BY Zenon, <2>6, CommitIsStep
    <3>3. {"Complete"} \in SUBSET CommandKinds
      BY Zenon DEF CommandKinds, EndKinds
    <3> QED BY Zenon, <2>2, <3>1, <3>2, <3>3 DEF WorkflowTypeOK
  <2>7. CASE \E t \in Tasks, o \in {"completed", "failed"} : SettleTask(t, o)
    BY Zenon, <2>7 DEF SettleTask, WorkflowTypeOK, Exists
  <2>8. CASE CreateGraph
    BY Zenon, <2>8 DEF CreateGraph, WorkflowTypeOK, Exists
  <2> QED BY Zenon, <2>1, <2>3, <2>4, <2>5, <2>6, <2>7, <2>8, NextCases
<1> QED BY <1>1, <1>2, PTL DEF WorkflowSpec

-----------------------------------------------------------------------------
(* Safety.                                                                  *)

\* However the commands fall, a Run that has not ended can still be settled, and one
\* that waits can be woken and then settled: validate_transition_capacity keeps the
\* reserve.  The property is inductive over well-typed states.
THEOREM SettlementReserveAlways == WorkflowSpec => []SettlementReserve
<1> USE WorkflowAssumption
    DEF MAX_WORKFLOW_TRANSITIONS, WORKFLOW_SETTLEMENT_TRANSITION_RESERVE
<1>1. WorkflowInit => SettlementReserve
  BY DEF WorkflowInit, SettlementReserve, NoRun
<1>2. WorkflowTypeOK /\ SettlementReserve /\ [WorkflowNext]_workflowVars => SettlementReserve'
  <2> SUFFICES ASSUME WorkflowTypeOK, SettlementReserve, [WorkflowNext]_workflowVars
               PROVE  SettlementReserve'
    BY Zenon
  <2>1. CASE UNCHANGED runs
    BY Zenon, <2>1 DEF SettlementReserve, CapacityLeft, Revision, Settles
  <2>2. ASSUME NEW r \in RunIds, NEW kinds \in SUBSET CommandKinds, Step(r, kinds)
        PROVE  SettlementReserve'
    <3>1. PICK cmd \in Commands, now \in Times :
            /\ cmd.kind \in CommandKinds
            /\ CanApply(runs[r], cmd, now)
            /\ runs' = [runs EXCEPT ![r] = AppliedTo(runs[r], cmd, now)]
      BY Zenon, <2>2 DEF Step
    <3> DEFINE n == Revision(runs[r])
    <3>2. /\ runs'[r].status = NextStatus(runs[r], cmd)
          /\ n \in Nat
          /\ Revision(runs'[r]) = n + 1
          /\ \A q \in RunIds \ {r} : runs'[q] = runs[q]
      BY Zenon, <3>1, StepShape DEF Stepped
    <3> HIDE DEF n
    <3>3. CASE cmd.kind \in WaitKinds \cup {"MigrateDefinition"}
      \* Only with an ordinary transition to spare does a Run come to wait, or go on waiting.
      <4>1. n < MAX_WORKFLOW_WORK_TRANSITIONS
        BY Zenon, <3>1, <3>3 DEF n, CanApply, CapacityLeft, Settles, WaitKinds, EndKinds
      <4> QED BY <3>2, <4>1 DEF SettlementReserve, CapacityLeft, Settles, EndKinds
    <3>4. CASE cmd.kind \in {"DeliverSignal", "WakeDue"}
      <4>1. runs[r].status = "Waiting" /\ runs'[r].status = "Running"
        BY Zenon, <3>1, <3>2, <3>4 DEF CanApply, Accepts, NextStatus, WaitKinds
      <4>2. CapacityLeft(n + 1, "Fail")
        BY Zenon, <4>1 DEF SettlementReserve, n
      <4> QED BY Zenon, <3>2, <4>1, <4>2 DEF SettlementReserve
    <3>5. CASE cmd.kind \in EndKinds
      <4>1. runs'[r].status \in Terminal
        BY Zenon, <3>2, <3>5 DEF NextStatus, WaitKinds, EndKinds, Terminal
      <4> QED BY Zenon, <3>2, <4>1 DEF SettlementReserve, Terminal
    <3> QED BY Zenon, <3>1, <3>3, <3>4, <3>5 DEF CommandKinds
  <2>3. ASSUME NEW r \in RunIds, NEW now \in Times, NEW d \in Definitions,
               CreateRun(r, d, now)
        PROVE  SettlementReserve'
    <3>1. PICK tr : runs'[r].transitions = << tr >>
      BY Zenon, <2>3, CreateShape
    <3>2. Revision(runs'[r]) = 1
      BY <3>1 DEF Revision
    <3> QED BY <2>3, <3>2, CreateShape DEF SettlementReserve, CapacityLeft, Settles, EndKinds
  <2>4. CASE \E r \in RunIds : Step(r, CallerKinds) /\ UNCHANGED << graph, completing >>
    BY Zenon, <2>2, <2>4 DEF CallerKinds
  <2>5. ASSUME NEW c \in completing, NEW now \in Times, CommitCompletion(c, now)
        PROVE  SettlementReserve'
    <3>1. c[1] \in RunIds /\ {"Complete"} \in SUBSET CommandKinds
      BY Zenon DEF WorkflowTypeOK, CommandKinds, EndKinds
    <3> QED BY Zenon, <2>1, <2>2, <2>5, <3>1, CommitIsStep
  <2> QED BY Zenon, <2>1, <2>3, <2>4, <2>5, NextCases
          DEF CheckCompletion, SettleTask, CreateGraph, workflowVars
<1> QED BY <1>1, <1>2, WorkflowTyped, PTL DEF WorkflowSpec

\* The engine checks the Tasks in one step and commits the completion in another; what
\* it saw stays true because a settled Task never changes.
CompletionInv ==
    /\ CompletionCovered
    /\ completing # {} => graph # NoGraph /\ TasksCompleted

\* A completed Run has only completed Tasks, whatever happens between the engine's look
\* at the Task Graph and its commit.
THEOREM CompletionCoveredAlways == WorkflowSpec => []CompletionCovered
<1>1. WorkflowInit => CompletionInv
  BY DEF WorkflowInit, CompletionInv, CompletionCovered, NoRun
<1>2. WorkflowTypeOK /\ CompletionInv /\ [WorkflowNext]_workflowVars => CompletionInv'
  <2> SUFFICES ASSUME WorkflowTypeOK, CompletionInv, [WorkflowNext]_workflowVars
               PROVE  CompletionInv'
    BY Zenon
  <2>1. CASE UNCHANGED workflowVars
    BY Zenon, <2>1 DEF CompletionInv, CompletionCovered, TasksCompleted, workflowVars
  <2>2. ASSUME NEW r \in RunIds, NEW kinds \in SUBSET CommandKinds, Step(r, kinds)
        PROVE  /\ \A q \in RunIds \ {r} : runs'[q] = runs[q]
               /\ runs'[r].status = "Completed" => "Complete" \in kinds
    <3>1. PICK cmd \in Commands, now \in Times :
            /\ cmd.kind \in kinds
            /\ CanApply(runs[r], cmd, now)
            /\ runs' = [runs EXCEPT ![r] = AppliedTo(runs[r], cmd, now)]
      BY Zenon, <2>2 DEF Step
    <3>2. /\ runs'[r].status = NextStatus(runs[r], cmd)
          /\ \A q \in RunIds \ {r} : runs'[q] = runs[q]
      BY Zenon, <3>1, StepShape DEF Stepped
    <3>3. cmd.kind = "MigrateDefinition" => runs[r].status = "Waiting"
      BY Zenon, <3>1 DEF CanApply, Accepts, WaitKinds
    <3>4. NextStatus(runs[r], cmd) = "Completed" => cmd.kind = "Complete"
      BY Zenon, <3>1, <3>3 DEF NextStatus, CommandKinds, WaitKinds, EndKinds
    <3> QED BY Zenon, <3>1, <3>2, <3>4
  <2>3. ASSUME NEW r \in RunIds, Step(r, CallerKinds), UNCHANGED << graph, completing >>
        PROVE  CompletionInv'
    <3>1. CallerKinds \in SUBSET CommandKinds /\ "Complete" \notin CallerKinds
      BY Zenon DEF CallerKinds
    <3> QED BY Zenon, <2>2, <2>3, <3>1 DEF CompletionInv, CompletionCovered, TasksCompleted
  <2>4. ASSUME NEW r \in RunIds, NEW now \in Times, NEW d \in Definitions,
               CreateRun(r, d, now)
        PROVE  CompletionInv'
    BY Zenon, <2>4, CreateShape DEF CompletionInv, CompletionCovered, TasksCompleted
  <2>5. ASSUME NEW r \in RunIds, CheckCompletion(r) PROVE CompletionInv'
    BY Zenon, <2>5 DEF CheckCompletion, CompletionInv, CompletionCovered, TasksCompleted
  <2>6. ASSUME NEW c \in completing, NEW now \in Times, CommitCompletion(c, now)
        PROVE  CompletionInv'
    <3>1. /\ c[1] \in RunIds /\ {"Complete"} \in SUBSET CommandKinds
          /\ graph' = graph /\ completing' \subseteq completing
          /\ graph # NoGraph /\ TasksCompleted
      BY Zenon, <2>6 DEF WorkflowTypeOK, CommandKinds, EndKinds, CommitCompletion, CompletionInv
    <3>2. CompletionCovered'
      BY Zenon, <3>1 DEF CompletionCovered, TasksCompleted
    <3> QED BY Zenon, <3>1, <3>2 DEF CompletionInv, TasksCompleted
  <2>7. ASSUME NEW t \in Tasks, NEW o \in {"completed", "failed"}, SettleTask(t, o)
        PROVE  CompletionInv'
    <3>1. completing = {} /\ \A r \in RunIds : runs[r].status # "Completed"
      BY Zenon, <2>7 DEF SettleTask, CompletionInv, CompletionCovered, TasksCompleted
    <3> QED BY Zenon, <2>7, <3>1 DEF SettleTask, CompletionInv, CompletionCovered
  <2>8. CASE CreateGraph
    BY Zenon, <2>8 DEF CreateGraph, CompletionInv, CompletionCovered
  <2> QED BY Zenon, <2>1, <2>3, <2>4, <2>5, <2>6, <2>7, <2>8, NextCases
<1>3. CompletionInv => CompletionCovered
  BY Zenon DEF CompletionInv
<1> QED BY <1>1, <1>2, <1>3, WorkflowTyped, PTL DEF WorkflowSpec

\* The part of validate() that reads the history alone.
HistoryOK(tr) ==
    /\ Len(tr) <= MAX_WORKFLOW_TRANSITIONS
    /\ \A i, j \in 1 .. Len(tr) : i < j =>
         /\ tr[i].at <= tr[j].at
         /\ tr[i].command.id # tr[j].command.id
         /\ {tr[i].command.kind, tr[j].command.kind} \subseteq WaitKinds =>
              tr[i].command.wait # tr[j].command.wait
    /\ \A i \in 1 .. Len(tr) :
         ~ Settles(tr[i].command.kind) => i <= MAX_WORKFLOW_WORK_TRANSITIONS

HistoriesOK == \A r \in RunIds : HistoryOK(runs[r].transitions)

\* What apply adds to a good history leaves it one.
LEMMA AppendKeepsHistory ==
    ASSUME WorkflowTypeOK, NEW r \in RunIds, NEW cmd \in Commands, NEW now \in Times,
           cmd.kind \in CommandKinds,
           HistoryOK(runs[r].transitions),
           Exists(runs[r]),
           ~ KnownId(runs[r], cmd.id),
           CanApply(runs[r], cmd, now)
    PROVE  HistoryOK(Append(runs[r].transitions, Transition(cmd, now)))
<1> USE WorkflowAssumption
    DEF MAX_WORKFLOW_TRANSITIONS, WORKFLOW_SETTLEMENT_TRANSITION_RESERVE
<1> DEFINE tr  == runs[r].transitions
           x   == Transition(cmd, now)
           n   == Len(tr)
           new == Append(tr, x)
<1>1. tr \in Seq(Transitions) /\ tr # << >>
  BY Zenon DEF WorkflowTypeOK, RunRecords
<1>2. x \in Transitions /\ x.command = cmd /\ x.at = now /\ now \in Nat
  BY DEF Transition, Transitions, Times
<1>3. /\ \A i \in 1 .. n : tr[i].command.id # cmd.id
      /\ n < MAX_WORKFLOW_TRANSITIONS
      /\ Settles(cmd.kind) \/ n < MAX_WORKFLOW_WORK_TRANSITIONS
      /\ now >= tr[n].at
  BY <1>1 DEF KnownId, CanApply, CapacityLeft, Revision
<1>4. cmd.kind \in WaitKinds =>
        \A i \in 1 .. n : tr[i].command.kind \in WaitKinds => tr[i].command.wait # cmd.wait
  <2> SUFFICES ASSUME cmd.kind \in WaitKinds PROVE NewWaitId(runs[r], cmd.wait)
    BY <1>1 DEF NewWaitId
  <2> QED BY Zenon DEF CanApply, Accepts, WaitKinds
<1>h. HistoryOK(tr)
  BY Zenon
<1> HIDE DEF tr, x, new
<1>5. /\ n \in Nat /\ Len(new) = n + 1 /\ new[n + 1] = x
      /\ \A i \in 1 .. n : new[i] = tr[i] /\ tr[i].at \in Nat
  <2>1. n \in Nat /\ \A i \in 1 .. n : tr[i] \in Transitions
    BY <1>1
  <2>2. Len(new) = n + 1 /\ new[n + 1] = x /\ \A i \in 1 .. n : new[i] = tr[i]
    BY <1>1, <1>2 DEF new
  <2>3. \A t \in Transitions : t.at \in Nat
    BY Zenon DEF Transitions
  <2> QED BY Zenon, <2>1, <2>2, <2>3
<1> HIDE DEF n
<1>6. \A i \in 1 .. n : tr[i].at <= now
  <2> SUFFICES ASSUME NEW i \in 1 .. n PROVE tr[i].at <= now
    BY Zenon
  <2>1. n \in 1 .. n /\ tr[n].at \in Nat /\ tr[i].at \in Nat
    BY <1>5
  <2>2. i < n => tr[i].at <= tr[n].at
    BY Zenon, <1>h, <2>1 DEF HistoryOK, n
  <2> QED BY <1>2, <1>3, <1>5, <2>1, <2>2
<1>7. ASSUME NEW i \in 1 .. n + 1, NEW j \in 1 .. n + 1, i < j
      PROVE  /\ new[i].at <= new[j].at
             /\ new[i].command.id # new[j].command.id
             /\ {new[i].command.kind, new[j].command.kind} \subseteq WaitKinds =>
                  new[i].command.wait # new[j].command.wait
  <2>1. i \in 1 .. n /\ new[i] = tr[i]
    BY <1>5, <1>7
  <2>2. CASE j = n + 1
    BY Zenon, <1>2, <1>3, <1>4, <1>5, <1>6, <2>1, <2>2
  <2>3. CASE j \in 1 .. n
    <3>1. new[j] = tr[j]
      BY Zenon, <1>5, <2>3
    <3>2. /\ tr[i].at <= tr[j].at
          /\ tr[i].command.id # tr[j].command.id
          /\ {tr[i].command.kind, tr[j].command.kind} \subseteq WaitKinds =>
               tr[i].command.wait # tr[j].command.wait
      BY Zenon, <1>h, <1>7, <2>1, <2>3 DEF HistoryOK, n
    <3> QED BY Zenon, <2>1, <3>1, <3>2
  <2> QED BY <1>5, <2>2, <2>3
<1>8. ASSUME NEW i \in 1 .. n + 1, ~ Settles(new[i].command.kind)
      PROVE  i <= MAX_WORKFLOW_WORK_TRANSITIONS
  <2>1. CASE i = n + 1
    BY <1>2, <1>3, <1>5, <1>8, <2>1
  <2>2. CASE i \in 1 .. n
    BY Zenon, <1>h, <1>5, <1>8, <2>2 DEF HistoryOK, n
  <2> QED BY <1>5, <2>1, <2>2
<1>9. HistoryOK(new)
  BY <1>3, <1>5, <1>7, <1>8 DEF HistoryOK
<1> QED BY Zenon, <1>9 DEF new, tr, x

\* Command and wait identities never repeat in a Run, its times never decrease and work
\* never uses the settlement reserve: the part of validate() (and of RunReplays) that does
\* not depend on the replayed status.
THEOREM HistoriesAlwaysOK == WorkflowSpec => []HistoriesOK
<1> USE WorkflowAssumption
<1>1. WorkflowInit => HistoriesOK
  BY DEF WorkflowInit, HistoriesOK, HistoryOK, NoRun, MAX_WORKFLOW_TRANSITIONS,
         WORKFLOW_SETTLEMENT_TRANSITION_RESERVE
<1>2. WorkflowTypeOK /\ HistoriesOK /\ [WorkflowNext]_workflowVars => HistoriesOK'
  <2> SUFFICES ASSUME WorkflowTypeOK, HistoriesOK, [WorkflowNext]_workflowVars
               PROVE  HistoriesOK'
    BY Zenon
  <2>1. CASE UNCHANGED runs
    BY Zenon, <2>1 DEF HistoriesOK
  <2>2. ASSUME NEW r \in RunIds, NEW kinds \in SUBSET CommandKinds, Step(r, kinds)
        PROVE  HistoriesOK'
    <3>1. PICK cmd \in Commands, now \in Times :
            /\ cmd.kind \in CommandKinds
            /\ Exists(runs[r])
            /\ ~ KnownId(runs[r], cmd.id)
            /\ CanApply(runs[r], cmd, now)
            /\ runs' = [runs EXCEPT ![r] = AppliedTo(runs[r], cmd, now)]
      BY Zenon, <2>2 DEF Step
    <3>2. /\ runs'[r].transitions = Append(runs[r].transitions, Transition(cmd, now))
          /\ \A q \in RunIds \ {r} : runs'[q] = runs[q]
      <4>1. Stepped(r, cmd, now)
        BY Zenon, <3>1, StepShape
      <4> QED BY Zenon, <4>1 DEF Stepped
    <3>3. HistoryOK(runs'[r].transitions)
      BY Zenon, <3>1, <3>2, AppendKeepsHistory DEF HistoriesOK
    <3> QED BY Zenon, <3>2, <3>3 DEF HistoriesOK
  <2>3. ASSUME NEW r \in RunIds, NEW now \in Times, NEW d \in Definitions,
               CreateRun(r, d, now)
        PROVE  HistoriesOK'
    <3>1. PICK tr : runs'[r].transitions = << tr >>
      BY Zenon, <2>3, CreateShape
    <3>2. HistoryOK(<< tr >>)
      <4>1. Len(<< tr >>) = 1
        BY Zenon
      <4> QED BY <4>1 DEF HistoryOK, MAX_WORKFLOW_TRANSITIONS,
                          WORKFLOW_SETTLEMENT_TRANSITION_RESERVE
    <3> QED BY Zenon, <2>3, <3>1, <3>2, CreateShape DEF HistoriesOK
  <2>4. CASE \E r \in RunIds : Step(r, CallerKinds) /\ UNCHANGED << graph, completing >>
    BY Zenon, <2>2, <2>4 DEF CallerKinds
  <2>5. ASSUME NEW c \in completing, NEW now \in Times, CommitCompletion(c, now)
        PROVE  HistoriesOK'
    <3>1. c[1] \in RunIds /\ {"Complete"} \in SUBSET CommandKinds
      BY Zenon DEF WorkflowTypeOK, CommandKinds, EndKinds
    <3> QED BY Zenon, <2>1, <2>2, <2>5, <3>1, CommitIsStep
  <2> QED BY Zenon, <2>1, <2>3, <2>4, <2>5, NextCases
          DEF CheckCompletion, SettleTask, CreateGraph, workflowVars
<1> QED BY <1>1, <1>2, WorkflowTyped, PTL DEF WorkflowSpec

\* What a step may never do to a Run that has ended.
EndedUnchanged ==
    \A r \in RunIds : runs[r].status \in Terminal => runs'[r] = runs[r]

\* No command, late completion or wake changes a Run that has ended.
THEOREM EndedRunsFinal == WorkflowSpec => [][EndedUnchanged]_workflowVars
<1>1. ASSUME WorkflowTypeOK, WorkflowNext PROVE EndedUnchanged
  <2>1. ASSUME NEW r \in RunIds, NEW kinds \in SUBSET CommandKinds, Step(r, kinds)
        PROVE  EndedUnchanged
    <3>1. PICK cmd \in Commands, now \in Times :
            /\ cmd.kind \in CommandKinds
            /\ CanApply(runs[r], cmd, now)
            /\ runs' = [runs EXCEPT ![r] = AppliedTo(runs[r], cmd, now)]
      BY Zenon, <2>1 DEF Step
    <3>2. runs[r].status \notin Terminal
      BY Zenon, <3>1 DEF CanApply, Accepts, Terminal, CommandKinds, WaitKinds, EndKinds
    <3>3. \A q \in RunIds \ {r} : runs'[q] = runs[q]
      BY Zenon, <1>1, <3>1, StepShape DEF Stepped
    <3> QED BY Zenon, <3>2, <3>3 DEF EndedUnchanged
  <2>2. ASSUME NEW r \in RunIds, NEW now \in Times, NEW d \in Definitions,
               CreateRun(r, d, now)
        PROVE  EndedUnchanged
    BY Zenon, <1>1, <2>2, CreateShape DEF EndedUnchanged, CreateRun, Exists, Terminal
  <2>3. CASE \E r \in RunIds : Step(r, CallerKinds) /\ UNCHANGED << graph, completing >>
    BY Zenon, <2>1, <2>3 DEF CallerKinds
  <2>4. ASSUME NEW c \in completing, NEW now \in Times, CommitCompletion(c, now)
        PROVE  EndedUnchanged
    <3>1. c[1] \in RunIds /\ {"Complete"} \in SUBSET CommandKinds
      BY Zenon, <1>1 DEF WorkflowTypeOK, CommandKinds, EndKinds
    <3>2. UNCHANGED runs => EndedUnchanged
      BY Zenon DEF EndedUnchanged
    <3> QED BY Zenon, <1>1, <2>1, <2>4, <3>1, <3>2, CommitIsStep
  <2>5. UNCHANGED runs => EndedUnchanged
    BY Zenon DEF EndedUnchanged
  <2> QED BY Zenon, <1>1, <2>2, <2>3, <2>4, <2>5, NextCases
          DEF CheckCompletion, SettleTask, CreateGraph
<1> QED BY <1>1, WorkflowTyped, PTL DEF WorkflowSpec

-----------------------------------------------------------------------------
(* The replay of a stored Run.  What validate() computes is a recursion     *)
(* over the transitions; it is reasoned about by least counterexamples.     *)

INSTANCE WellFoundedInduction

NatLess == {ss \in Nat \X Nat : ss[1] < ss[2]}

\* A set of naturals that is not empty has a least element.
LEMMA LeastElement ==
    ASSUME NEW S \in SUBSET Nat, S # {}
    PROVE  \E m \in S : \A k \in S : m <= k
<1>1. IsWellFoundedOn(NatLess, Nat)
  BY NatLessThanWellFounded, Zenon DEF OpToRel, NatLess
<1>2. PICK m \in S : \A k \in S : ~ (<<k, m>> \in NatLess)
  BY WFMin, <1>1, Zenon
<1>3. \A k \in S : <<k, m>> \in Nat \X Nat /\ <<k, m>>[1] = k /\ <<k, m>>[2] = m
  BY Zenon
<1>4. \A k \in S : ~ (k < m)
  BY <1>2, <1>3, Zenon DEF NatLess
<1> QED BY <1>4

\* f holds the Runs after each of the first m transitions of tr.
Replays(f, tr, m) ==
    f = [i \in 0 .. m |->
           IF i = 0 THEN NoRun ELSE ProjectTransition(tr, i, f[i - 1])]

\* The replay of any number of transitions exists: a first number for which
\* it does not would extend the replay of the transitions before it.
LEMMA ReplayExists ==
    ASSUME NEW tr, NEW n \in Nat
    PROVE  \E f : Replays(f, tr, n)
<1> DEFINE Take(i, s) == ProjectTransition(tr, i, s)
           S == {m \in Nat : ~ \E f : Replays(f, tr, m)}
<1>1. SUFFICES ASSUME S # {} PROVE FALSE
  BY Zenon
<1>2. PICK m \in S : \A k \in S : m <= k
  BY Zenon, <1>1, LeastElement, S \in SUBSET Nat
<1>3. CASE m = 0
  <2>1. Replays([i \in 0 .. 0 |-> NoRun], tr, 0)
    BY DEF Replays
  <2> QED BY Zenon, <2>1, <1>2, <1>3
<1>4. CASE m # 0
  <2>1. m \in Nat /\ m - 1 \in Nat /\ m - 1 \notin S
    BY <1>2, <1>4
  <2>2. PICK f : Replays(f, tr, m - 1)
    BY Zenon, <2>1
  <2> HIDE DEF Take
  <2> DEFINE g == [i \in 0 .. m |-> IF i = m THEN Take(m, f[m - 1]) ELSE f[i]]
  <2>3. ASSUME NEW i \in 0 .. m
        PROVE  g[i] = IF i = 0 THEN NoRun ELSE Take(i, g[i - 1])
    <3>1. CASE i = m
      BY <3>1, <1>4, <2>1
    <3>2. CASE i # m
      <4>1. g[i] = f[i] /\ (i # 0 => g[i - 1] = f[i - 1])
        BY <3>2, <2>1
      <4>2. f[i] = IF i = 0 THEN NoRun ELSE Take(i, f[i - 1])
        BY <2>2, <3>2, <2>1 DEF Replays, Take
      <4> QED BY Zenon, <4>1, <4>2
    <3> QED BY Zenon, <3>1, <3>2
  <2>4. g = [i \in 0 .. m |-> IF i = 0 THEN NoRun ELSE Take(i, g[i - 1])]
    BY Zenon, <2>3
  <2>5. Replays(g, tr, m)
    BY Zenon, <2>4 DEF Replays, Take
  <2> QED BY Zenon, <2>5, <1>2
<1> QED BY Zenon, <1>3, <1>4

\* Projection is the last status of the replay.
LEMMA ProjectionReplays ==
    ASSUME NEW tr, Len(tr) \in Nat
    PROVE  \E f : Replays(f, tr, Len(tr)) /\ Projection(tr) = f[Len(tr)]
<1> DEFINE p == CHOOSE f : Replays(f, tr, Len(tr))
<1>1. Replays(p, tr, Len(tr))
  BY Zenon, ReplayExists
<1>2. Projection(tr) = p[Len(tr)]
  BY Zenon DEF Projection, Replays
<1> QED BY Zenon, <1>1, <1>2

\* What a transition is replayed to depends on it and on those before it.
LEMMA ProjectPrefix ==
    ASSUME NEW tr, NEW tr2, NEW i \in Nat \ {0}, NEW s,
           \A j \in 1 .. i : tr2[j] = tr[j]
    PROVE  ProjectTransition(tr2, i, s) = ProjectTransition(tr, i, s)
<1>1. tr2[i] = tr[i] /\ \A j \in 1 .. i - 1 : tr2[j] = tr[j]
  OBVIOUS
<1> DEFINE c == tr[i].command
           waits(h) == \A j \in 1 .. i - 1 :
                         h[j].command.kind \in WaitKinds => h[j].command.wait # c.wait
           signals(h) == \A j \in 1 .. i - 1 :
                           h[j].command.kind = "DeliverSignal" => h[j].command.ref # c.ref
<1>2. waits(tr2) = waits(tr) /\ signals(tr2) = signals(tr)
  BY Zenon, <1>1
<1> QED BY ZenonT(30), <1>1, <1>2 DEF ProjectTransition

\* Replaying one more transition takes the replay of the history one step on.
LEMMA ProjectionAppend ==
    ASSUME NEW tr \in Seq(Transitions), NEW t \in Transitions
    PROVE  Projection(Append(tr, t))
             = ProjectTransition(Append(tr, t), Len(tr) + 1, Projection(tr))
<1> DEFINE n == Len(tr)
           tr2 == Append(tr, t)
<1>1. /\ n \in Nat
      /\ Len(tr2) = n + 1
      /\ \A j \in 1 .. n : tr2[j] = tr[j]
  OBVIOUS
<1>2. PICK f : Replays(f, tr, n) /\ Projection(tr) = f[n]
  BY <1>1, ProjectionReplays, Zenon
<1> HIDE DEF n, tr2
<1>3. PICK g : Replays(g, tr2, n + 1) /\ Projection(tr2) = g[n + 1]
  BY <1>1, ProjectionReplays, n + 1 \in Nat
<1> DEFINE Take(h, i, s) == ProjectTransition(h, i, s)
<1>4. /\ \A i \in 0 .. n : f[i] = IF i = 0 THEN NoRun ELSE Take(tr, i, f[i - 1])
      /\ \A i \in 0 .. n + 1 : g[i] = IF i = 0 THEN NoRun ELSE Take(tr2, i, g[i - 1])
  <2> HIDE DEF Take
  <2> QED BY Zenon, <1>2, <1>3 DEF Replays, Take
<1>5. \A i \in 1 .. n : \A s : Take(tr2, i, s) = Take(tr, i, s)
  <2> SUFFICES ASSUME NEW i \in 1 .. n, NEW s PROVE Take(tr2, i, s) = Take(tr, i, s)
    BY Zenon
  <2>1. i \in Nat \ {0} /\ \A j \in 1 .. i : tr2[j] = tr[j]
    BY <1>1
  <2> QED BY <2>1, ProjectPrefix
<1> HIDE DEF Take
<1> DEFINE S == {i \in 0 .. n : g[i] # f[i]}
<1>6. S = {}
  <2> SUFFICES ASSUME S # {} PROVE FALSE
    BY Zenon
  <2>1. S \in SUBSET Nat
    BY <1>1
  <2>2. PICK m \in S : \A k \in S : m <= k
    BY Zenon, <2>1, LeastElement
  <2>3. m \in 0 .. n /\ m \in 0 .. n + 1 /\ g[m] # f[m]
    BY <1>1
  <2>4. CASE m = 0
    BY Zenon, <1>4, <2>3, <2>4
  <2>5. CASE m # 0
    <3>1. m \in 1 .. n /\ m - 1 \in 0 .. n /\ ~ (m <= m - 1)
      BY <1>1, <2>3, <2>5
    <3>2. g[m - 1] = f[m - 1]
      BY Zenon, <2>2, <3>1
    <3>3. f[m] = Take(tr, m, f[m - 1]) /\ g[m] = Take(tr2, m, g[m - 1])
      BY Zenon, <1>4, <2>3, <2>5
    <3> QED BY Zenon, <1>5, <2>3, <3>1, <3>2, <3>3
  <2> QED BY Zenon, <2>4, <2>5
<1>7. g[n] = f[n]
  BY <1>1, <1>6
<1>8. g[n + 1] = Take(tr2, n + 1, g[n])
  <2>1. n + 1 \in 0 .. n + 1 /\ n + 1 # 0 /\ (n + 1) - 1 = n
    BY <1>1
  <2> QED BY Zenon, <1>4, <2>1
<1> QED BY <1>2, <1>3, <1>7, <1>8, Zenon DEF Take, n, tr2

\* The Run without its history: what validate() compares with the replay.
Bare(run) == [run EXCEPT !.transitions = << >>]

\* The replay of an accepted command's transition agrees with apply_kind.
LEMMA ReplayAgrees ==
    ASSUME NEW run \in RunRecords, Exists(run), NEW cmd \in Commands, NEW now \in Times,
           cmd.kind \in CommandKinds, Accepts(run, cmd, now)
    PROVE  ProjectTransition(Append(run.transitions, Transition(cmd, now)),
                             Len(run.transitions) + 1, Bare(run))
             = Bare(AppliedTo(run, cmd, now))
<1> DEFINE tr == run.transitions
           n == Len(tr)
           x == Transition(cmd, now)
           tr2 == Append(tr, x)
           p == Bare(run)
<1>0. cmd.ms \in Nat /\ now \in Nat
  BY WorkflowAssumption DEF Commands, Times
<1>1. /\ tr \in Seq(Transitions) /\ run.status \in RunStatuses
      /\ cmd.ms \in Nat /\ now \in Nat
  BY Zenon, <1>0 DEF RunRecords
<1>2. x.command = cmd /\ x.at = now /\ x \in Transitions
  BY DEF Transition, Transitions, Times
<1>3. /\ p.status = run.status /\ p.wait = run.wait /\ p.definition = run.definition
      /\ p # Refused
  <2>1. p.status = run.status /\ p.wait = run.wait /\ p.definition = run.definition
    BY Zenon DEF Bare, RunRecords
  <2>2. Refused.status = "Absent"
    BY Zenon DEF Refused, NoRun
  <2> QED BY Zenon, <2>1, <2>2 DEF Exists
<1> HIDE DEF x, tr, p
<1>4. /\ n \in Nat /\ tr2[n + 1] = x
      /\ \A j \in 1 .. n : tr2[j] = tr[j]
      /\ 1 .. (n + 1) - 1 = 1 .. n
      /\ 1 .. n = DOMAIN tr
  BY <1>1, <1>2
<1> HIDE DEF n, tr2
<1>5. cmd.kind \in WaitKinds =>
        /\ run.status = "Running"
        /\ cmd.kind # "WaitForSignal" => cmd.ms # Never
        /\ \A j \in 1 .. n : tr[j].command.kind \in WaitKinds => tr[j].command.wait # cmd.wait
  <2> SUFFICES ASSUME cmd.kind \in WaitKinds
               PROVE  /\ run.status = "Running"
                      /\ cmd.kind # "WaitForSignal" => cmd.ms # Never
                      /\ NewWaitId(run, cmd.wait)
    BY Zenon, <1>4 DEF NewWaitId, tr
  <2>1. cmd.kind # "WaitForSignal" => cmd.ms > now
    BY Zenon DEF Accepts, WaitKinds
  <2>2. cmd.ms > now => cmd.ms # Never
    BY <1>1 DEF Never
  <2> QED BY Zenon, <2>1, <2>2 DEF Accepts, WaitKinds
<1>6. cmd.kind = "DeliverSignal" =>
        /\ \A j \in 1 .. n : tr[j].command.kind = "DeliverSignal" => tr[j].command.ref # cmd.ref
        /\ run.status = "Waiting" /\ run.wait.kind = "WaitForSignal"
        /\ run.wait.id = cmd.wait /\ run.wait.topic = cmd.topic /\ ~ IsDue(run.wait, now)
  BY Zenon, <1>4 DEF Accepts, NewSignalId, tr
<1>7. /\ cmd.kind = "WakeDue" =>
           run.status = "Waiting" /\ run.wait.id = cmd.wait /\ IsDue(run.wait, now)
      /\ cmd.kind = "MigrateDefinition" =>
           run.status = "Waiting" /\ Newer(cmd.ref, run.definition)
      /\ cmd.kind = "Complete" => run.status = "Running"
      /\ cmd.kind \in {"Fail", "Cancel"} => run.status \notin Terminal
  BY Zenon DEF Accepts
<1>8. cmd.kind \in {"Fail", "Cancel"} => run.status \in {"Running", "Waiting"}
  BY Zenon, <1>1, <1>7 DEF RunStatuses, Exists
<1> DEFINE ok ==
      CASE cmd.kind = "Create" -> n + 1 = 1
        [] cmd.kind \in WaitKinds ->
             /\ p.status = "Running"
             /\ cmd.kind # "WaitForSignal" => cmd.ms # Never
             /\ \A j \in 1 .. (n + 1) - 1 :
                  tr2[j].command.kind \in WaitKinds => tr2[j].command.wait # cmd.wait
        [] cmd.kind = "DeliverSignal" ->
             /\ \A j \in 1 .. (n + 1) - 1 :
                  tr2[j].command.kind = "DeliverSignal" => tr2[j].command.ref # cmd.ref
             /\ p.status = "Waiting"
             /\ p.wait.kind = "WaitForSignal"
             /\ p.wait.id = cmd.wait
             /\ p.wait.topic = cmd.topic
             /\ ~ IsDue(p.wait, now)
        [] cmd.kind = "WakeDue" ->
             p.status = "Waiting" /\ p.wait.id = cmd.wait /\ IsDue(p.wait, now)
        [] cmd.kind = "MigrateDefinition" ->
             p.status = "Waiting" /\ Newer(cmd.ref, p.definition)
        [] cmd.kind = "Complete" -> p.status = "Running"
        [] cmd.kind \in {"Fail", "Cancel"} -> p.status \in {"Running", "Waiting"}
<1>9. ok
  BY Zenon, <1>3, <1>4, <1>5, <1>6, <1>7, <1>8 DEF CommandKinds, EndKinds, WaitKinds
<1>10. cmd.kind # "Create"
  BY Zenon DEF CommandKinds, EndKinds, WaitKinds
<1>11. ProjectTransition(tr2, n + 1, p)
         = [AppliedTo(p, cmd, now) EXCEPT !.transitions = << >>]
  <2>1. ProjectTransition(tr2, n + 1, p)
          = IF ~ ok \/ p = Refused THEN Refused
            ELSE IF cmd.kind = "Create"
                 THEN [NoRun EXCEPT !.status = "Running", !.definition = cmd.ref]
                 ELSE [AppliedTo(p, cmd, now) EXCEPT !.transitions = << >>]
    BY Zenon, <1>2, <1>4 DEF ProjectTransition
  <2> HIDE DEF ok
  <2> QED BY Zenon, <1>3, <1>9, <1>10, <2>1
<1> HIDE DEF ok
<1>12. [AppliedTo(p, cmd, now) EXCEPT !.transitions = << >>]
         = [AppliedTo(run, cmd, now) EXCEPT !.transitions = << >>]
  <2>1. NextStatus(p, cmd) = NextStatus(run, cmd) /\ NextWait(p, cmd) = NextWait(run, cmd)
    BY Zenon, <1>3 DEF NextStatus, NextWait
  <2> DEFINE s == NextStatus(run, cmd)
             w == NextWait(run, cmd)
             d == IF cmd.kind = "MigrateDefinition" THEN cmd.ref ELSE run.definition
  <2>2. /\ AppliedTo(p, cmd, now)
             = [status |-> s, wait |-> w, definition |-> d,
                transitions |-> Append(p.transitions, x)]
        /\ AppliedTo(run, cmd, now)
             = [status |-> s, wait |-> w, definition |-> d,
                transitions |-> Append(run.transitions, x)]
    BY Zenon, <1>3, <2>1 DEF AppliedTo, x
  <2> HIDE DEF s, w, d
  <2>3. PICK a, b, u, v : /\ a = Append(p.transitions, x) /\ b = Append(run.transitions, x)
                          /\ u = AppliedTo(p, cmd, now) /\ v = AppliedTo(run, cmd, now)
    BY Zenon
  <2>4. /\ u = [status |-> s, wait |-> w, definition |-> d, transitions |-> a]
        /\ v = [status |-> s, wait |-> w, definition |-> d, transitions |-> b]
    BY Zenon, <2>2, <2>3
  <2>5. [u EXCEPT !.transitions = << >>] = [v EXCEPT !.transitions = << >>]
    BY <2>4
  <2> QED BY Zenon, <2>3, <2>5
<1> QED BY Zenon, <1>11, <1>12 DEF Bare, p, tr, tr2, x, n

\* The status, wait and definition of a stored Run follow from its history.
ReplaysOK ==
    \A r \in RunIds : Exists(runs[r]) => Projection(runs[r].transitions) = Bare(runs[r])

\* The replay of a creation is the Run that WorkflowRun::new makes.
LEMMA CreationReplays ==
    ASSUME NEW d \in Definitions, NEW now \in Times
    PROVE  LET run == NewRun(<< "caller", 1 >>, d, now)
           IN  Projection(run.transitions) = Bare(run)
<1> USE WorkflowAssumption
<1> DEFINE run == NewRun(<< "caller", 1 >>, d, now)
           x == Transition(Command(<< "caller", 1 >>, "Create", NoId, Never, NoTopic, d), now)
<1>1. x \in Transitions /\ x.command.kind = "Create" /\ x.command.ref = d
  BY DEF Transition, Transitions, Command, Commands, References, Times, NoId, Never
<1>2. run = [status |-> "Running", wait |-> NoWait, definition |-> d, transitions |-> << x >>]
  BY Zenon DEF NewRun
<1>4. Refused # NoRun
  BY Zenon DEF Refused, NoRun, Nothing
<1> HIDE DEF x, run
<1>3. run.transitions = << x >> /\ Bare(run) = [NoRun EXCEPT !.status = "Running", !.definition = d]
  <2> DEFINE empty == << >>
             y == << x >>
             a == [run EXCEPT !.transitions = empty]
             b == [NoRun EXCEPT !.status = "Running", !.definition = d]
             One == [status : {"Running"}, wait : {NoWait}, definition : {d},
                     transitions : {empty}]
  <2>1. NoRun = [status |-> "Absent", wait |-> NoWait, definition |-> Nothing,
                 transitions |-> empty]
    BY Zenon DEF NoRun
  <2>2. run = [status |-> "Running", wait |-> NoWait, definition |-> d, transitions |-> y]
    BY Zenon, <1>2
  <2> HIDE DEF empty, y
  <2>3. a \in One
    BY Zenon, <2>2
  <2>4. b \in One
    BY Zenon, <2>1
  <2>5. ASSUME NEW c \in One
        PROVE  c = [status |-> "Running", wait |-> NoWait, definition |-> d,
                    transitions |-> empty]
    BY Zenon
  <2> HIDE DEF a, b, One
  <2>6. a = b
    BY Zenon, <2>3, <2>4, <2>5
  <2> QED BY Zenon, <2>2, <2>6 DEF a, b, empty, y, Bare
<1>5. /\ Append(<< >>, x) = << x >> /\ << x >>[1] = x
      /\ << >> \in Seq(Transitions) /\ Len(<< >>) = 0 /\ Len(<< >>) + 1 = 1
  OBVIOUS
<1>6. Projection(<< >>) = NoRun
  <2>1. Len(<< >>) \in Nat /\ 0 \in 0 .. 0
    OBVIOUS
  <2>2. PICK f : Replays(f, << >>, Len(<< >>)) /\ Projection(<< >>) = f[Len(<< >>)]
    BY Zenon, <2>1, ProjectionReplays
  <2>3. f = [i \in 0 .. 0 |-> IF i = 0 THEN NoRun ELSE ProjectTransition(<< >>, i, f[i - 1])]
    BY Zenon, <1>5, <2>2 DEF Replays
  <2>4. f[0] = IF 0 = 0 THEN NoRun ELSE ProjectTransition(<< >>, 0, f[0 - 1])
    BY Zenon, <2>1, <2>3
  <2> QED BY Zenon, <1>5, <2>2, <2>4
<1>7. Projection(<< x >>) = ProjectTransition(<< x >>, 1, NoRun)
  BY Zenon, <1>1, <1>5, <1>6, ProjectionAppend
<1>8. ProjectTransition(<< x >>, 1, NoRun) = [NoRun EXCEPT !.status = "Running", !.definition = d]
  BY Zenon, <1>1, <1>4, <1>5 DEF ProjectTransition, WaitKinds
<1> QED BY Zenon, <1>3, <1>7, <1>8 DEF run

\* Every stored Run is one that validate() accepts when it is read back, whatever
\* commands, completions, wakes and clock readings produced it: apply_kind and the replay
\* agree on every history of any length.
THEOREM RunAlwaysReplays == WorkflowSpec => []RunReplays
<1> USE WorkflowAssumption
<1>1. WorkflowInit => ReplaysOK
  BY DEF WorkflowInit, ReplaysOK, NoRun, Exists
<1>2. WorkflowTypeOK /\ ReplaysOK /\ [WorkflowNext]_workflowVars => ReplaysOK'
  <2> SUFFICES ASSUME WorkflowTypeOK, ReplaysOK, [WorkflowNext]_workflowVars
               PROVE  ReplaysOK'
    BY Zenon
  <2>1. CASE UNCHANGED runs
    BY Zenon, <2>1 DEF ReplaysOK
  <2>2. ASSUME NEW r \in RunIds, NEW kinds \in SUBSET CommandKinds, Step(r, kinds)
        PROVE  ReplaysOK'
    <3>1. PICK cmd \in Commands, now \in Times :
            /\ cmd.kind \in CommandKinds
            /\ Exists(runs[r])
            /\ CanApply(runs[r], cmd, now)
            /\ runs' = [runs EXCEPT ![r] = AppliedTo(runs[r], cmd, now)]
      BY Zenon, <2>2 DEF Step
    <3> DEFINE tr == runs[r].transitions
               x == Transition(cmd, now)
    <3>2. runs[r] \in RunRecords /\ Accepts(runs[r], cmd, now)
      BY Zenon, <3>1 DEF WorkflowTypeOK, CanApply
    <3>3. tr \in Seq(Transitions) /\ x \in Transitions
      BY <3>2 DEF RunRecords, Transition, Transitions, Times
    <3>4. Projection(Append(tr, x)) = ProjectTransition(Append(tr, x), Len(tr) + 1, Projection(tr))
      BY Zenon, <3>3, ProjectionAppend
    <3>5. Projection(tr) = Bare(runs[r])
      BY Zenon, <3>1 DEF ReplaysOK
    <3>6. Projection(Append(tr, x)) = Bare(AppliedTo(runs[r], cmd, now))
      BY Zenon, <3>1, <3>2, <3>4, <3>5, ReplayAgrees
    <3>7. /\ runs'[r] = AppliedTo(runs[r], cmd, now)
          /\ runs'[r].transitions = Append(tr, x)
          /\ \A q \in RunIds \ {r} : runs'[q] = runs[q]
      <4>1. runs'[r] = AppliedTo(runs[r], cmd, now)
        BY Zenon, <3>1 DEF WorkflowTypeOK
      <4>2. /\ runs'[r].transitions = Append(runs[r].transitions, Transition(cmd, now))
            /\ \A q \in RunIds \ {r} : runs'[q] = runs[q]
        <5>1. Stepped(r, cmd, now)
          BY Zenon, <3>1, StepShape
        <5> QED BY Zenon, <5>1 DEF Stepped
      <4> QED BY Zenon, <4>1, <4>2
    <3> QED BY Zenon, <3>6, <3>7 DEF ReplaysOK
  <2>3. ASSUME NEW r \in RunIds, NEW now \in Times, NEW d \in Definitions,
               CreateRun(r, d, now)
        PROVE  ReplaysOK'
    <3>1. /\ runs'[r] = NewRun(<< "caller", 1 >>, d, now)
          /\ \A q \in RunIds \ {r} : runs'[q] = runs[q]
      BY Zenon, <2>3 DEF CreateRun, WorkflowTypeOK
    <3> QED BY Zenon, <3>1, CreationReplays DEF ReplaysOK
  <2>4. CASE \E r \in RunIds : Step(r, CallerKinds) /\ UNCHANGED << graph, completing >>
    BY Zenon, <2>2, <2>4 DEF CallerKinds
  <2>5. ASSUME NEW c \in completing, NEW now \in Times, CommitCompletion(c, now)
        PROVE  ReplaysOK'
    <3>1. c[1] \in RunIds /\ {"Complete"} \in SUBSET CommandKinds
      BY Zenon DEF WorkflowTypeOK, CommandKinds, EndKinds
    <3> QED BY Zenon, <2>1, <2>2, <2>5, <3>1, CommitIsStep
  <2> QED BY Zenon, <2>1, <2>3, <2>4, <2>5, NextCases
          DEF CheckCompletion, SettleTask, CreateGraph, workflowVars
<1>3. WorkflowTypeOK /\ HistoriesOK /\ ReplaysOK => RunReplays
  <2> SUFFICES ASSUME WorkflowTypeOK, HistoriesOK, ReplaysOK,
                      NEW r \in RunIds, Exists(runs[r])
               PROVE  Validate(runs[r])
    BY Zenon DEF RunReplays
  <2> DEFINE tr == runs[r].transitions
  <2>1. HistoryOK(tr) /\ Projection(tr) = [runs[r] EXCEPT !.transitions = << >>]
    BY Zenon DEF HistoriesOK, ReplaysOK, Bare
  <2>2. tr \in Seq(Transitions) /\ tr # << >>
    BY Zenon DEF WorkflowTypeOK, RunRecords
  <2> HIDE DEF tr
  <2>3. Len(tr) \in Nat /\ Len(tr) # 0 /\ DOMAIN tr = 1 .. Len(tr)
    BY <2>2
  <2>4. Len(tr) <= MAX_WORKFLOW_TRANSITIONS
    BY Zenon, <2>1 DEF HistoryOK
  <2>5. Len(tr) \in 1 .. MAX_WORKFLOW_TRANSITIONS
    BY <2>3, <2>4 DEF MAX_WORKFLOW_TRANSITIONS, WORKFLOW_SETTLEMENT_TRANSITION_RESERVE
  <2> QED BY Zenon, <2>1, <2>3, <2>5 DEF HistoryOK, Validate, tr
<1> QED BY <1>1, <1>2, <1>3, WorkflowTyped, HistoriesAlwaysOK, PTL DEF WorkflowSpec

-----------------------------------------------------------------------------
(* The Human Handoff store.                                                 *)

\* Clock readings.
Moments == Nat

Actors == Operators \cup {Temporal}

CaseKinds == {"Claim", "RenewClaim", "ReleaseClaim", "ExpireClaim", "Resolve", "Cancel"}

CaseCommands == [id : {"caller", "handoff-expire"} \X Nat, kind : CaseKinds \cup {"Create"},
                 claim : Nat, lease : Nat \cup Priorities]

CaseTransitions == [command : CaseCommands, actor : Actors, at : Nat, previous : Nat]

CaseRecords == [status : {"Absent", "Queued", "Claimed", "Resolved", "Cancelled"},
                claim : [id : Nat, owner : Actors \cup {""}, expires : Nat],
                priority : {0} \cup Priorities, requestedAt : Nat,
                transitions : Seq(CaseTransitions)]

HandoffTypeOK ==
    /\ cases \in [CaseIds -> CaseRecords]
    /\ \A h \in CaseIds : CaseExists(cases[h]) => cases[h].transitions # << >>

\* What every accepted command does to case h.
CaseStep(h) ==
    \E cmd \in CaseCommands, actor \in Actors, now \in Moments :
        /\ cmd.kind \in CaseKinds
        /\ cmd.lease \in Nat
        /\ CaseExists(cases[h])
        /\ ~ KnownCaseId(cases[h], cmd.id)
        /\ CaseCanApply(cases[h], cmd, actor, now)
        /\ cases' = [cases EXCEPT ![h] = CaseAppliedTo(cases[h], cmd, actor, now)]

\* apply_as stores nothing but what apply accepts.
LEMMA ApplyIsCaseStep ==
    ASSUME NEW h \in CaseIds, NEW revision, NEW cmd \in CaseCommands, NEW actor \in Actors,
           NEW now \in Moments, cmd.kind \in CaseKinds, cmd.lease \in Nat,
           ApplyCase(h, revision, cmd, actor, now)
    PROVE  CaseStep(h)
BY Zenon DEF ApplyCase, CaseReply, CaseStep

\* Every command an operator can send is one of apply's.
LEMMA SubmitIsCaseStep ==
    ASSUME HandoffTypeOK, NEW h \in CaseIds, NEW now \in Moments, NEW kind \in CaseKinds,
           NEW claim \in Nat, NEW lease \in Nat, NEW actor \in Actors,
           SubmitCase(h, kind, claim, lease, actor, now)
    PROVE  CaseStep(h)
<1>1. CaseRevision(cases[h]) \in Nat
  <2>1. cases[h] \in CaseRecords
    BY Zenon DEF HandoffTypeOK
  <2>2. cases[h].transitions \in Seq(CaseTransitions)
    BY Zenon, <2>1 DEF CaseRecords
  <2> QED BY <2>2 DEF CaseRevision
<1>2. PICK n \in Nat :
        ApplyCase(h, CaseRevision(cases[h]),
                  HandoffCommand(<< "caller", n >>, kind, claim, lease), actor, now)
  BY <1>1 DEF SubmitCase
<1> DEFINE cmd == HandoffCommand(<< "caller", n >>, kind, claim, lease)
<1>3. cmd \in CaseCommands /\ cmd.kind \in CaseKinds /\ cmd.lease \in Nat
  BY Zenon DEF HandoffCommand, CaseCommands
<1> HIDE DEF cmd
<1>4. ApplyCase(h, CaseRevision(cases[h]), cmd, actor, now)
  BY Zenon, <1>2 DEF cmd
<1> QED BY Zenon, <1>3, <1>4, ApplyIsCaseStep

\* What a step of the specification can be.
LEMMA HandoffCases ==
    ASSUME HandoffTypeOK, HandoffNext
    PROVE  \/ \E h \in CaseIds : CaseStep(h)
           \/ \E h \in CaseIds, p \in Priorities, actor \in Operators, now \in Moments :
                CreateCase(h, p, actor, now)
<1> USE HandoffAssumption
<1>1. PICK h \in CaseIds, now \in Moments :
        \/ \E actor \in Operators : CaseNext(h, actor, now)
        \/ \E actor \in Actors :
             ExpireClaim(h, CaseRevision(cases[h]), cases[h].claim.id, actor, now)
  BY Zenon DEF HandoffNext, Actors, Moments
<1>2. /\ CaseKinds = {"Claim", "RenewClaim", "ReleaseClaim", "ExpireClaim", "Resolve", "Cancel"}
      /\ ClaimIds \subseteq Nat /\ HandoffLeases \subseteq Nat /\ 0 \in Nat
      /\ Operators \subseteq Actors
  BY Zenon DEF CaseKinds, Actors
<1>3. ASSUME NEW actor \in Operators, CaseNext(h, actor, now)
      PROVE  CaseStep(h) \/ \E p \in Priorities : CreateCase(h, p, actor, now)
  <2>1. CASE Claim(h, actor, now)
    BY Zenon, <1>2, <2>1, SubmitIsCaseStep DEF Claim, ProposedClaims
  <2>2. CASE RenewClaim(h, actor, now)
    BY Zenon, <1>2, <2>2, SubmitIsCaseStep DEF RenewClaim
  <2>3. CASE ReleaseClaim(h, actor, now)
    BY Zenon, <1>2, <2>3, SubmitIsCaseStep DEF ReleaseClaim
  <2>4. CASE Resolve(h, actor, now)
    BY Zenon, <1>2, <2>4, SubmitIsCaseStep DEF Resolve
  <2>5. CASE CancelCase(h, actor, now)
    BY Zenon, <1>2, <2>5, SubmitIsCaseStep DEF CancelCase
  <2> QED BY Zenon, <1>3, <2>1, <2>2, <2>3, <2>4, <2>5 DEF CaseNext
<1>4. ASSUME NEW actor \in Actors,
             ExpireClaim(h, CaseRevision(cases[h]), cases[h].claim.id, actor, now)
      PROVE  CaseStep(h)
  <2> DEFINE claim == cases[h].claim.id
  <2>0. claim \in Nat
    BY Zenon DEF HandoffTypeOK, CaseRecords
  <2> HIDE DEF claim
  <2>1. /\ ExpireCommand(claim) \in CaseCommands
        /\ ExpireCommand(claim).kind \in CaseKinds
        /\ ExpireCommand(claim).lease \in Nat
    BY Zenon, <1>2, <2>0 DEF ExpireCommand, HandoffCommand, CaseCommands
  <2> QED BY Zenon, <1>4, <2>1, ApplyIsCaseStep DEF ExpireClaim, claim
<1> QED BY Zenon, <1>1, <1>3, <1>4

-----------------------------------------------------------------------------
(* Types.                                                                   *)

\* The transition apply records for a command.
Stored(case, cmd, actor, now) ==
    Recorded(cmd, actor, now, IF cmd.kind = "RenewClaim" THEN case.claim.expires ELSE 0)

\* What a command that is applied leaves.
Applied(h, cmd, actor, now) ==
    /\ Stored(cases[h], cmd, actor, now) \in CaseTransitions
    /\ Stored(cases[h], cmd, actor, now).command = cmd
    /\ Stored(cases[h], cmd, actor, now).actor = actor
    /\ cases' \in [CaseIds -> CaseRecords]
    /\ cases'[h].status = CaseNextStatus(cmd)
    /\ cases'[h].claim = CaseNextClaim(cmd, actor, now)
    /\ cases[h].transitions \in Seq(CaseTransitions)
    /\ cases'[h].transitions =
         Append(cases[h].transitions, Stored(cases[h], cmd, actor, now))
    /\ CaseRevision(cases[h]) \in Nat
    /\ CaseRevision(cases'[h]) = CaseRevision(cases[h]) + 1
    /\ \A g \in CaseIds \ {h} : cases'[g] = cases[g]

\* A step of a case keeps its shape, lengthens its history by one transition and leaves
\* the other cases alone.
LEMMA CaseStepShape ==
    ASSUME HandoffTypeOK, NEW h \in CaseIds, NEW cmd \in CaseCommands, NEW actor \in Actors,
           NEW now \in Moments, cmd.kind \in CaseKinds, cmd.lease \in Nat,
           cases' = [cases EXCEPT ![h] = CaseAppliedTo(cases[h], cmd, actor, now)]
    PROVE  Applied(h, cmd, actor, now)
<1> DEFINE x == Stored(cases[h], cmd, actor, now)
<1>1. cases[h] \in CaseRecords
  BY Zenon DEF HandoffTypeOK
<1>2. CaseNextStatus(cmd) \in {"Absent", "Queued", "Claimed", "Resolved", "Cancelled"}
  BY Zenon DEF CaseNextStatus, CaseKinds
<1>3. CaseNextClaim(cmd, actor, now) \in [id : Nat, owner : Actors \cup {""}, expires : Nat]
  <2>1. cmd.claim \in Nat /\ now + cmd.lease \in Nat
    BY DEF CaseCommands, Moments
  <2>2. NoClaim \in [id : Nat, owner : Actors \cup {""}, expires : Nat]
    BY Zenon DEF NoClaim
  <2> QED BY Zenon, <2>1, <2>2 DEF CaseNextClaim
<1>4. cases[h].claim.expires \in Nat /\ cases[h].transitions \in Seq(CaseTransitions)
  BY Zenon, <1>1 DEF CaseRecords
<1>5. x \in CaseTransitions /\ x.command = cmd /\ x.actor = actor
  BY Zenon, <1>4 DEF Stored, Recorded, CaseTransitions, Moments
<1> HIDE DEF x
<1>6. Append(cases[h].transitions, x) \in Seq(CaseTransitions)
  BY <1>4, <1>5
<1> DEFINE new == CaseAppliedTo(cases[h], cmd, actor, now)
<1>7. new = [cases[h] EXCEPT !.status = CaseNextStatus(cmd),
                             !.claim = CaseNextClaim(cmd, actor, now),
                             !.transitions = Append(cases[h].transitions, x)]
  BY Zenon DEF CaseAppliedTo, Stored, x
<1> HIDE DEF new
<1>8. /\ new \in CaseRecords
      /\ new.status = CaseNextStatus(cmd)
      /\ new.claim = CaseNextClaim(cmd, actor, now)
      /\ new.transitions = Append(cases[h].transitions, x)
  BY Zenon, <1>1, <1>2, <1>3, <1>6, <1>7 DEF CaseRecords
<1>9. /\ cases' \in [CaseIds -> CaseRecords] /\ cases'[h] = new
      /\ \A g \in CaseIds \ {h} : cases'[g] = cases[g]
  BY Zenon, <1>8 DEF HandoffTypeOK, new
<1>10. /\ CaseRevision(cases[h]) \in Nat
       /\ CaseRevision(cases'[h]) = CaseRevision(cases[h]) + 1
  BY <1>4, <1>5, <1>8, <1>9 DEF CaseRevision
<1> QED BY Zenon, <1>4, <1>5, <1>8, <1>9, <1>10 DEF x, Applied

\* A created case is queued and has one transition.
LEMMA CreateCaseShape ==
    ASSUME HandoffTypeOK, NEW h \in CaseIds, NEW p \in Priorities, NEW actor \in Operators,
           NEW now \in Moments, CreateCase(h, p, actor, now)
    PROVE  /\ cases' \in [CaseIds -> CaseRecords]
           /\ cases'[h].status = "Queued"
           /\ \E x \in CaseTransitions :
                cases'[h].transitions = << x >> /\ x.command.kind = "Create"
           /\ \A g \in CaseIds \ {h} : cases'[g] = cases[g]
<1> DEFINE x == Recorded(HandoffCommand(<< "caller", 1 >>, "Create", 0, p), actor, now, 0)
<1>1. x \in CaseTransitions /\ x.command.kind = "Create"
  BY Zenon DEF Recorded, HandoffCommand, CaseTransitions, CaseCommands, Actors, Moments
<1>2. << x >> \in Seq(CaseTransitions)
  BY <1>1
<1>3. /\ NewCase(<< "caller", 1 >>, p, actor, now) \in CaseRecords
      /\ NewCase(<< "caller", 1 >>, p, actor, now).status = "Queued"
      /\ NewCase(<< "caller", 1 >>, p, actor, now).transitions = << x >>
  BY Zenon, <1>2 DEF NewCase, CaseRecords, NoClaim, Moments
<1> QED BY Zenon, <1>1, <1>3 DEF CreateCase, HandoffTypeOK

\* Every stored case keeps its type and has a history.
THEOREM HandoffTyped == HandoffSpec => []HandoffTypeOK
<1>1. HandoffInit => HandoffTypeOK
  <2>1. << >> \in Seq(CaseTransitions)
    OBVIOUS
  <2>2. NoCase \in CaseRecords
    BY Zenon, <2>1 DEF NoCase, CaseRecords, NoClaim
  <2> QED BY <2>2 DEF HandoffInit, HandoffTypeOK, NoCase, CaseExists
<1>2. HandoffTypeOK /\ [HandoffNext]_cases => HandoffTypeOK'
  <2> SUFFICES ASSUME HandoffTypeOK, [HandoffNext]_cases PROVE HandoffTypeOK'
    BY Zenon
  <2>1. CASE UNCHANGED cases
    BY Zenon, <2>1 DEF HandoffTypeOK
  <2>2. ASSUME NEW h \in CaseIds, CaseStep(h) PROVE HandoffTypeOK'
    <3>1. PICK cmd \in CaseCommands, actor \in Actors, now \in Moments :
            /\ cmd.kind \in CaseKinds /\ cmd.lease \in Nat
            /\ cases' = [cases EXCEPT ![h] = CaseAppliedTo(cases[h], cmd, actor, now)]
      BY Zenon, <2>2 DEF CaseStep
    <3>2. /\ cases' \in [CaseIds -> CaseRecords]
          /\ CaseRevision(cases[h]) \in Nat
          /\ CaseRevision(cases'[h]) = CaseRevision(cases[h]) + 1
          /\ \A g \in CaseIds \ {h} : cases'[g] = cases[g]
      BY Zenon, <3>1, CaseStepShape DEF Applied
    <3>3. cases'[h].transitions # << >>
      BY <3>2 DEF CaseRevision
    <3> QED BY Zenon, <3>2, <3>3 DEF HandoffTypeOK
  <2>3. ASSUME NEW h \in CaseIds, NEW p \in Priorities, NEW actor \in Operators,
               NEW now \in Moments, CreateCase(h, p, actor, now)
        PROVE  HandoffTypeOK'
    <3>1. PICK x : cases'[h].transitions = << x >>
      BY Zenon, <2>3, CreateCaseShape
    <3>2. cases'[h].transitions # << >>
      BY <3>1
    <3> QED BY Zenon, <2>3, <3>2, CreateCaseShape DEF HandoffTypeOK
  <2> QED BY Zenon, <2>1, <2>2, <2>3, HandoffCases
<1> QED BY <1>1, <1>2, PTL DEF HandoffSpec

-----------------------------------------------------------------------------
(* Safety.                                                                  *)

\* A case that is not terminal can always be cancelled, and a claimed one released or
\* expired first: validate_transition_capacity keeps the reserve.  Inductive as it stands.
THEOREM CaseReserveAlways == HandoffSpec => []CaseReserve
<1> USE HandoffAssumption
    DEF MAX_HANDOFF_TRANSITIONS, HANDOFF_SETTLEMENT_TRANSITION_RESERVE
<1>1. HandoffInit => CaseReserve
  BY DEF HandoffInit, CaseReserve, NoCase, CaseOpen
<1>2. HandoffTypeOK /\ CaseReserve /\ [HandoffNext]_cases => CaseReserve'
  <2> SUFFICES ASSUME HandoffTypeOK, CaseReserve, [HandoffNext]_cases PROVE CaseReserve'
    BY Zenon
  <2>1. CASE UNCHANGED cases
    BY Zenon, <2>1 DEF CaseReserve
  <2>2. ASSUME NEW h \in CaseIds, CaseStep(h) PROVE CaseReserve'
    <3>1. PICK cmd \in CaseCommands, actor \in Actors, now \in Moments :
            /\ cmd.kind \in CaseKinds /\ cmd.lease \in Nat
            /\ CaseCanApply(cases[h], cmd, actor, now)
            /\ cases' = [cases EXCEPT ![h] = CaseAppliedTo(cases[h], cmd, actor, now)]
      BY Zenon, <2>2 DEF CaseStep
    <3> DEFINE n == CaseRevision(cases[h])
    <3>2. /\ cases'[h].status = CaseNextStatus(cmd)
          /\ n \in Nat
          /\ CaseRevision(cases'[h]) = n + 1
          /\ \A g \in CaseIds \ {h} : cases'[g] = cases[g]
      BY Zenon, <3>1, CaseStepShape DEF Applied
    <3> HIDE DEF n
    <3>3. CASE cmd.kind \in {"Claim", "RenewClaim"}
      <4>1. n < MAX_HANDOFF_WORK_TRANSITIONS
        BY Zenon, <3>1, <3>3 DEF n, CaseCanApply, CaseCapacityLeft, SettlesCase
      <4>2. CaseCapacityLeft(n + 1, "Cancel") /\ CaseCapacityLeft(n + 2, "Cancel")
        BY <3>2, <4>1 DEF CaseCapacityLeft, SettlesCase
      <4>3. (n + 1) + 1 = n + 2
        BY <3>2
      <4> QED BY Zenon, <3>2, <4>2, <4>3 DEF CaseReserve
    <3>4. CASE cmd.kind \in {"ReleaseClaim", "ExpireClaim"}
      <4>1. cases[h].status = "Claimed" /\ cases'[h].status = "Queued"
        BY Zenon, <3>1, <3>2, <3>4 DEF CaseCanApply, CaseAccepts, ActiveOwnedClaim, CaseNextStatus
      <4>2. CaseCapacityLeft(n + 1, "Cancel")
        BY Zenon, <4>1 DEF CaseReserve, n
      <4> QED BY Zenon, <3>2, <4>1, <4>2 DEF CaseReserve
    <3>5. CASE cmd.kind \in {"Resolve", "Cancel"}
      <4>1. cases'[h].status \in {"Resolved", "Cancelled"}
        BY Zenon, <3>2, <3>5 DEF CaseNextStatus
      <4> QED BY Zenon, <3>2, <4>1 DEF CaseReserve, CaseOpen
    <3> QED BY Zenon, <3>1, <3>3, <3>4, <3>5 DEF CaseKinds
  <2>3. ASSUME NEW h \in CaseIds, NEW p \in Priorities, NEW actor \in Operators,
               NEW now \in Moments, CreateCase(h, p, actor, now)
        PROVE  CaseReserve'
    <3>1. PICK x : cases'[h].transitions = << x >>
      BY Zenon, <2>3, CreateCaseShape
    <3>2. CaseRevision(cases'[h]) = 1
      BY <3>1 DEF CaseRevision
    <3>3. cases'[h].status = "Queued" /\ \A g \in CaseIds \ {h} : cases'[g] = cases[g]
      BY Zenon, <2>3, CreateCaseShape
    <3>4. CaseCapacityLeft(1, "Cancel") /\ "Queued" # "Claimed"
      BY DEF CaseCapacityLeft, SettlesCase
    <3> QED BY Zenon, <3>2, <3>3, <3>4 DEF CaseReserve
  <2> QED BY Zenon, <2>1, <2>2, <2>3, HandoffCases
<1> QED BY <1>1, <1>2, HandoffTyped, PTL DEF HandoffSpec

\* In history tr, transition i started claim c for operator o.
Starts(tr, i, c, o) ==
    tr[i].command.kind = "Claim" /\ tr[i].command.claim = c /\ tr[i].actor = o

\* A claim identity is started once in a history ...
ClaimsOnce(tr) ==
    \A i, j \in 1 .. Len(tr) :
        (tr[i].command.kind = "Claim" /\ tr[j].command.kind = "Claim" /\ i # j)
            => tr[i].command.claim # tr[j].command.claim

\* ... and the claim a case is under was started by its owner.
ClaimOwned ==
    \A h \in CaseIds :
        LET tr == cases[h].transitions IN
        /\ ClaimsOnce(tr)
        /\ cases[h].status = "Claimed" =>
             \E i \in 1 .. Len(tr) : Starts(tr, i, cases[h].claim.id, cases[h].claim.owner)

\* A claim never passes to a second operator: identities of claims are not reused, and a
\* renewal keeps the identity and the owner, so an operator whose claim lapsed cannot act
\* under the claim of the next one.
THEOREM ClaimOwnedAlways == HandoffSpec => []ClaimOwned
<1>1. HandoffInit => ClaimOwned
  BY DEF HandoffInit, ClaimOwned, ClaimsOnce, NoCase
<1>2. HandoffTypeOK /\ ClaimOwned /\ [HandoffNext]_cases => ClaimOwned'
  <2> SUFFICES ASSUME HandoffTypeOK, ClaimOwned, [HandoffNext]_cases PROVE ClaimOwned'
    BY Zenon
  <2>1. CASE UNCHANGED cases
    BY Zenon, <2>1 DEF ClaimOwned
  <2>2. ASSUME NEW h \in CaseIds, CaseStep(h) PROVE ClaimOwned'
    <3>1. PICK cmd \in CaseCommands, actor \in Actors, now \in Moments :
            /\ cmd.kind \in CaseKinds /\ cmd.lease \in Nat
            /\ CaseCanApply(cases[h], cmd, actor, now)
            /\ cases' = [cases EXCEPT ![h] = CaseAppliedTo(cases[h], cmd, actor, now)]
      BY Zenon, <2>2 DEF CaseStep
    <3> DEFINE tr == cases[h].transitions
               n == Len(tr)
               new == cases'[h].transitions
               x == Stored(cases[h], cmd, actor, now)
    <3>2.   /\ x \in CaseTransitions
            /\ x.command = cmd /\ x.actor = actor
            /\ cases'[h].status = CaseNextStatus(cmd)
            /\ cases'[h].claim = CaseNextClaim(cmd, actor, now)
            /\ tr \in Seq(CaseTransitions)
            /\ new = Append(tr, x)
            /\ \A g \in CaseIds \ {h} : cases'[g] = cases[g]
      <4>1. Applied(h, cmd, actor, now)
        BY Zenon, <3>1, CaseStepShape
      <4> QED BY Zenon, <4>1 DEF Applied
    <3>3. /\ n \in Nat /\ Len(new) = n + 1 /\ new[n + 1] = x
          /\ \A i \in 1 .. n : new[i] = tr[i]
      BY <3>2
    <3>4. ClaimsOnce(tr)
      BY Zenon DEF ClaimOwned
    <3>5. cmd.kind = "Claim" =>
            \A i \in 1 .. n : tr[i].command.kind = "Claim" => tr[i].command.claim # cmd.claim
      <4> SUFFICES ASSUME cmd.kind = "Claim" PROVE NewClaimId(cases[h], cmd.claim)
        BY <3>2 DEF NewClaimId
      <4> QED BY Zenon, <3>1 DEF CaseCanApply, CaseAccepts
    <3>6. cases[h].status = "Claimed" =>
            \E i \in 1 .. n : Starts(tr, i, cases[h].claim.id, cases[h].claim.owner)
      BY Zenon DEF ClaimOwned
    <3>7. cmd.kind = "RenewClaim" => /\ cases[h].status = "Claimed"
                                     /\ cases[h].claim.id = cmd.claim
                                     /\ cases[h].claim.owner = actor
      BY Zenon, <3>1 DEF CaseCanApply, CaseAccepts, ActiveOwnedClaim
    <3> HIDE DEF tr, n, new, x
    <3>8. ClaimsOnce(new)
      <4> SUFFICES ASSUME NEW i \in 1 .. n + 1, NEW j \in 1 .. n + 1, i # j,
                          new[i].command.kind = "Claim", new[j].command.kind = "Claim"
                   PROVE  new[i].command.claim # new[j].command.claim
        BY Zenon, <3>3 DEF ClaimsOnce
      <4>1. CASE i = n + 1
        <5>1. j \in 1 .. n
          BY <3>3, <4>1
        <5> QED BY Zenon, <3>2, <3>3, <3>5, <4>1, <5>1
      <4>2. CASE j = n + 1
        <5>1. i \in 1 .. n
          BY <3>3, <4>2
        <5> QED BY Zenon, <3>2, <3>3, <3>5, <4>2, <5>1
      <4>3. CASE i \in 1 .. n /\ j \in 1 .. n
        BY Zenon, <3>3, <3>4, <4>3 DEF ClaimsOnce, n
      <4> QED BY <3>3, <4>1, <4>2, <4>3
    <3>9. cases'[h].status = "Claimed" =>
            \E i \in 1 .. Len(new) : Starts(new, i, cases'[h].claim.id, cases'[h].claim.owner)
      <4> SUFFICES ASSUME cases'[h].status = "Claimed"
                   PROVE  \E i \in 1 .. n + 1 :
                            Starts(new, i, cases'[h].claim.id, cases'[h].claim.owner)
        BY Zenon, <3>3
      <4>1. /\ cmd.kind \in {"Claim", "RenewClaim"}
            /\ cases'[h].claim.id = cmd.claim /\ cases'[h].claim.owner = actor
        BY <3>1, <3>2 DEF CaseNextStatus, CaseNextClaim, CaseKinds
      <4>2. CASE cmd.kind = "Claim"
        <5>1. n + 1 \in 1 .. n + 1
          BY <3>3
        <5> QED BY Zenon, <3>2, <3>3, <4>1, <4>2, <5>1 DEF Starts
      <4>3. CASE cmd.kind = "RenewClaim"
        <5>1. PICK i \in 1 .. n : Starts(tr, i, cmd.claim, actor)
          BY Zenon, <3>6, <3>7, <4>3
        <5>2. i \in 1 .. n + 1 /\ Starts(new, i, cmd.claim, actor)
          BY <3>3, <5>1 DEF Starts
        <5> QED BY Zenon, <4>1, <5>2
      <4> QED BY Zenon, <4>1, <4>2, <4>3
    <3> QED BY Zenon, <3>2, <3>8, <3>9 DEF ClaimOwned, new
  <2>3. ASSUME NEW h \in CaseIds, NEW p \in Priorities, NEW actor \in Operators,
               NEW now \in Moments, CreateCase(h, p, actor, now)
        PROVE  ClaimOwned'
    <3>1. PICK x : cases'[h].transitions = << x >>
      BY Zenon, <2>3, CreateCaseShape
    <3>2. Len(<< x >>) = 1
      BY Zenon
    <3>3. ClaimsOnce(<< x >>)
      BY <3>2 DEF ClaimsOnce
    <3> QED BY Zenon, <2>3, <3>1, <3>3, CreateCaseShape DEF ClaimOwned
  <2> QED BY Zenon, <2>1, <2>2, <2>3, HandoffCases
<1> QED BY <1>1, <1>2, HandoffTyped, PTL DEF HandoffSpec

-----------------------------------------------------------------------------
(* The replay of a stored case, as that of a Run.                           *)

\* f holds the cases after each of the first m transitions of tr.
CaseReplayed(f, tr, m) ==
    f = [i \in 0 .. m |->
           IF i = 0 THEN NoCase ELSE ProjectCaseTransition(tr, i, f[i - 1])]

\* The replay of any number of transitions exists: a first number for which
\* it does not would extend the replay of the transitions before it.
LEMMA CaseReplayExists ==
    ASSUME NEW tr, NEW n \in Nat
    PROVE  \E f : CaseReplayed(f, tr, n)
<1> DEFINE Take(i, s) == ProjectCaseTransition(tr, i, s)
           S == {m \in Nat : ~ \E f : CaseReplayed(f, tr, m)}
<1>1. SUFFICES ASSUME S # {} PROVE FALSE
  BY Zenon
<1>2. PICK m \in S : \A k \in S : m <= k
  BY Zenon, <1>1, LeastElement, S \in SUBSET Nat
<1>3. CASE m = 0
  <2>1. CaseReplayed([i \in 0 .. 0 |-> NoCase], tr, 0)
    BY DEF CaseReplayed
  <2> QED BY Zenon, <2>1, <1>2, <1>3
<1>4. CASE m # 0
  <2>1. m \in Nat /\ m - 1 \in Nat /\ m - 1 \notin S
    BY <1>2, <1>4
  <2>2. PICK f : CaseReplayed(f, tr, m - 1)
    BY Zenon, <2>1
  <2> HIDE DEF Take
  <2> DEFINE g == [i \in 0 .. m |-> IF i = m THEN Take(m, f[m - 1]) ELSE f[i]]
  <2>3. ASSUME NEW i \in 0 .. m
        PROVE  g[i] = IF i = 0 THEN NoCase ELSE Take(i, g[i - 1])
    <3>1. CASE i = m
      BY <3>1, <1>4, <2>1
    <3>2. CASE i # m
      <4>1. g[i] = f[i] /\ (i # 0 => g[i - 1] = f[i - 1])
        BY <3>2, <2>1
      <4>2. f[i] = IF i = 0 THEN NoCase ELSE Take(i, f[i - 1])
        BY <2>2, <3>2, <2>1 DEF CaseReplayed, Take
      <4> QED BY Zenon, <4>1, <4>2
    <3> QED BY Zenon, <3>1, <3>2
  <2>4. g = [i \in 0 .. m |-> IF i = 0 THEN NoCase ELSE Take(i, g[i - 1])]
    BY Zenon, <2>3
  <2>5. CaseReplayed(g, tr, m)
    BY Zenon, <2>4 DEF CaseReplayed, Take
  <2> QED BY Zenon, <2>5, <1>2
<1> QED BY Zenon, <1>3, <1>4

\* CaseProjection is the last status of the replay.
LEMMA CaseProjectionReplays ==
    ASSUME NEW tr, Len(tr) \in Nat
    PROVE  \E f : CaseReplayed(f, tr, Len(tr)) /\ CaseProjection(tr) = f[Len(tr)]
<1> DEFINE p == CHOOSE f : CaseReplayed(f, tr, Len(tr))
<1>1. CaseReplayed(p, tr, Len(tr))
  BY Zenon, CaseReplayExists
<1>2. CaseProjection(tr) = p[Len(tr)]
  BY Zenon DEF CaseProjection, CaseReplayed
<1> QED BY Zenon, <1>1, <1>2

\* What a transition is replayed to depends on it and on those before it.
LEMMA ProjectCasePrefix ==
    ASSUME NEW tr, NEW tr2, NEW i \in Nat \ {0}, NEW s,
           \A j \in 1 .. i : tr2[j] = tr[j]
    PROVE  ProjectCaseTransition(tr2, i, s) = ProjectCaseTransition(tr, i, s)
<1>1. tr2[i] = tr[i] /\ \A j \in 1 .. i - 1 : tr2[j] = tr[j]
  OBVIOUS
<1> DEFINE c == tr[i].command
           fresh(h) == \A j \in 1 .. i - 1 :
                         h[j].command.kind = "Claim" => h[j].command.claim # c.claim
<1>2. fresh(tr2) = fresh(tr)
  BY Zenon, <1>1
<1> QED BY Zenon, <1>1, <1>2 DEF ProjectCaseTransition

\* Replaying one more transition takes the replay of the history one step on.
LEMMA CaseProjectionAppend ==
    ASSUME NEW tr \in Seq(CaseTransitions), NEW t \in CaseTransitions
    PROVE  CaseProjection(Append(tr, t))
             = ProjectCaseTransition(Append(tr, t), Len(tr) + 1, CaseProjection(tr))
<1> DEFINE n == Len(tr)
           tr2 == Append(tr, t)
<1>1. /\ n \in Nat
      /\ Len(tr2) = n + 1
      /\ \A j \in 1 .. n : tr2[j] = tr[j]
  OBVIOUS
<1>2. PICK f : CaseReplayed(f, tr, n) /\ CaseProjection(tr) = f[n]
  BY <1>1, CaseProjectionReplays, Zenon
<1> HIDE DEF n, tr2
<1>3. PICK g : CaseReplayed(g, tr2, n + 1) /\ CaseProjection(tr2) = g[n + 1]
  BY <1>1, CaseProjectionReplays, n + 1 \in Nat
<1> DEFINE Take(h, i, s) == ProjectCaseTransition(h, i, s)
<1>4. /\ \A i \in 0 .. n : f[i] = IF i = 0 THEN NoCase ELSE Take(tr, i, f[i - 1])
      /\ \A i \in 0 .. n + 1 : g[i] = IF i = 0 THEN NoCase ELSE Take(tr2, i, g[i - 1])
  <2> HIDE DEF Take
  <2> QED BY Zenon, <1>2, <1>3 DEF CaseReplayed, Take
<1>5. \A i \in 1 .. n : \A s : Take(tr2, i, s) = Take(tr, i, s)
  <2> SUFFICES ASSUME NEW i \in 1 .. n, NEW s PROVE Take(tr2, i, s) = Take(tr, i, s)
    BY Zenon
  <2>1. i \in Nat \ {0} /\ \A j \in 1 .. i : tr2[j] = tr[j]
    BY <1>1
  <2> QED BY <2>1, ProjectCasePrefix
<1> HIDE DEF Take
<1> DEFINE S == {i \in 0 .. n : g[i] # f[i]}
<1>6. S = {}
  <2> SUFFICES ASSUME S # {} PROVE FALSE
    BY Zenon
  <2>1. S \in SUBSET Nat
    BY <1>1
  <2>2. PICK m \in S : \A k \in S : m <= k
    BY Zenon, <2>1, LeastElement
  <2>3. m \in 0 .. n /\ m \in 0 .. n + 1 /\ g[m] # f[m]
    BY <1>1
  <2>4. CASE m = 0
    BY Zenon, <1>4, <2>3, <2>4
  <2>5. CASE m # 0
    <3>1. m \in 1 .. n /\ m - 1 \in 0 .. n /\ ~ (m <= m - 1)
      BY <1>1, <2>3, <2>5
    <3>2. g[m - 1] = f[m - 1]
      BY Zenon, <2>2, <3>1
    <3>3. f[m] = Take(tr, m, f[m - 1]) /\ g[m] = Take(tr2, m, g[m - 1])
      BY Zenon, <1>4, <2>3, <2>5
    <3> QED BY Zenon, <1>5, <2>3, <3>1, <3>2, <3>3
  <2> QED BY Zenon, <2>4, <2>5
<1>7. g[n] = f[n]
  BY <1>1, <1>6
<1>8. g[n + 1] = Take(tr2, n + 1, g[n])
  <2>1. n + 1 \in 0 .. n + 1 /\ n + 1 # 0 /\ (n + 1) - 1 = n
    BY <1>1
  <2> QED BY Zenon, <1>4, <2>1
<1> QED BY <1>2, <1>3, <1>7, <1>8, Zenon DEF Take, n, tr2

\* A case without its history: what validate() compares with the replay.
BareCase(case) == [case EXCEPT !.transitions = << >>]

\* The replay of an accepted command's transition agrees with apply_kind.
LEMMA CaseReplayAgrees ==
    ASSUME NEW case \in CaseRecords, CaseExists(case), NEW cmd \in CaseCommands,
           NEW actor \in Actors, NEW now \in Moments, cmd.kind \in CaseKinds,
           Stored(case, cmd, actor, now) \in CaseTransitions,
           CaseAccepts(case, cmd, actor, now)
    PROVE  ProjectCaseTransition(Append(case.transitions, Stored(case, cmd, actor, now)),
                                 Len(case.transitions) + 1, BareCase(case))
             = BareCase(CaseAppliedTo(case, cmd, actor, now))
<1> DEFINE tr == case.transitions
           n == Len(tr)
           x == Stored(case, cmd, actor, now)
           tr2 == Append(tr, x)
           p == BareCase(case)
<1>1. tr \in Seq(CaseTransitions) /\ x \in CaseTransitions
  BY Zenon DEF CaseRecords
<1>2. /\ x.command = cmd /\ x.at = now /\ x.actor = actor
      /\ cmd.kind = "RenewClaim" => x.previous = case.claim.expires
  BY Zenon DEF Stored, Recorded
<1>3. p.status = case.status /\ p.claim = case.claim /\ p # CaseRefused
  <2>1. p.status = case.status /\ p.claim = case.claim
    BY Zenon DEF BareCase, CaseRecords
  <2>2. CaseRefused.status = "Absent"
    BY Zenon DEF CaseRefused, NoCase
  <2> QED BY Zenon, <2>1, <2>2 DEF CaseExists
<1> HIDE DEF x, tr, p
<1>4. /\ n \in Nat /\ tr2[n + 1] = x
      /\ \A j \in 1 .. n : tr2[j] = tr[j]
      /\ 1 .. (n + 1) - 1 = 1 .. n
      /\ 1 .. n = DOMAIN tr
  BY <1>1
<1> HIDE DEF n, tr2
<1> DEFINE fresh == \A j \in 1 .. (n + 1) - 1 :
                      tr2[j].command.kind = "Claim" => tr2[j].command.claim # cmd.claim
<1>5. cmd.kind = "Claim" =>
        case.status = "Queued" /\ cmd.lease \in HandoffLeases /\ fresh
  <2> SUFFICES ASSUME cmd.kind = "Claim"
               PROVE  /\ case.status = "Queued" /\ cmd.lease \in HandoffLeases
                      /\ NewClaimId(case, cmd.claim)
    BY Zenon, <1>4 DEF NewClaimId, tr
  <2> QED BY Zenon DEF CaseAccepts
<1>6. /\ cmd.kind = "RenewClaim" =>
           /\ cmd.lease \in HandoffLeases
           /\ case.status = "Claimed" /\ case.claim.id = cmd.claim
           /\ case.claim.owner = actor /\ now < case.claim.expires
           /\ now + cmd.lease > case.claim.expires
      /\ cmd.kind \in {"ReleaseClaim", "Resolve"} =>
           /\ case.status = "Claimed" /\ case.claim.id = cmd.claim
           /\ case.claim.owner = actor /\ now < case.claim.expires
      /\ cmd.kind = "ExpireClaim" =>
           case.status = "Claimed" /\ case.claim.id = cmd.claim /\ now >= case.claim.expires
      /\ cmd.kind = "Cancel" => case.status \in CaseOpen
  BY Zenon DEF CaseAccepts, ActiveOwnedClaim
<1> HIDE DEF fresh
<1> DEFINE ok ==
      CASE cmd.kind = "Create" -> n + 1 = 1
        [] cmd.kind = "Claim" ->
             /\ p.status = "Queued"
             /\ cmd.lease \in HandoffLeases
             /\ fresh
        [] cmd.kind = "RenewClaim" ->
             /\ cmd.lease \in HandoffLeases
             /\ p.status = "Claimed"
             /\ p.claim.id = cmd.claim
             /\ p.claim.owner = actor
             /\ p.claim.expires = x.previous
             /\ now < p.claim.expires
             /\ now + cmd.lease > p.claim.expires
        [] cmd.kind \in {"ReleaseClaim", "Resolve"} ->
             /\ p.status = "Claimed"
             /\ p.claim.id = cmd.claim
             /\ p.claim.owner = actor
             /\ now < p.claim.expires
        [] cmd.kind = "ExpireClaim" ->
             p.status = "Claimed" /\ p.claim.id = cmd.claim /\ now >= p.claim.expires
        [] cmd.kind = "Cancel" -> p.status \in CaseOpen
<1>7. ok
  BY Zenon, <1>2, <1>3, <1>5, <1>6 DEF CaseKinds
<1>8. cmd.kind # "Create"
  BY Zenon DEF CaseKinds
<1>9. ProjectCaseTransition(tr2, n + 1, p)
        = [p EXCEPT !.status = CaseNextStatus(cmd), !.claim = CaseNextClaim(cmd, actor, now)]
  <2>1. ProjectCaseTransition(tr2, n + 1, p)
          = IF ~ ok \/ p = CaseRefused THEN CaseRefused
            ELSE IF cmd.kind = "Create"
                 THEN [NoCase EXCEPT !.status = "Queued", !.priority = cmd.lease,
                                     !.requestedAt = now]
                 ELSE [p EXCEPT !.status = CaseNextStatus(cmd),
                                !.claim = CaseNextClaim(cmd, actor, now)]
    BY Zenon, <1>2, <1>4 DEF ProjectCaseTransition, fresh
  <2> HIDE DEF ok
  <2> QED BY Zenon, <1>3, <1>7, <1>8, <2>1
<1> HIDE DEF ok
<1>10. [p EXCEPT !.status = CaseNextStatus(cmd), !.claim = CaseNextClaim(cmd, actor, now)]
         = BareCase(CaseAppliedTo(case, cmd, actor, now))
  <2> DEFINE s == CaseNextStatus(cmd)
             c == CaseNextClaim(cmd, actor, now)
             empty == << >>
             y == Append(tr, x)
             a == [p EXCEPT !.status = s, !.claim = c]
             new == CaseAppliedTo(case, cmd, actor, now)
             b == [new EXCEPT !.transitions = empty]
             One == [status : {s}, claim : {c}, priority : {case.priority},
                     requestedAt : {case.requestedAt}, transitions : {empty}]
  <2>1. new = [case EXCEPT !.status = s, !.claim = c, !.transitions = y]
    BY Zenon DEF CaseAppliedTo, x, Stored, tr
  <2>2. p = [case EXCEPT !.transitions = empty]
    BY Zenon DEF BareCase, p
  <2> HIDE DEF s, c, empty, y, new
  <2>3. a \in One
    BY Zenon, <2>2 DEF CaseRecords
  <2>4. b \in One
    BY Zenon, <2>1 DEF CaseRecords
  <2>5. ASSUME NEW e \in One
        PROVE  e = [status |-> s, claim |-> c, priority |-> case.priority,
                    requestedAt |-> case.requestedAt, transitions |-> empty]
    BY Zenon
  <2> HIDE DEF a, b, One
  <2>6. a = b
    BY Zenon, <2>3, <2>4, <2>5
  <2> QED BY Zenon, <2>6 DEF a, b, empty, s, c, new, BareCase
<1> QED BY Zenon, <1>9, <1>10 DEF p, tr, tr2, x, n

\* What validate() asks of a history besides the replay: identities of commands do not
\* repeat, times do not decrease and work leaves the reserve.
CaseHistoryOK(tr) ==
    /\ Len(tr) <= MAX_HANDOFF_TRANSITIONS
    /\ \A i, j \in 1 .. Len(tr) : i < j =>
         /\ tr[i].at <= tr[j].at
         /\ tr[i].command.id # tr[j].command.id
    /\ \A i \in 1 .. Len(tr) :
         ~ SettlesCase(tr[i].command.kind) => i <= MAX_HANDOFF_WORK_TRANSITIONS

\* What apply adds to a good history leaves it one.
LEMMA AppendKeepsCaseHistory ==
    ASSUME HandoffTypeOK, NEW h \in CaseIds, NEW cmd \in CaseCommands, NEW actor \in Actors,
           NEW now \in Moments, CaseExists(cases[h]), ~ KnownCaseId(cases[h], cmd.id),
           Stored(cases[h], cmd, actor, now) \in CaseTransitions,
           CaseCanApply(cases[h], cmd, actor, now), CaseHistoryOK(cases[h].transitions)
    PROVE  CaseHistoryOK(Append(cases[h].transitions, Stored(cases[h], cmd, actor, now)))
<1> USE HandoffAssumption
    DEF MAX_HANDOFF_TRANSITIONS, HANDOFF_SETTLEMENT_TRANSITION_RESERVE
<1> DEFINE tr  == cases[h].transitions
           x   == Stored(cases[h], cmd, actor, now)
           n   == Len(tr)
           new == Append(tr, x)
<1>1. tr \in Seq(CaseTransitions) /\ tr # << >> /\ x \in CaseTransitions
  BY Zenon DEF HandoffTypeOK, CaseRecords
<1>2. x.command = cmd /\ x.at = now /\ now \in Nat
  BY Zenon DEF Stored, Recorded, Moments
<1>3. /\ \A i \in 1 .. n : tr[i].command.id # cmd.id
      /\ n < MAX_HANDOFF_TRANSITIONS
      /\ SettlesCase(cmd.kind) \/ n < MAX_HANDOFF_WORK_TRANSITIONS
      /\ now >= tr[n].at
  <2>1. DOMAIN tr = 1 .. n
    BY <1>1
  <2> HIDE DEF n
  <2> QED BY Zenon, <2>1 DEF KnownCaseId, CaseCanApply, CaseCapacityLeft, CaseRevision, n
<1>4. CaseHistoryOK(tr)
  BY Zenon
<1> HIDE DEF tr, x, new
<1>5. /\ n \in Nat /\ Len(new) = n + 1 /\ new[n + 1] = x
      /\ \A i \in 1 .. n : new[i] = tr[i] /\ tr[i].at \in Nat
  <2>1. n \in Nat /\ \A i \in 1 .. n : tr[i] \in CaseTransitions
    BY <1>1
  <2>2. Len(new) = n + 1 /\ new[n + 1] = x /\ \A i \in 1 .. n : new[i] = tr[i]
    BY <1>1 DEF new
  <2>3. \A t \in CaseTransitions : t.at \in Nat
    BY Zenon DEF CaseTransitions
  <2> QED BY Zenon, <2>1, <2>2, <2>3
<1>6. n # 0
  BY <1>1
<1> HIDE DEF n
<1>7. \A i \in 1 .. n : tr[i].at <= now
  <2> SUFFICES ASSUME NEW i \in 1 .. n PROVE tr[i].at <= now
    BY Zenon
  <2>1. n \in 1 .. n /\ tr[n].at \in Nat /\ tr[i].at \in Nat
    BY <1>5
  <2>2. i < n => tr[i].at <= tr[n].at
    BY Zenon, <1>4, <2>1 DEF CaseHistoryOK, n
  <2> QED BY <1>2, <1>3, <1>5, <2>1, <2>2
<1>8. ASSUME NEW i \in 1 .. n + 1, NEW j \in 1 .. n + 1, i < j
      PROVE  new[i].at <= new[j].at /\ new[i].command.id # new[j].command.id
  <2>1. i \in 1 .. n
    BY <1>5, <1>8
  <2>2. CASE j = n + 1
    BY Zenon, <1>2, <1>3, <1>5, <1>7, <2>1, <2>2
  <2>3. CASE j \in 1 .. n
    <3>1. new[i] = tr[i] /\ new[j] = tr[j]
      BY Zenon, <1>5, <2>1, <2>3
    <3>2. tr[i].at <= tr[j].at /\ tr[i].command.id # tr[j].command.id
      BY Zenon, <1>4, <1>8, <2>1, <2>3 DEF CaseHistoryOK, n
    <3> QED BY Zenon, <3>1, <3>2
  <2> QED BY <1>5, <2>2, <2>3
<1>9. ASSUME NEW i \in 1 .. n + 1, ~ SettlesCase(new[i].command.kind)
      PROVE  i <= MAX_HANDOFF_WORK_TRANSITIONS
  <2>1. CASE i = n + 1
    <3>1. n < MAX_HANDOFF_WORK_TRANSITIONS
      BY Zenon, <1>2, <1>3, <1>5, <1>9, <2>1
    <3> QED BY <1>5, <2>1, <3>1
  <2>2. CASE i \in 1 .. n
    BY Zenon, <1>4, <1>5, <1>9, <2>2 DEF CaseHistoryOK, n
  <2> QED BY <1>5, <2>1, <2>2
<1>10. n + 1 <= MAX_HANDOFF_TRANSITIONS
  BY <1>3, <1>5
<1>11. CaseHistoryOK(new)
  BY Zenon, <1>5, <1>8, <1>9, <1>10 DEF CaseHistoryOK
<1> QED BY Zenon, <1>11 DEF new, tr, x

\* The replay of a creation is the case that HumanHandoff::new makes.
LEMMA CaseCreationReplays ==
    ASSUME NEW d \in Priorities, NEW actor \in Operators, NEW now \in Moments
    PROVE  LET case == NewCase(<< "caller", 1 >>, d, actor, now)
           IN  /\ CaseProjection(case.transitions) = BareCase(case)
               /\ CaseHistoryOK(case.transitions)
<1> USE HandoffAssumption
<1> DEFINE case == NewCase(<< "caller", 1 >>, d, actor, now)
           x == Recorded(HandoffCommand(<< "caller", 1 >>, "Create", 0, d), actor, now, 0)
           y == << x >>
           empty == << >>
<1>1. /\ x \in CaseTransitions /\ x.command.kind = "Create" /\ x.command.lease = d
      /\ x.at = now
  BY Zenon DEF Recorded, HandoffCommand, CaseTransitions, CaseCommands, Actors, Moments
<1>2. case = [status |-> "Queued", claim |-> NoClaim, priority |-> d, requestedAt |-> now,
              transitions |-> y]
  BY Zenon DEF NewCase
<1>3. CaseRefused # NoCase
  <2>1. CaseRefused.priority = -1 /\ NoCase.priority = 0 /\ -1 # 0
    BY DEF CaseRefused, NoCase
  <2> QED BY Zenon, <2>1
<1> HIDE DEF x
<1>4. /\ Append(empty, x) = y /\ y[1] = x /\ Len(y) = 1
      /\ empty \in Seq(CaseTransitions) /\ Len(empty) = 0 /\ Len(empty) + 1 = 1
  OBVIOUS
<1>5. NoCase = [status |-> "Absent", claim |-> NoClaim, priority |-> 0, requestedAt |-> 0,
                transitions |-> empty]
  BY Zenon DEF NoCase
<1>6. BareCase(case) = [case EXCEPT !.transitions = empty]
  BY Zenon DEF BareCase
<1> HIDE DEF case, y, empty
<1>7. BareCase(case) = [NoCase EXCEPT !.status = "Queued", !.priority = d, !.requestedAt = now]
  <2> DEFINE a == [case EXCEPT !.transitions = empty]
             b == [NoCase EXCEPT !.status = "Queued", !.priority = d, !.requestedAt = now]
             One == [status : {"Queued"}, claim : {NoClaim}, priority : {d},
                     requestedAt : {now}, transitions : {empty}]
  <2>1. a \in One
    BY Zenon, <1>2
  <2>2. b \in One
    BY Zenon, <1>5
  <2>3. ASSUME NEW c \in One
        PROVE  c = [status |-> "Queued", claim |-> NoClaim, priority |-> d,
                    requestedAt |-> now, transitions |-> empty]
    BY Zenon
  <2> HIDE DEF a, b, One
  <2>4. a = b
    BY Zenon, <2>1, <2>2, <2>3
  <2> QED BY Zenon, <1>6, <2>4 DEF a, b
<1>8. CaseProjection(empty) = NoCase
  <2>1. Len(empty) \in Nat /\ 0 \in 0 .. 0
    BY <1>4
  <2>2. PICK f : CaseReplayed(f, empty, Len(empty)) /\ CaseProjection(empty) = f[Len(empty)]
    BY Zenon, <2>1, CaseProjectionReplays
  <2>3. f = [i \in 0 .. 0 |->
               IF i = 0 THEN NoCase ELSE ProjectCaseTransition(empty, i, f[i - 1])]
    BY Zenon, <1>4, <2>2 DEF CaseReplayed
  <2>4. f[0] = IF 0 = 0 THEN NoCase ELSE ProjectCaseTransition(empty, 0, f[0 - 1])
    BY Zenon, <2>1, <2>3
  <2> QED BY Zenon, <1>4, <2>2, <2>4
<1>9. CaseProjection(y) = ProjectCaseTransition(y, 1, NoCase)
  BY Zenon, <1>1, <1>4, <1>8, CaseProjectionAppend
<1>10. ProjectCaseTransition(y, 1, NoCase)
         = [NoCase EXCEPT !.status = "Queued", !.priority = d, !.requestedAt = now]
  BY Zenon, <1>1, <1>3, <1>4 DEF ProjectCaseTransition
<1>11. CaseHistoryOK(y)
  <2>1. 1 <= MAX_HANDOFF_WORK_TRANSITIONS /\ 1 <= MAX_HANDOFF_TRANSITIONS
    BY DEF MAX_HANDOFF_TRANSITIONS, HANDOFF_SETTLEMENT_TRANSITION_RESERVE
  <2>2. \A i \in 1 .. 1 : i = 1
    OBVIOUS
  <2>3. ~ (1 < 1)
    OBVIOUS
  <2> QED BY Zenon, <1>4, <2>1, <2>2, <2>3 DEF CaseHistoryOK
<1>12. case.transitions = y
  BY Zenon, <1>2
<1> QED BY Zenon, <1>7, <1>9, <1>10, <1>11, <1>12 DEF case

\* The status, claim, priority and request time of a stored case follow from its history,
\* and the history is a good one.
CasesReplay ==
    \A h \in CaseIds : CaseExists(cases[h]) =>
        /\ CaseHistoryOK(cases[h].transitions)
        /\ CaseProjection(cases[h].transitions) = BareCase(cases[h])

\* Every stored case is one that validate() accepts when it is read back: apply_kind and
\* the replay agree on who holds which claim until when, on every history of any length.
THEOREM CaseAlwaysReplays == HandoffSpec => []CaseReplays
<1>1. HandoffInit => CasesReplay
  BY DEF HandoffInit, CasesReplay, NoCase, CaseExists
<1>2. HandoffTypeOK /\ CasesReplay /\ [HandoffNext]_cases => CasesReplay'
  <2> SUFFICES ASSUME HandoffTypeOK, CasesReplay, [HandoffNext]_cases PROVE CasesReplay'
    BY Zenon
  <2>1. CASE UNCHANGED cases
    BY Zenon, <2>1 DEF CasesReplay
  <2>2. ASSUME NEW h \in CaseIds, CaseStep(h) PROVE CasesReplay'
    <3>1. PICK cmd \in CaseCommands, actor \in Actors, now \in Moments :
            /\ cmd.kind \in CaseKinds /\ cmd.lease \in Nat
            /\ CaseExists(cases[h])
            /\ ~ KnownCaseId(cases[h], cmd.id)
            /\ CaseCanApply(cases[h], cmd, actor, now)
            /\ cases' = [cases EXCEPT ![h] = CaseAppliedTo(cases[h], cmd, actor, now)]
      BY Zenon, <2>2 DEF CaseStep
    <3> DEFINE tr == cases[h].transitions
               x == Stored(cases[h], cmd, actor, now)
    <3>2. /\ x \in CaseTransitions
          /\ tr \in Seq(CaseTransitions)
          /\ cases'[h].transitions = Append(tr, x)
          /\ \A g \in CaseIds \ {h} : cases'[g] = cases[g]
      <4>1. Applied(h, cmd, actor, now)
        BY Zenon, <3>1, CaseStepShape
      <4> QED BY Zenon, <4>1 DEF Applied
    <3>3. cases[h] \in CaseRecords /\ cases'[h] = CaseAppliedTo(cases[h], cmd, actor, now)
      BY Zenon, <3>1 DEF HandoffTypeOK
    <3>4. CaseHistoryOK(tr) /\ CaseProjection(tr) = BareCase(cases[h])
      BY Zenon, <3>1 DEF CasesReplay
    <3>5. CaseHistoryOK(Append(tr, x))
      BY Zenon, <3>1, <3>2, <3>4, AppendKeepsCaseHistory
    <3>6. CaseProjection(Append(tr, x))
            = ProjectCaseTransition(Append(tr, x), Len(tr) + 1, CaseProjection(tr))
      BY Zenon, <3>2, CaseProjectionAppend
    <3>7. CaseAccepts(cases[h], cmd, actor, now)
      BY Zenon, <3>1 DEF CaseCanApply
    <3>8. CaseProjection(Append(tr, x)) = BareCase(cases'[h])
      <4>1. ProjectCaseTransition(Append(tr, x), Len(tr) + 1, BareCase(cases[h]))
              = BareCase(CaseAppliedTo(cases[h], cmd, actor, now))
        <5>1. /\ cases[h] \in CaseRecords /\ CaseExists(cases[h]) /\ cmd.kind \in CaseKinds
              /\ Stored(cases[h], cmd, actor, now) \in CaseTransitions
          BY Zenon, <3>1, <3>2, <3>3
        <5> QED BY Zenon, <3>7, <5>1, CaseReplayAgrees
      <4> HIDE DEF tr, x
      <4> QED BY Zenon, <3>3, <3>4, <3>6, <4>1
    <3> HIDE DEF tr, x
    <3> QED BY Zenon, <3>2, <3>5, <3>8 DEF CasesReplay
  <2>3. ASSUME NEW h \in CaseIds, NEW p \in Priorities, NEW actor \in Operators,
               NEW now \in Moments, CreateCase(h, p, actor, now)
        PROVE  CasesReplay'
    <3>1. /\ cases'[h] = NewCase(<< "caller", 1 >>, p, actor, now)
          /\ \A g \in CaseIds \ {h} : cases'[g] = cases[g]
      BY Zenon, <2>3 DEF CreateCase, HandoffTypeOK
    <3> QED BY Zenon, <3>1, CaseCreationReplays DEF CasesReplay
  <2> QED BY Zenon, <2>1, <2>2, <2>3, HandoffCases
<1>3. HandoffTypeOK /\ CasesReplay => CaseReplays
  <2> SUFFICES ASSUME HandoffTypeOK, CasesReplay, NEW h \in CaseIds, CaseExists(cases[h])
               PROVE  ValidateCase(cases[h])
    BY Zenon DEF CaseReplays
  <2> DEFINE tr == cases[h].transitions
  <2>1. CaseHistoryOK(tr) /\ CaseProjection(tr) = [cases[h] EXCEPT !.transitions = << >>]
    BY Zenon DEF CasesReplay, BareCase
  <2>2. tr \in Seq(CaseTransitions) /\ tr # << >>
    BY Zenon DEF HandoffTypeOK, CaseRecords
  <2> HIDE DEF tr
  <2>3. Len(tr) \in Nat /\ Len(tr) # 0 /\ DOMAIN tr = 1 .. Len(tr)
    BY <2>2
  <2>4. Len(tr) <= MAX_HANDOFF_TRANSITIONS
    BY Zenon, <2>1 DEF CaseHistoryOK
  <2>5. Len(tr) \in 1 .. MAX_HANDOFF_TRANSITIONS
    BY HandoffAssumption, <2>3, <2>4
    DEF MAX_HANDOFF_TRANSITIONS, HANDOFF_SETTLEMENT_TRANSITION_RESERVE
  <2> QED BY Zenon, <2>1, <2>3, <2>5 DEF CaseHistoryOK, ValidateCase, tr
<1> QED BY <1>1, <1>2, <1>3, HandoffTyped, PTL DEF HandoffSpec

-----------------------------------------------------------------------------
(* The Temporal Driver and everybody who uses the stores with it do nothing *)
(* to the Workflow and Human Handoff stores but what WorkflowSpec and       *)
(* HandoffSpec allow, so what is proved of the stores holds of the          *)
(* composition, for any number of drivers, any pages and any lost cursors.  *)

\* A page of due items has a first one: what FirstOf chooses is an item of the page.
LEMMA FirstIsDue ==
    ASSUME NEW due, due # {}, \A i \in due : i.id \in Nat
    PROVE  FirstOf(due) \in due
<1> DEFINE ids == {i.id : i \in due}
<1>1. ids \subseteq Nat /\ ids # {}
  BY Zenon
<1>2. \E x \in ids : \A y \in ids : ~ (<< y, x >> \in OpToRel(<, Nat))
  BY Zenon, <1>1, NatLessThanWellFounded, WFMin
<1>3. PICK x \in ids : \A y \in ids : ~ (y < x)
  BY Zenon, <1>1, <1>2 DEF OpToRel
<1>4. PICK i \in due : i.id = x
  BY Zenon, <1>3
<1>5. ASSUME NEW j \in due PROVE i.id <= j.id
  <2>1. j.id \in ids /\ x \in Nat /\ j.id \in Nat /\ ~ (j.id < x)
    BY Zenon, <1>1, <1>3
  <2> QED BY <1>4, <2>1
<1> QED BY Zenon, <1>4, <1>5 DEF FirstOf

\* What a tick holds between its scan and its report: Runs and cases to act on, and a
\* time at which to do so.
TickOK(t) ==
    /\ DOMAIN t = {"at", "wakes", "expiries", "next"}
    /\ \A i \in t.wakes : i.id \in RunIds
    /\ \A i \in t.expiries : i.id \in CaseIds
    /\ t.wakes # {} \/ t.expiries # {} => t.at \in Times

DriverInv ==
    /\ clock \in Times
    /\ installed \in Deployments
    /\ tick = [d \in Drivers |-> tick[d]]
    /\ \A d \in Drivers : TickOK(tick[d])

\* The driver's own state keeps its shape.
LEMMA DriverInvAlways == Spec => []DriverInv
<1> USE WorkflowAssumption, HandoffAssumption, DriverAssumption
<1>1. Init => DriverInv
  BY DEF Init, DriverInv, TickOK, Idle, Times
<1>2. DriverInv /\ [Next]_vars => DriverInv'
  <2> SUFFICES ASSUME DriverInv, [Next]_vars PROVE DriverInv'
    BY Zenon
  <2>1. CASE UNCHANGED << clock, installed, tick >>
    BY Zenon, <2>1 DEF DriverInv
  <2>2. CASE AdvanceClock
    BY <2>2 DEF AdvanceClock, DriverInv, driverVars, Times
  <2>3. ASSUME NEW d \in Drivers, Scan(d) PROVE DriverInv'
    <3> DEFINE t == tick'[d]
    <3>1. /\ DOMAIN t = {"at", "wakes", "expiries", "next"}
          /\ t.at = clock
          /\ t.wakes = DueWaits(cursor[d].workflow, clock)
          /\ t.expiries = DueClaims(cursor[d].handoff, clock)
      BY Zenon, <2>3 DEF Scan, DriverInv
    <3>2. \A i \in DueWaits(cursor[d].workflow, clock) : i.id \in RunIds
      <4> SUFFICES ASSUME NEW i \in DueWaits(cursor[d].workflow, clock) PROVE i.id \in RunIds
        BY Zenon
      <4>1. PICK r \in Page({p \in RunIds : Exists(runs[p])}, cursor[d].workflow) : i.id = r
        BY DEF DueWaits
      <4> QED BY Zenon, <4>1 DEF Page
    <3>3. \A i \in DueClaims(cursor[d].handoff, clock) : i.id \in CaseIds
      <4> SUFFICES ASSUME NEW i \in DueClaims(cursor[d].handoff, clock) PROVE i.id \in CaseIds
        BY Zenon
      <4>1. PICK h \in Page({f \in CaseIds : CaseExists(cases[f])}, cursor[d].handoff) : i.id = h
        BY DEF DueClaims
      <4> QED BY Zenon, <4>1 DEF Page
    <3>4. TickOK(t)
      BY Zenon, <3>1, <3>2, <3>3 DEF TickOK, DriverInv
    <3>5. /\ clock' = clock /\ installed' = installed
          /\ tick' = [e \in Drivers |-> tick'[e]]
          /\ \A e \in Drivers \ {d} : tick'[e] = tick[e]
      BY Zenon, <2>3 DEF Scan, DriverInv
    <3> QED BY Zenon, <3>4, <3>5 DEF DriverInv
  <2>4. ASSUME NEW d \in Drivers, AttemptWake(d) PROVE DriverInv'
    <3>1. PICK due : tick' = [tick EXCEPT ![d].wakes = @ \ {due}]
      BY Zenon, <2>4 DEF AttemptWake
    <3>2. TickOK(tick[d]) => TickOK([tick[d] EXCEPT !.wakes = @ \ {due}])
      BY Zenon DEF TickOK
    <3> QED BY Zenon, <2>4, <3>1, <3>2 DEF AttemptWake, DriverInv
  <2>5. ASSUME NEW d \in Drivers, AttemptExpire(d) PROVE DriverInv'
    <3>1. PICK due : tick' = [tick EXCEPT ![d].expiries = @ \ {due}]
      BY Zenon, <2>5 DEF AttemptExpire
    <3>2. TickOK(tick[d]) => TickOK([tick[d] EXCEPT !.expiries = @ \ {due}])
      BY Zenon DEF TickOK
    <3> QED BY Zenon, <2>5, <3>1, <3>2 DEF AttemptExpire, DriverInv
  <2>6. ASSUME NEW d \in Drivers, Report(d) \/ Stop(d) PROVE DriverInv'
    <3>1. TickOK(Idle)
      BY Zenon DEF TickOK, Idle
    <3> QED BY Zenon, <2>6, <3>1 DEF Report, Stop, DriverInv
  <2> QED BY Zenon, <2>1, <2>2, <2>3, <2>4, <2>5, <2>6
          DEF Next, DriverStep, UseWorkflows, UseHandoffs, vars, driverVars
<1> QED BY <1>1, <1>2, PTL DEF Spec

\* Whatever the drivers and the users of the stores do, the Workflow store takes a step
\* of its own specification or none: a wake that was fixed at the scan is applied at the
\* scanned revision or not at all (tick_as, apply_as).
THEOREM DriverImplementsWorkflow == Spec => WorkflowSpec
<1> USE WorkflowAssumption, HandoffAssumption, DriverAssumption
<1>1. Init => WorkflowInit
  BY Zenon DEF Init
<1>2. DriverInv /\ [Next]_vars => [WorkflowNext]_workflowVars
  <2> SUFFICES ASSUME DriverInv, [Next]_vars PROVE [WorkflowNext]_workflowVars
    BY Zenon
  <2>1. CASE UNCHANGED << runs, graph, completing >>
    BY Zenon, <2>1 DEF workflowVars
  <2>2. CASE UseWorkflows
    <3>1. installed.workflow \subseteq RunIds /\ clock \in Times
      BY Zenon DEF DriverInv
    <3> QED BY Zenon, <2>2, <3>1 DEF UseWorkflows, WorkflowNext
  <2>3. ASSUME NEW d \in Drivers, AttemptWake(d)
        PROVE  [WorkflowNext]_workflowVars
    <3> DEFINE due == FirstOf(tick[d].wakes)
               now == tick[d].at
    <3>1. tick[d].wakes # {} /\ TickOK(tick[d])
      BY Zenon, <2>3 DEF AttemptWake, DriverInv
    <3>2. due \in tick[d].wakes
      BY Zenon, <3>1, FirstIsDue DEF TickOK
    <3>3. due.id \in RunIds /\ now \in Times
      BY Zenon, <3>1, <3>2 DEF TickOK
    <3>4. WakeDue(due.id, due.revision, due.fence, now) \/ UNCHANGED << runs, graph, completing >>
      BY Zenon, <2>3 DEF AttemptWake
    <3> HIDE DEF due, now
    <3>5. ASSUME WakeDue(due.id, due.revision, due.fence, now) PROVE WorkflowNext
      <4>1. /\ Revision(runs[due.id]) = due.revision
            /\ CanApply(runs[due.id], WakeCommand(due.fence), now)
        BY Zenon, <3>5 DEF WakeDue, ApplyRun, Reply
      <4>2. runs[due.id].wait.id = due.fence
        BY Zenon, <4>1 DEF CanApply, Accepts, WakeCommand, Command
      <4> QED BY Zenon, <3>3, <3>5, <4>1, <4>2 DEF WorkflowNext
    <3> QED BY Zenon, <3>4, <3>5 DEF workflowVars
  <2> QED BY Zenon, <2>1, <2>2, <2>3
          DEF Next, DriverStep, AdvanceClock, UseHandoffs, Scan, AttemptExpire, Report,
              Stop, vars
<1> QED BY <1>1, <1>2, DriverInvAlways, PTL DEF Spec, WorkflowSpec

\* The same of the Human Handoff store and the expiry of claims.
THEOREM DriverImplementsHandoff == Spec => HandoffSpec
<1> USE WorkflowAssumption, HandoffAssumption, DriverAssumption
<1>1. Init => HandoffInit
  BY Zenon DEF Init
<1>2. DriverInv /\ [Next]_vars => [HandoffNext]_cases
  <2> SUFFICES ASSUME DriverInv, [Next]_vars PROVE [HandoffNext]_cases
    BY Zenon
  <2>0. Times \subseteq Nat \ {0}
    BY DEF Times
  <2>1. CASE UNCHANGED cases
    BY Zenon, <2>1
  <2>2. CASE UseHandoffs
    <3>1. /\ installed.handoff \subseteq CaseIds /\ clock \in Nat \ {0}
          /\ \A h \in CaseIds : Staff[h] \subseteq Operators
      BY Zenon, <2>0 DEF DriverInv
    <3> QED BY Zenon, <2>2, <3>1 DEF UseHandoffs, HandoffNext
  <2>3. ASSUME NEW d \in Drivers, AttemptExpire(d)
        PROVE  [HandoffNext]_cases
    <3> DEFINE due == FirstOf(tick[d].expiries)
               now == tick[d].at
    <3>1. tick[d].expiries # {} /\ TickOK(tick[d])
      BY Zenon, <2>3 DEF AttemptExpire, DriverInv
    <3>2. due \in tick[d].expiries
      BY Zenon, <3>1, FirstIsDue DEF TickOK
    <3>3. due.id \in CaseIds /\ now \in Nat \ {0}
      BY Zenon, <2>0, <3>1, <3>2 DEF TickOK
    <3>4. ExpireClaim(due.id, due.revision, due.fence, Temporal, now) \/ UNCHANGED cases
      BY Zenon, <2>3 DEF AttemptExpire
    <3> HIDE DEF due, now
    <3>5. ASSUME ExpireClaim(due.id, due.revision, due.fence, Temporal, now)
          PROVE  HandoffNext
      <4>1. /\ CaseRevision(cases[due.id]) = due.revision
            /\ CaseCanApply(cases[due.id], ExpireCommand(due.fence), Temporal, now)
        BY Zenon, <3>5 DEF ExpireClaim, ApplyCase, CaseReply
      <4>2. cases[due.id].claim.id = due.fence
        BY Zenon, <4>1 DEF CaseCanApply, CaseAccepts, ExpireCommand, HandoffCommand
      <4>3. ExpireClaim(due.id, CaseRevision(cases[due.id]), cases[due.id].claim.id,
                        Temporal, now)
        BY Zenon, <3>5, <4>1, <4>2
      <4>4. \E h \in CaseIds, actor \in Operators \cup {Temporal} :
              ExpireClaim(h, CaseRevision(cases[h]), cases[h].claim.id, actor, now)
        BY ZenonT(30), <3>3, <4>3
      <4> QED BY <3>3, <4>4, Zenon DEF HandoffNext
    <3> QED BY Zenon, <3>4, <3>5
  <2> QED BY Zenon, <2>1, <2>2, <2>3
          DEF Next, DriverStep, AdvanceClock, UseWorkflows, Scan, AttemptWake, Report,
              Stop, vars
<1> QED BY <1>1, <1>2, DriverInvAlways, PTL DEF Spec, HandoffSpec

-----------------------------------------------------------------------------
(* Pages of a queue.  The order of list_queued_as is total, so a page is    *)
(* what comes first of what is left, and its last case is where the next    *)
(* one starts.                                                              *)

INSTANCE FiniteSetTheorems

QueueTyped == \A h \in CaseIds : cases[h].priority \in Nat /\ cases[h].requestedAt \in Nat

\* comes_after is the reverse of queue_order, a strict total order.
LEMMA QueueOrder ==
    ASSUME QueueTyped
    PROVE  \A g, h, k \in CaseIds :
             /\ ComesAfter(h, g) <=> BeforeInQueue(g, h)
             /\ ~ BeforeInQueue(g, g)
             /\ g # h => BeforeInQueue(g, h) \/ BeforeInQueue(h, g)
             /\ BeforeInQueue(g, h) /\ BeforeInQueue(h, k) => BeforeInQueue(g, k)
<1> SUFFICES ASSUME NEW g \in CaseIds, NEW h \in CaseIds, NEW k \in CaseIds
             PROVE  /\ ComesAfter(h, g) <=> BeforeInQueue(g, h)
                    /\ ~ BeforeInQueue(g, g)
                    /\ g # h => BeforeInQueue(g, h) \/ BeforeInQueue(h, g)
                    /\ BeforeInQueue(g, h) /\ BeforeInQueue(h, k) => BeforeInQueue(g, k)
  BY Zenon
<1>1. g \in Nat /\ h \in Nat /\ k \in Nat
  BY Zenon, HandoffAssumption
<1> QED BY <1>1 DEF QueueTyped, ComesAfter, BeforeInQueue

\* A set of cases is finite, and smaller than one it is a part of.
LEMMA CasesFinite ==
    ASSUME NEW S, S \subseteq CaseIds
    PROVE  /\ IsFiniteSet(S) /\ Cardinality(S) \in Nat
           /\ \A T : T \subseteq S => /\ Cardinality(T) \in Nat /\ Cardinality(T) <= Cardinality(S)
                                      /\ T # S => Cardinality(T) < Cardinality(S)
<1>1. IsFiniteSet(S)
  BY Zenon, QueueAssumption, FS_Subset
<1>2. ASSUME NEW T, T \subseteq S
      PROVE  /\ Cardinality(T) \in Nat /\ Cardinality(T) <= Cardinality(S)
             /\ T # S => Cardinality(T) < Cardinality(S)
  <2>1. /\ IsFiniteSet(T) /\ Cardinality(T) <= Cardinality(S)
        /\ Cardinality(S) = Cardinality(T) => S = T
    BY Zenon, <1>1, <1>2, FS_Subset
  <2>2. Cardinality(T) \in Nat /\ Cardinality(S) \in Nat
    BY Zenon, <1>1, <2>1, FS_CardinalityType
  <2> QED BY <2>1, <2>2
<1> QED BY Zenon, <1>1, <1>2, FS_CardinalityType

\* Some case comes first, and some case comes last, among any cases.
LEMMA QueueEnds ==
    ASSUME QueueTyped, NEW S, S \subseteq CaseIds, S # {}
    PROVE  /\ \E h \in S : \A g \in S : ~ BeforeInQueue(g, h)
           /\ \E h \in S : \A g \in S : ~ BeforeInQueue(h, g)
<1> DEFINE ahead(h) == {g \in S : BeforeInQueue(g, h)}
           behind(h) == {g \in S : BeforeInQueue(h, g)}
<1>1. \A h \in S : Cardinality(ahead(h)) \in Nat /\ Cardinality(behind(h)) \in Nat
  BY Zenon, CasesFinite
<1>2. ASSUME NEW h \in S, NEW g \in S, BeforeInQueue(g, h)
      PROVE  /\ Cardinality(ahead(g)) < Cardinality(ahead(h))
             /\ Cardinality(behind(h)) < Cardinality(behind(g))
  <2>1. ahead(g) \subseteq ahead(h) /\ g \in ahead(h) /\ g \notin ahead(g)
    BY Zenon, <1>2, QueueOrder
  <2>2. behind(h) \subseteq behind(g) /\ h \in behind(g) /\ h \notin behind(h)
    BY Zenon, <1>2, QueueOrder
  <2>3. ahead(h) \subseteq CaseIds /\ behind(g) \subseteq CaseIds
    BY Zenon
  <2> HIDE DEF ahead, behind
  <2> QED BY Zenon, <2>1, <2>2, <2>3, CasesFinite
<1> HIDE DEF ahead, behind
<1>3. \E h \in S : \A g \in S : ~ BeforeInQueue(g, h)
  <2> DEFINE N == {Cardinality(ahead(h)) : h \in S}
  <2>1. N \in SUBSET Nat /\ N # {}
    BY Zenon, <1>1
  <2>2. PICK m \in N : \A k \in N : m <= k
    BY Zenon, <2>1, LeastElement
  <2>3. PICK h \in S : m = Cardinality(ahead(h))
    BY Zenon, <2>2
  <2>4. ASSUME NEW g \in S, BeforeInQueue(g, h) PROVE FALSE
    <3>1. Cardinality(ahead(g)) < Cardinality(ahead(h)) /\ Cardinality(ahead(h)) <= Cardinality(ahead(g))
      BY Zenon, <1>2, <2>2, <2>3, <2>4
    <3> QED BY <1>1, <3>1
  <2> QED BY Zenon, <2>4
<1>4. \E h \in S : \A g \in S : ~ BeforeInQueue(h, g)
  <2> DEFINE N == {Cardinality(behind(h)) : h \in S}
  <2>1. N \in SUBSET Nat /\ N # {}
    BY Zenon, <1>1
  <2>2. PICK m \in N : \A k \in N : m <= k
    BY Zenon, <2>1, LeastElement
  <2>3. PICK h \in S : m = Cardinality(behind(h))
    BY Zenon, <2>2
  <2>4. ASSUME NEW g \in S, BeforeInQueue(h, g) PROVE FALSE
    <3>1. Cardinality(behind(g)) < Cardinality(behind(h))
      BY Zenon, <1>2, <2>4
    <3>2. Cardinality(behind(h)) <= Cardinality(behind(g))
      BY Zenon, <2>2, <2>3
    <3> HIDE DEF behind
    <3> QED BY <1>1, <3>1, <3>2
  <2> QED BY Zenon, <2>4
<1> QED BY Zenon, <1>3, <1>4

\* What the reader has seen is what does not come after the cursor.
Reading(s) ==
    \/ s.cursor = {} /\ s.seen = {}
    \/ \E c \in Queued : s.cursor = {c} /\ s.seen = {h \in Queued : ~ BeforeInQueue(c, h)}

ReadPage(s, limit) ==
    LET page == QueuePage(s.cursor, limit)
    IN  [seen   |-> s.seen \cup page,
         cursor |-> IF page = {} THEN s.cursor ELSE NextCursor(page)]

\* A page is new to the reader, is empty only at the end of the queue, and leaves a cursor
\* that says what has been seen.
LEMMA PageAdvances ==
    ASSUME QueueTyped, NEW limit \in Nat \ {0}, NEW s, Reading(s)
    PROVE  LET t == ReadPage(s, limit)
           IN  /\ Reading(t) /\ s.seen \subseteq t.seen /\ t.seen \subseteq Queued
               /\ s.seen = Queued => t.seen = Queued
               /\ s.seen # Queued => t.seen # s.seen
<1> DEFINE left == Queued \ s.seen
           ahead(h) == {g \in left : BeforeInQueue(g, h)}
           page == {h \in left : Cardinality(ahead(h)) < limit}
           t == ReadPage(s, limit)
<1>1. Queued \subseteq CaseIds
  BY Zenon DEF Queued
<1>2. s.seen \subseteq Queued /\ {h \in Queued : \A c \in s.cursor : ComesAfter(h, c)} = left
  <2>1. CASE s.cursor = {} /\ s.seen = {}
    BY Zenon, <2>1
  <2>2. CASE \E c \in Queued : s.cursor = {c} /\ s.seen = {h \in Queued : ~ BeforeInQueue(c, h)}
    <3>1. PICK c \in Queued : s.cursor = {c} /\ s.seen = {h \in Queued : ~ BeforeInQueue(c, h)}
      BY Zenon, <2>2
    <3>2. \A h \in Queued : ComesAfter(h, c) <=> BeforeInQueue(c, h)
      BY Zenon, <1>1, QueueOrder
    <3> QED BY Zenon, <3>1, <3>2
  <2> QED BY Zenon, <2>1, <2>2 DEF Reading
<1>3. QueuePage(s.cursor, limit) = page
  BY Zenon, <1>2 DEF QueuePage
<1>4. t.seen = s.seen \cup page /\ t.cursor = IF page = {} THEN s.cursor ELSE NextCursor(page)
  BY Zenon, <1>3 DEF ReadPage
<1>5. \A h, g \in left : BeforeInQueue(g, h) /\ h \in page => g \in page
  <2> SUFFICES ASSUME NEW h \in left, NEW g \in left, BeforeInQueue(g, h), h \in page
               PROVE  g \in page
    BY Zenon
  <2>1. ahead(g) \subseteq ahead(h) /\ ahead(h) \subseteq CaseIds
    BY Zenon, <1>1, QueueOrder
  <2>2. Cardinality(ahead(h)) < limit
    BY Zenon
  <2> HIDE DEF ahead
  <2>3. Cardinality(ahead(g)) <= Cardinality(ahead(h)) /\ Cardinality(ahead(g)) \in Nat
        /\ Cardinality(ahead(h)) \in Nat
    BY Zenon, <2>1, CasesFinite
  <2>4. Cardinality(ahead(g)) < limit
    BY <2>2, <2>3
  <2> QED BY Zenon, <2>4
<1>6. left # {} => page # {}
  <2> SUFFICES ASSUME left # {} PROVE page # {}
    BY Zenon
  <2>1. PICK h \in left : \A g \in left : ~ BeforeInQueue(g, h)
    BY Zenon, <1>1, QueueEnds
  <2>2. ahead(h) = {}
    BY Zenon, <2>1
  <2>3. Cardinality(ahead(h)) < limit
    BY <2>2, FS_EmptySet
  <2> QED BY Zenon, <2>3
<1> HIDE DEF t
<1>7. CASE page = {}
  <2>1. t.seen = s.seen /\ t.cursor = s.cursor /\ s.seen = Queued
    BY Zenon, <1>2, <1>4, <1>6, <1>7
  <2> QED BY Zenon, <1>2, <2>1 DEF Reading, t
<1>8. CASE page # {}
  <2>1. page \subseteq CaseIds /\ page \subseteq left
    BY Zenon, <1>1
  <2> HIDE DEF page
  <2>2. PICK c \in page : \A g \in page : ~ BeforeInQueue(c, g)
    BY Zenon, <1>8, <2>1, QueueEnds
  <2>3. \A g \in page \ {c} : BeforeInQueue(g, c)
    BY Zenon, <2>1, <2>2, QueueOrder
  <2>4. NextCursor(page) = {c}
    BY Zenon, <2>2, <2>3 DEF NextCursor
  <2>5. \A h \in Queued : h \in s.seen \cup page <=> ~ BeforeInQueue(c, h)
    <3> SUFFICES ASSUME NEW h \in Queued PROVE h \in s.seen \cup page <=> ~ BeforeInQueue(c, h)
      BY Zenon
    <3>1. ASSUME h \in s.seen, BeforeInQueue(c, h) PROVE FALSE
      <4>1. PICK d \in Queued : s.seen = {k \in Queued : ~ BeforeInQueue(d, k)}
        BY Zenon, <3>1 DEF Reading
      <4>2. BeforeInQueue(d, c)
        BY Zenon, <2>1, <4>1
      <4>3. BeforeInQueue(d, h)
        BY Zenon, <1>1, <2>1, <3>1, <4>2, QueueOrder
      <4> QED BY Zenon, <3>1, <4>1, <4>3
    <3>2. ASSUME ~ BeforeInQueue(c, h), h \notin s.seen PROVE h \in page
      <4>1. h \in left /\ (h = c \/ BeforeInQueue(h, c))
        BY Zenon, <1>1, <2>1, <3>2, QueueOrder
      <4> QED BY Zenon, <1>5, <2>1, <4>1
    <3> QED BY Zenon, <2>2, <3>1, <3>2
  <2>6. t.seen = {h \in Queued : ~ BeforeInQueue(c, h)} /\ t.cursor = {c} /\ c \in Queued
    <3>1. t.seen = s.seen \cup page /\ t.cursor = {c}
      BY Zenon, <1>4, <1>8, <2>4
    <3>2. s.seen \cup page \subseteq Queued
      BY Zenon, <1>2, <2>1
    <3>3. \A S : S \subseteq Queued /\ (\A h \in Queued : h \in S <=> ~ BeforeInQueue(c, h))
                 => S = {h \in Queued : ~ BeforeInQueue(c, h)}
      BY Zenon
    <3> QED BY Zenon, <2>5, <3>1, <3>2, <3>3
  <2>7. Reading(t)
    BY Zenon, <2>6 DEF Reading
  <2>8. s.seen \subseteq t.seen /\ t.seen \subseteq Queued /\ c \in t.seen /\ c \notin s.seen /\ c \in Queued
    BY <1>4, <2>1, <2>6
  <2> QED BY Zenon, <2>7, <2>8 DEF t
<1> QED BY Zenon, <1>7, <1>8

NothingRead == [seen |-> {}, cursor |-> {}]

\* f holds what the reader has seen after each of m pages.
Reads(f, limit, m) ==
    f = [n \in 0 .. m |-> IF n = 0 THEN NothingRead ELSE ReadPage(f[n - 1], limit)]

\* Any number of pages can be read.
LEMMA ReadsExist ==
    ASSUME NEW limit, NEW n \in Nat
    PROVE  \E f : Reads(f, limit, n)
<1> DEFINE Take(s) == ReadPage(s, limit)
           S == {m \in Nat : ~ \E f : Reads(f, limit, m)}
<1>1. SUFFICES ASSUME S # {} PROVE FALSE
  BY Zenon
<1>2. PICK m \in S : \A k \in S : m <= k
  BY Zenon, <1>1, LeastElement, S \in SUBSET Nat
<1>3. CASE m = 0
  <2>1. Reads([i \in 0 .. 0 |-> NothingRead], limit, 0)
    BY DEF Reads
  <2> QED BY <2>1, <1>2, <1>3
<1>4. CASE m # 0
  <2>1. m \in Nat /\ m - 1 \in Nat /\ m - 1 \notin S
    BY <1>2, <1>4
  <2>2. PICK f : Reads(f, limit, m - 1)
    BY Zenon, <2>1
  <2> HIDE DEF Take
  <2> DEFINE g == [i \in 0 .. m |-> IF i = m THEN Take(f[m - 1]) ELSE f[i]]
  <2>3. ASSUME NEW i \in 0 .. m
        PROVE  g[i] = IF i = 0 THEN NothingRead ELSE Take(g[i - 1])
    <3>1. CASE i = m
      BY <3>1, <1>4, <2>1
    <3>2. CASE i # m
      <4>1. g[i] = f[i] /\ (i # 0 => g[i - 1] = f[i - 1])
        BY <3>2, <2>1
      <4>2. f[i] = IF i = 0 THEN NothingRead ELSE Take(f[i - 1])
        BY <2>2, <3>2, <2>1 DEF Reads, Take
      <4> QED BY Zenon, <4>1, <4>2
    <3> QED BY Zenon, <3>1, <3>2
  <2>4. g = [i \in 0 .. m |-> IF i = 0 THEN NothingRead ELSE Take(g[i - 1])]
    BY Zenon, <2>3
  <2>5. Reads(g, limit, m)
    BY Zenon, <2>4 DEF Reads, Take
  <2> QED BY Zenon, <2>5, <1>2
<1> QED BY Zenon, <1>3, <1>4

\* Every page adds a case until none is left: after as many pages as there are cases the
\* reader has seen the queue.
LEMMA PagesListQueue ==
    ASSUME QueueTyped, NEW limit \in Nat \ {0}
    PROVE  ListedBy(limit) = Queued
<1> DEFINE N == Cardinality(CaseIds)
           f == CHOOSE r : Reads(r, limit, N)
<1>1. N \in Nat
  BY Zenon, CasesFinite
<1>2. Reads(f, limit, N)
  BY Zenon, <1>1, ReadsExist
<1>3. ListedBy(limit) = f[N].seen
  BY Zenon DEF ListedBy, Reads, ReadPage, NothingRead
<1> HIDE DEF f
<1>4. /\ f[0] = NothingRead
      /\ \A n \in 1 .. N : f[n] = ReadPage(f[n - 1], limit)
  BY <1>1, <1>2 DEF Reads
<1> DEFINE P(n) == /\ Reading(f[n]) /\ f[n].seen \subseteq Queued
                   /\ f[n].seen = Queued \/ n <= Cardinality(f[n].seen)
           S == {n \in 0 .. N : ~ P(n)}
<1>5. Queued \subseteq CaseIds
  BY Zenon DEF Queued
<1>6. P(0)
  BY <1>4, FS_EmptySet DEF Reading, NothingRead
<1>7. ASSUME NEW n \in 1 .. N, P(n - 1) PROVE P(n)
  <2> DEFINE s == f[n - 1]
             t == f[n]
  <2>1. /\ Reading(t) /\ s.seen \subseteq t.seen /\ t.seen \subseteq Queued
        /\ s.seen = Queued => t.seen = Queued
        /\ s.seen # Queued => t.seen # s.seen
    <3>1. Reading(s) /\ t = ReadPage(s, limit)
      BY Zenon, <1>4, <1>7
    <3> HIDE DEF s, t
    <3> QED BY Zenon, <3>1, PageAdvances
  <2>2. Cardinality(t.seen) \in Nat /\ Cardinality(s.seen) \in Nat
        /\ (t.seen # s.seen => Cardinality(s.seen) < Cardinality(t.seen))
    BY Zenon, <1>5, <2>1, CasesFinite
  <2>3. s.seen = Queued \/ n - 1 <= Cardinality(s.seen)
    BY Zenon, <1>7
  <2>4. t.seen = Queued \/ n <= Cardinality(t.seen)
    BY <1>1, <2>1, <2>2, <2>3
  <2> QED BY Zenon, <2>1, <2>4
<1> HIDE DEF P
<1>8. P(N)
  <2> SUFFICES ASSUME S # {} PROVE FALSE
    BY <1>1
  <2>0. S \in SUBSET Nat
    BY <1>1
  <2>1. PICK m \in S : \A k \in S : m <= k
    BY Zenon, <2>0, LeastElement
  <2>2. m \in 1 .. N /\ m - 1 \notin S /\ m - 1 \in 0 .. N
    BY <1>1, <1>6, <2>1
  <2> QED BY Zenon, <1>7, <2>1, <2>2
<1>9. f[N].seen = Queued
  <2>1. f[N].seen \subseteq Queued /\ (f[N].seen = Queued \/ N <= Cardinality(f[N].seen))
    BY Zenon, <1>8 DEF P
  <2>2. f[N].seen # CaseIds => Cardinality(f[N].seen) < N
    BY Zenon, <1>5, <2>1, CasesFinite
  <2>3. Cardinality(f[N].seen) \in Nat
    BY Zenon, <1>5, <2>1, CasesFinite
  <2>4. f[N].seen = Queued \/ f[N].seen = CaseIds
    BY <1>1, <2>1, <2>2, <2>3
  <2> QED BY Zenon, <1>5, <2>1, <2>4
<1> QED BY Zenon, <1>3, <1>9

\* An operator who follows the cursors of list_queued_as sees every queued case and no
\* other, whatever the priorities, the times of request and the page size:
\* page_from_candidates and comes_after use one total order.
THEOREM QueueListedAlways ==
    HandoffSpec => [](QueueListed /\ \A limit \in Nat \ {0} : ListedBy(limit) = Queued)
<1>1. HandoffTypeOK => QueueTyped
  <2> SUFFICES ASSUME HandoffTypeOK, NEW h \in CaseIds
               PROVE  cases[h].priority \in Nat /\ cases[h].requestedAt \in Nat
    BY Zenon DEF QueueTyped
  <2>1. cases[h] \in CaseRecords
    BY Zenon DEF HandoffTypeOK
  <2>2. cases[h].priority \in {0} \cup Priorities /\ cases[h].requestedAt \in Nat
    BY Zenon, <2>1 DEF CaseRecords
  <2>3. 0 \in Nat
    BY Zenon
  <2> QED BY Zenon, <2>2, <2>3, QueueAssumption DEF QueueTyped
<1>2. QueueTyped => QueueListed /\ \A limit \in Nat \ {0} : ListedBy(limit) = Queued
  <2>1. 1 .. 2 \subseteq Nat \ {0}
    OBVIOUS
  <2> QED BY Zenon, <2>1, PagesListQueue DEF QueueListed
<1> QED BY <1>1, <1>2, HandoffTyped, PTL

\* So the composition inherits what holds of the stores: with any drivers ticking, every
\* stored Run and case is read back, the settlement reserves are kept, a completed Run
\* has only completed Tasks and the pages of the queue list it.
THEOREM DrivenStoresSafe ==
    Spec => [](/\ RunReplays /\ SettlementReserve /\ CompletionCovered
               /\ CaseReplays /\ CaseReserve /\ QueueListed)
BY DriverImplementsWorkflow, DriverImplementsHandoff, RunAlwaysReplays,
   SettlementReserveAlways, CompletionCoveredAlways, CaseAlwaysReplays, CaseReserveAlways,
   QueueListedAlways, PTL

=============================================================================
