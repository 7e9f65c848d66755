--------------------------- MODULE TemporalDriver ---------------------------
(***************************************************************************)
(* The Temporal Driver of src/temporal/mod.rs with the Workflow and Human   *)
(* Handoff stores it drives.  A tick scans one bounded page of each         *)
(* installed subsystem, fixes its commands, and then applies them one by    *)
(* one at the scanned revisions and at the tick's own time, while callers,  *)
(* operators and other drivers act on the same stores.  The cursor of the   *)
(* next page belongs to the host, which may lose it.                        *)
(***************************************************************************)
EXTENDS Workflow, HumanHandoff

CONSTANTS
    Drivers,         \* hosts that tick, with the same authority
    ScanLimit,
    Deployments,     \* the Runs, cases and drivers a deployment may have; a
                     \* subsystem without any aggregate is not installed
    RunMenu,         \* the commands the callers of a Run send
    CaseMenu,        \* the commands the operators of a case send
    Staff,           \* the operators of a case
    MaxStops         \* how often a driver may stop and lose its cursor

ASSUME DriverAssumption ==
    /\ ScanLimit \in Nat \ {0}
    /\ Deployments \subseteq [workflow : SUBSET RunIds, handoff : SUBSET CaseIds,
                              drivers : SUBSET Drivers]
    /\ Staff \in [CaseIds -> SUBSET Operators]

VARIABLES
    clock,
    installed,       \* the deployment this is
    cursor,          \* [Drivers -> last visited identities; 0 is the start]
    tick,            \* [Drivers -> the running tick or Idle]
    stops

driverVars == << cursor, tick, stops >>
vars == << runs, graph, completing, cases, clock, installed, cursor, tick, stops >>

Start == [workflow |-> 0, handoff |-> 0]
Idle == [at |-> 0, wakes |-> {}, expiries |-> {}, next |-> Start]

Init ==
    /\ WorkflowInit
    /\ HandoffInit
    /\ clock = 1
    /\ installed \in Deployments
    /\ cursor = [d \in Drivers |-> Start]
    /\ tick = [d \in Drivers |-> Idle]
    /\ stops = 0

-----------------------------------------------------------------------------
(* The environment: time, and everybody else who uses the stores.           *)

AdvanceClock ==
    /\ clock < MaxTime
    /\ clock' = clock + 1
    /\ UNCHANGED << runs, graph, completing, cases, installed, driverVars >>

LastKind(tr) == tr[Len(tr)].command.kind

\* At most one completion at a time is between its check and its commit.
UseWorkflows ==
    /\ \/ \E r \in installed.workflow :
            /\ RunNext(r, clock)
            /\ LastKind(runs'[r].transitions) \in RunMenu[r]
       \/ installed.workflow # {} /\ CreateGraph
       \/ \E r \in installed.workflow :
            "Complete" \in RunMenu[r] /\ EngineNext(r, clock)
    /\ Cardinality(completing') <= 1
    /\ UNCHANGED << cases, clock, installed, driverVars >>

UseHandoffs ==
    /\ \E h \in installed.handoff : \E actor \in Staff[h] :
         /\ CaseNext(h, actor, clock)
         /\ LastKind(cases'[h].transitions) \in CaseMenu[h]
    /\ UNCHANGED << runs, graph, completing, clock, installed, driverVars >>

-----------------------------------------------------------------------------
(* tick_as                                                                  *)

\* The identities a scan visits after its cursor, and whether more are left.
Page(ids, after) ==
    {i \in ids : i > after /\
        Cardinality({j \in ids : after < j /\ j < i}) < ScanLimit}

HasMore(ids, after) == \E i \in ids : i > after /\ i \notin Page(ids, after)

\* Faulty variant: the last page of a sweep keeps its cursor.
NextAfterSticky(ids, after) ==
    LET page == Page(ids, after)
    IN  IF page = {} THEN after ELSE CHOOSE i \in page : \A j \in page : j <= i

\* The cursor a page returns; a sweep that is complete starts again.
NextAfter(ids, after) ==
    IF HasMore(ids, after)
    THEN LET page == Page(ids, after) IN CHOOSE i \in page : \A j \in page : j <= i
    ELSE 0

\* scan_due_as of the Workflow store, with page_from_scan and due_wait.
DueWaits(after, at) ==
    {[id |-> r, revision |-> Revision(runs[r]), fence |-> runs[r].wait.id] :
       r \in {q \in Page({p \in RunIds : Exists(runs[p])}, after) :
                runs[q].status = "Waiting" /\ IsDue(runs[q].wait, at)}}

\* scan_due_as of the Human Handoff store, with due_page_from_scan.
DueClaims(after, at) ==
    {[id |-> h, revision |-> CaseRevision(cases[h]), fence |-> cases[h].claim.id] :
       h \in {g \in Page({f \in CaseIds : CaseExists(cases[f])}, after) :
                cases[g].status = "Claimed" /\ cases[g].claim.expires <= at}}

\* The scans of a tick; nothing is changed before all of them are done.
Scan(d) ==
    /\ d \in installed.drivers
    /\ tick[d] = Idle
    /\ UNCHANGED << runs, graph, completing, cases, clock, installed, cursor, stops >>
    /\ tick' = [tick EXCEPT ![d] =
         [at       |-> clock,
          wakes    |-> DueWaits(cursor[d].workflow, clock),
          expiries |-> DueClaims(cursor[d].handoff, clock),
          next     |-> [workflow |-> NextAfter({r \in RunIds : Exists(runs[r])},
                                               cursor[d].workflow),
                        handoff  |-> NextAfter({h \in CaseIds : CaseExists(cases[h])},
                                               cursor[d].handoff)]]]

FirstOf(due) == CHOOSE i \in due : \A j \in due : i.id <= j.id

\* One Workflow attempt: Applied, or Duplicate, Fenced or Failed.
AttemptWake(d) ==
    /\ tick[d].wakes # {}
    /\ LET due == FirstOf(tick[d].wakes)
       IN  /\ \/ WakeDue(due.id, due.revision, due.fence, tick[d].at)
              \/ /\ Reply(runs[due.id], due.revision, WakeCommand(due.fence),
                          tick[d].at) # "applied"
                 /\ UNCHANGED << runs, graph, completing >>
           /\ tick' = [tick EXCEPT ![d].wakes = @ \ {due}]
    /\ UNCHANGED << cases, clock, installed, cursor, stops >>

\* One Human Handoff attempt, after the Workflow attempts.
AttemptExpire(d) ==
    /\ tick[d].wakes = {}
    /\ tick[d].expiries # {}
    /\ LET due == FirstOf(tick[d].expiries)
       IN  /\ \/ ExpireClaim(due.id, due.revision, due.fence, Temporal, tick[d].at)
              \/ /\ CaseReply(cases[due.id], due.revision, ExpireCommand(due.fence),
                              Temporal, tick[d].at) # "applied"
                 /\ UNCHANGED cases
           /\ tick' = [tick EXCEPT ![d].expiries = @ \ {due}]
    /\ UNCHANGED << runs, graph, completing, clock, installed, cursor, stops >>

\* The report: the host keeps the next cursor.
Report(d) ==
    /\ tick[d] # Idle
    /\ tick[d].wakes = {}
    /\ tick[d].expiries = {}
    /\ cursor' = [cursor EXCEPT ![d] = tick[d].next]
    /\ tick' = [tick EXCEPT ![d] = Idle]
    /\ UNCHANGED << runs, graph, completing, cases, clock, installed, stops >>

\* A driver stops anywhere in a tick and starts again without its cursor.
Stop(d) ==
    /\ d \in installed.drivers
    /\ stops < MaxStops
    /\ stops' = stops + 1
    /\ cursor' = [cursor EXCEPT ![d] = Start]
    /\ tick' = [tick EXCEPT ![d] = Idle]
    /\ UNCHANGED << runs, graph, completing, cases, clock, installed >>

DriverStep(d) == Scan(d) \/ AttemptWake(d) \/ AttemptExpire(d) \/ Report(d)

Next ==
    \/ AdvanceClock
    \/ UseWorkflows
    \/ UseHandoffs
    \/ \E d \in Drivers : DriverStep(d) \/ Stop(d)

Spec == Init /\ [][Next]_vars

\* Some host keeps ticking.  Nothing is assumed of callers, operators or time.
FairSpec == Spec /\ WF_vars(\E d \in Drivers : DriverStep(d))

-----------------------------------------------------------------------------
(* Properties.                                                              *)

Overdue(r) == runs[r].status = "Waiting" /\ IsDue(runs[r].wait, clock)

\* A wait whose time has come ends, whatever pages, lost cursors, stale scans
\* and rival drivers lie between the scan and the wake.  (The next wait of the
\* Run is not yet due when it starts.)
DueWaitEnds == \A r \in RunIds : Overdue(r) ~> ~ Overdue(r)

Lapsed(h) == cases[h].status = "Claimed" /\ cases[h].claim.expires <= clock

\* A claim whose lease is over returns its case to the queue or the case ends.
ExpiredClaimEnds == \A h \in CaseIds : Lapsed(h) ~> ~ Lapsed(h)
=============================================================================
