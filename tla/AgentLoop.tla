----------------------------- MODULE AgentLoop -----------------------------
(***************************************************************************)
(* The Agent Loop's approval waits (runtime/mod.rs): Runtime workers that  *)
(* run and resume the Turns of one Thread, the maintenance a host performs *)
(* on its waits, the Approval Inbox they ask (approval/mod.rs), people who *)
(* settle requests, time that runs out, crashes and lost answers.          *)
(*                                                                         *)
(* scenario.mode tells the two ways a Turn waits for an Approval:          *)
(* "durable", which journals the wait and releases the worker, and         *)
(* "blocking", the older path, in which the worker polls the Inbox.  Wait  *)
(* k is also the Approval request k it asks and the Tool call k it is for. *)
(***************************************************************************)
EXTENDS Journal, FiniteSets

CONSTANT
    Scenario            \* who takes part, and how much may happen; see Init

\* Processes are none of the other actors, and no name of a command's origin.
ASSUME EngineAssumption ==
    Engine # {} /\ Engine \cap {"host", "sweeper", "sweep"} = {}

\* A Scenario bounds the waits by a number.
ASSUME ScenarioAssumption == \A s \in Scenario : s.waits \in Nat

VARIABLES
    scenario,           \* the scenario of this behaviour
    actor,              \* [the actors that take part -> what each is doing]
    inbox,              \* [Wait -> the status of its Approval record]
    tombs,              \* the keys of the Inbox tombstones State holds
    expired,            \* the waits whose expiry has passed
    entered,            \* [Wait -> how often its Tool was entered]
    crashes             \* how many crashes there were

vars == <<scenario, actor, inbox, tombs, expired, entered, crashes, journalVars>>

\* The bounds of a scenario.
MAX_TURNS == scenario.turns             \* Turns the Thread gets
MAX_WAITS == scenario.waits             \* Tool calls that need an Approval
MAX_CHECKPOINTS == scenario.checkpoints
MAX_CRASHES == scenario.crashes

Wait == 1..MAX_WAITS
Host == "host"
Sweeper == "sweeper"
Actor == Engine \cup {Host, Sweeper}

\* The host's calls and its maintenance run in one of the processes and share its Engine.
Home == CHOOSE n \in Engine : TRUE
EngineOf(a) == IF a \in Engine THEN a ELSE Home

NoEvent == Event("none", 0, 0, 0, "none", "none")
Idle == [pc |-> "idle", turn |-> 0, wait |-> 0, rev |-> 0, resumed |-> FALSE,
         seen |-> 0, event |-> NoEvent, ok |-> "idle", err |-> "idle"]

Init ==
    /\ JournalInit
    /\ scenario \in Scenario
    /\ actor = [a \in scenario.cast |-> Idle]
    /\ inbox = [k \in Wait |-> "absent"]
    /\ tombs = {}
    /\ expired = {}
    /\ entered = [k \in Wait |-> 0]
    /\ crashes = 0

Asked(k, t) == \E i \in 1..Version : journal[i].event.wait = k /\ journal[i].event.turn = t
Decided(k) == inbox[k] \in {"Approve", "Deny"}
\* Waits are numbered in the order their Tool calls are journalled.
NextWait(k) == {journal[i].event.wait : i \in 1..Version} \ {0} = 1..(k - 1)

(***************************************************************************)
(* The steps of an operation: Go moves actor a on, Prepare leaves event e, *)
(* validated at version v, to be appended by Commit, which then continues  *)
(* at ok or at err.                                                        *)
(***************************************************************************)
At(a, pc) == a \in DOMAIN actor /\ actor[a].pc = pc
Go(a, pc) == actor' = [actor EXCEPT ![a] = IF pc = "idle" THEN Idle ELSE [@ EXCEPT !.pc = pc]]
Prepare(a, v, e, ok, err) ==
    actor' = [actor EXCEPT ![a] = [@ EXCEPT !.pc = "commit", !.wait = e.wait, !.seen = v,
                                            !.event = e, !.ok = ok, !.err = err]]

Commit(a) ==
    LET me == actor[a] IN
    /\ At(a, "commit")
    /\ \E how \in Answer :
          /\ commit_pending(EngineOf(a), me.seen, me.event, how)
          /\ LET ok == CommitOk(me.seen, me.event, how)
                 next == IF ok THEN me.ok ELSE me.err
             IN  actor' = [actor EXCEPT ![a] =
                    IF next = "idle" THEN Idle
                    ELSE [me EXCEPT !.pc = next, !.event = NoEvent, !.seen = 0,
                                    !.ok = "idle", !.err = "idle",
                                    !.rev = IF ok /\ me.event.kind = "AcceptResume"
                                            THEN me.event.rev + 1 ELSE me.rev]]
    /\ UNCHANGED <<scenario, inbox, tombs, expired, entered, crashes>>

\* append_item_as and its like: the event goes to the head the Engine holds, which
\* is read again when it does not show the Turn running.
AppendAtHead(a, e, ok, err) ==
    LET n == EngineOf(a)
        head == require_running_head(n, e.turn)
    IN  /\ heads' = [heads EXCEPT ![n] = cache_head(n, head)]
        /\ IF head.running = e.turn
           THEN Prepare(a, head.version, e, ok, err)
           ELSE Go(a, err)
        /\ UNCHANGED <<journal, row>>

\* load_thread_as: the projection is read and its head is cached.
LoadThread(n) ==
    /\ heads' = [heads EXCEPT ![n] = cache_head(n, stream_head(Version))]
    /\ UNCHANGED <<journal, row>>

(***************************************************************************)
(* A worker runs a Turn.  execute_turn loads the Thread (and so caches its *)
(* head) before start_turn_as reads the head.                              *)
(***************************************************************************)
StartTurn(n) ==
    LET t == Current.turns + 1 IN
    /\ At(n, "idle")
    /\ t <= MAX_TURNS
    /\ Current.running = 0
    /\ LoadThread(n)
    /\ actor' = [actor EXCEPT ![n] =
          [Idle EXCEPT !.pc = "commit", !.turn = t, !.seen = Version, !.ok = "agent",
                       !.event = Event("TurnStarted", t, 0, 0, "none", "none")]]
    /\ UNCHANGED <<scenario, inbox, tombs, expired, entered, crashes>>

\* The condition of complete_turn_as.
Completable(p, t) == p.running = t /\ p.exec \notin {"Waiting", "Ready"}

\* The Model proposes a Tool call for which Policy says Ask, answers and completes the
\* Turn, or fails.  completion: the event is appended at the version that was checked.
Agent(n) ==
    LET t == actor[n].turn IN
    /\ At(n, "agent")
    /\ \/ \E k \in Wait : /\ NextWait(k)
                          /\ AppendAtHead(n, Event("ToolCall", t, k, 0, "none", "none"), "ask", "finish")
       \/ /\ IF Completable(Current, t)
             THEN Prepare(n, Version, Event("TurnCompleted", t, 0, 0, "none", "none"), "idle", "erring")
             ELSE Go(n, "erring")
          /\ UNCHANGED journalVars
       \/ Go(n, "erring") /\ UNCHANGED journalVars
    /\ UNCHANGED <<scenario, inbox, tombs, expired, entered, crashes>>

\* settle_error: the error is recorded and the Turn is finished, in two appends.
SettleError(n) ==
    /\ At(n, "erring")
    /\ AppendAtHead(n, Event("RuntimeError", actor[n].turn, 0, 0, "none", "none"), "finish", "finish")
    /\ UNCHANGED <<scenario, inbox, tombs, expired, entered, crashes>>

\* finish_turn_as: the projection is checked, then the head is read on its own.
FinishTurn(n) ==
    LET t == actor[n].turn IN
    /\ \/ At(n, "finish") /\ LoadThread(n)
          /\ Go(n, IF Current.running = t /\ Current.exec \in {"Waiting", "Ready"}
                   THEN "idle" ELSE "finishing")
       \/ At(n, "finishing")
          /\ AppendAtHead(n, Event("TurnFinished", t, 0, 0, "Failed", "none"), "idle", "idle")
    /\ UNCHANGED <<scenario, inbox, tombs, expired, entered, crashes>>

(***************************************************************************)
(* authorize_tool_call_until_wait: the wait is journalled, the request is  *)
(* put in the Inbox, and the worker is released.                           *)
(***************************************************************************)
WaitStartable(p, t) == p.running = t /\ require_new_wait_boundary(p)

StartWait(n) ==
    LET me == actor[n] IN
    /\ At(n, "ask") /\ scenario.mode = "durable"
    /\ \/ Go(n, "erring")                          \* cancelled, or out of active time
       \/ IF WaitStartable(Current, me.turn)
          THEN Prepare(n, Version, Event("WaitStarted", me.turn, me.wait, 0, "none", n),
                       "submit", "unstarted")
          ELSE Go(n, "unstarted")
    /\ UNCHANGED <<scenario, inbox, tombs, expired, entered, crashes, journalVars>>

\* Variant: a failed start is taken to mean that no wait was started.
WaitAssumedNotStarted(n) ==
    /\ At(n, "unstarted")
    /\ Go(n, "erring")
    /\ UNCHANGED <<scenario, inbox, tombs, expired, entered, crashes, journalVars>>

\* A wait that could not be started: the execution is read again to tell a wait that
\* was committed from none, and from another one.
WaitNotStarted(n) ==
    /\ At(n, "unstarted")
    /\ Go(n, CASE Current.running # actor[n].turn \/ Current.exec = "none" -> "erring"
               [] Current.wait = actor[n].wait -> "submit"
               [] OTHER -> "idle")
    /\ UNCHANGED <<scenario, inbox, tombs, expired, entered, crashes, journalVars>>

\* The Inbox's submit_as is idempotent.
submit_as(k) == [inbox EXCEPT ![k] = IF @ = "absent" THEN "Pending" ELSE @]

\* submit_durable_approval, by the worker that started the wait or one that resumes it.
\* A request that cannot be delivered leaves the wait as it is.
Submit(n) ==
    LET k == actor[n].wait IN
    /\ \/ At(n, "submit") \/ At(n, "resubmit")
    /\ \/ Go(n, "idle") /\ UNCHANGED inbox
       \/ /\ <<"wait", k>> \notin tombs
          /\ inbox' = submit_as(k)
          /\ Go(n, IF At(n, "submit") THEN "idle" ELSE "read")
    /\ UNCHANGED <<scenario, tombs, expired, entered, crashes, journalVars>>

(***************************************************************************)
(* Resuming a durable wait (prepare_durable_wait_resume and the State      *)
(* operations it calls).  Each check is made on a projection of its own,   *)
(* and what it found may be stale when the next step uses it.              *)
(***************************************************************************)
Open(p, n) == p.running = actor[n].turn /\ p.wait = actor[n].wait /\ p.rev = actor[n].rev

\* Where a resume of the wait in projection p starts: an accepted denial is settled
\* before cancellation and expiry are considered.
ResumeEntry(p, cancelled) ==
    CASE p.exec = "Ready" /\ p.decision = "Deny" -> "deny"
      [] cancelled \/ p.wait \in expired -> "close"
      [] p.exec = "Waiting" -> "resubmit"
      [] OTHER -> "evidence"

\* A claimed wait is refused.
ResumeWait(n) ==
    /\ At(n, "idle")
    /\ Current.running > 0 /\ Current.exec \in {"Waiting", "Ready"}
    /\ LoadThread(n)
    /\ \E cancelled \in BOOLEAN :
          actor' = [actor EXCEPT ![n] =
             [Idle EXCEPT !.pc = ResumeEntry(Current, cancelled), !.turn = Current.running,
                          !.wait = Current.wait, !.rev = Current.rev]]
    /\ UNCHANGED <<scenario, inbox, tombs, expired, entered, crashes>>

\* read_durable_approval: a read that fails and an unsettled request leave the wait
\* as it is.
Read(n) ==
    /\ At(n, "read")
    /\ \/ Go(n, "idle")
       \/ inbox[actor[n].wait] = "Deny" /\ Go(n, "deny")
       \/ inbox[actor[n].wait] = "Approve" /\ Go(n, "evidence")
    /\ UNCHANGED <<scenario, inbox, tombs, expired, entered, crashes, journalVars>>

\* The Model request is rebuilt and compared with the one that was suspended: it may
\* have changed, and the rebuilding may be cancelled.
Revalidate(n) ==
    /\ At(n, "evidence")
    /\ \/ Go(n, "idle")
       \/ Go(n, "close")
       \/ Go(n, IF actor[n].rev = 1 THEN "accept" ELSE "claim")
    /\ UNCHANGED <<scenario, inbox, tombs, expired, entered, crashes, journalVars>>

\* deny_wait_as: the exact retry of a denial is recognised before anything else.
Deniable(p, k) == \/ p.exec = "Waiting" /\ k \notin expired
                  \/ p.exec = "Ready" /\ p.decision = "Deny"

DenyWait(n) ==
    LET me == actor[n]
        e == Event("DenyWait", me.turn, me.wait, me.rev, "Deny", "runtime")
    IN
    /\ At(n, "deny")
    /\ IF ~Recorded(e) /\ Open(Current, n) /\ Deniable(Current, me.wait)
       THEN Prepare(n, Version, e, "idle", "idle")
       ELSE Go(n, "idle")
    /\ UNCHANGED <<scenario, inbox, tombs, expired, entered, crashes, journalVars>>

\* The condition of close_wait_as on the execution.
Closable(p) == p.exec \in {"Waiting", "Ready"} /\ ~(p.exec = "Ready" /\ p.decision = "Deny")

CloseWait(n) ==
    LET me == actor[n] IN
    /\ At(n, "close")
    /\ \E status \in {"Cancelled", "TimedOut"} :
          /\ status = "TimedOut" => me.wait \in expired
          /\ IF Open(Current, n) /\ Closable(Current)
             THEN Prepare(n, Version, Event("WaitClosed", me.turn, me.wait, me.rev, status, n),
                          "abandon", "idle")
             ELSE Go(n, "idle")
    /\ UNCHANGED <<scenario, inbox, tombs, expired, entered, crashes, journalVars>>

\* abandon_durable_approval: best effort, and done once per Turn.
orphan_turn_as(t) == [k \in Wait |-> IF inbox[k] = "Pending" /\ Asked(k, t) THEN "Orphaned" ELSE inbox[k]]

Abandon(a) ==
    LET t == actor[a].turn IN
    /\ At(a, "abandon")
    /\ \/ UNCHANGED <<inbox, tombs>>
       \/ /\ <<"turn", t>> \notin tombs
          /\ inbox' = orphan_turn_as(t)
          /\ tombs' = tombs \cup {<<"turn", t>>}
    /\ Go(a, "idle")
    /\ UNCHANGED <<scenario, expired, entered, crashes, journalVars>>

\* accept_resume_as of event e by worker n: what the worker does next.  The command is
\* derived from the settlement, so every worker's is the same.
accept_resume_as(n, e) ==
    LET p == Current IN
    IF p.running = e.turn /\ p.wait = e.wait /\ p.exec \in {"Ready", "Executing"} /\ Recorded(e)
    THEN actor' = [actor EXCEPT ![n] = [@ EXCEPT !.pc = "claim", !.rev = e.rev + 1]]
    ELSE IF Open(p, n) /\ p.exec = "Waiting"
         THEN Prepare(n, Version, e, "claim", "idle")
         ELSE Go(n, "idle")

AcceptResume(n) ==
    LET me == actor[n] IN
    /\ At(n, "accept")
    /\ \/ Go(n, "close")                            \* cancelled
       \/ me.wait \in expired /\ Go(n, "close")
       \/ /\ me.wait \notin expired
          /\ accept_resume_as(n, Event("AcceptResume", me.turn, me.wait, me.rev, "Approve", "runtime"))
    /\ UNCHANGED <<scenario, inbox, tombs, expired, entered, crashes, journalVars>>

\* claim_ready_as, under a claim of this worker's own.
claim_ready_as(n, e) ==
    LET p == Current IN
    IF Open(p, n) /\ p.exec = "Ready" /\ p.decision # "Deny"
    THEN Prepare(n, Version, e, "tool", "idle")
    ELSE Go(n, "idle")

ClaimReady(n) ==
    LET me == actor[n] IN
    /\ At(n, "claim")
    /\ \/ Go(n, "close")                            \* cancelled
       \/ me.wait \in expired /\ Go(n, "close")
       \/ /\ me.wait \notin expired
          /\ claim_ready_as(n, Event("ClaimReady", me.turn, me.wait, me.rev, "none", n))
    /\ UNCHANGED <<scenario, inbox, tombs, expired, entered, crashes, journalVars>>

\* execute_tool_call: the effect happens, or fails, before anything records it.
ExecuteTool(n) ==
    /\ At(n, "tool")
    /\ entered' = [entered EXCEPT ![actor[n].wait] = @ + 1]
    /\ Go(n, "result") \/ Go(n, "erring")
    /\ UNCHANGED <<scenario, inbox, tombs, expired, crashes, journalVars>>

RecordResult(n) ==
    /\ At(n, "result")
    /\ AppendAtHead(n, Event("ToolResult", actor[n].turn, actor[n].wait, 0, "none", "none"), "agent", "finish")
    /\ UNCHANGED <<scenario, inbox, tombs, expired, entered, crashes>>

(***************************************************************************)
(* The blocking path: authorize_tool_call records the request and polls    *)
(* the Inbox in decide_as; a worker that resumes the Turn after a crash    *)
(* does the same from the journalled request (prepare_approval_resume).    *)
(***************************************************************************)
RequestApproval(n) ==
    /\ At(n, "ask") /\ scenario.mode = "blocking"
    /\ AppendAtHead(n, Event("ApprovalRequested", actor[n].turn, actor[n].wait, 0, "none", "none"),
                    "decide", "finish")
    /\ UNCHANGED <<scenario, inbox, tombs, expired, entered, crashes>>

\* decide_as: the request is submitted, then polled until it is settled; cancellation
\* and the deadline end the wait.  A first asker then orphans it and fails its Turn; a
\* resuming one leaves both as they are.
Decide(n) ==
    LET k == actor[n].wait IN
    /\ \/ At(n, "decide") /\ Go(n, "poll")
          /\ inbox' = submit_as(k)
       \/ At(n, "poll") /\ Decided(k)
          /\ Go(n, "tombstone") /\ UNCHANGED inbox
       \/ At(n, "poll")                             \* orphaned, cancelled or out of time
          /\ IF actor[n].resumed
             THEN Go(n, "idle") /\ UNCHANGED inbox
             ELSE /\ Go(n, "erring")
                  /\ \/ inbox' = orphan_turn_as(actor[n].turn)
                     \/ UNCHANGED inbox            \* the Inbox cannot be reached
    /\ UNCHANGED <<scenario, tombs, expired, entered, crashes, journalVars>>

\* record_tombstone, and only then the decision, which is a step of its own.
RecordTombstone(n) ==
    /\ At(n, "tombstone")
    /\ tombs' = tombs \cup {<<"wait", actor[n].wait>>}
    /\ Go(n, "decision")
    /\ UNCHANGED <<scenario, inbox, expired, entered, crashes, journalVars>>

RecordDecision(n) ==
    LET k == actor[n].wait IN
    /\ At(n, "decision")
    /\ AppendAtHead(n, Event("ApprovalDecision", actor[n].turn, k, 0, inbox[k], "none"),
                    IF inbox[k] = "Approve" THEN "tool" ELSE "erring", "finish")
    /\ UNCHANGED <<scenario, inbox, tombs, expired, entered, crashes>>

\* resume_approval_turn_with_options: the caller has established that no worker is left.
\* A tombstone for the request refuses the resume.
ResumeApproval(n) ==
    /\ scenario.mode = "blocking"
    /\ \A m \in Engine \cap DOMAIN actor : At(m, "idle")
    /\ n \in DOMAIN actor
    /\ Current.running > 0 /\ Current.last = "ApprovalRequested"
    /\ <<"wait", Current.asked>> \notin tombs
    /\ LoadThread(n)
    /\ actor' = [actor EXCEPT ![n] = [Idle EXCEPT !.pc = "decide", !.turn = Current.running,
                                                  !.wait = Current.asked, !.resumed = TRUE]]
    /\ UNCHANGED <<scenario, inbox, tombs, expired, entered, crashes>>

(***************************************************************************)
(* What a host does to the Thread: the sweep of due waits, exact           *)
(* cancellation, takeover of an interrupted Turn, acceptance of a settled  *)
(* request, Checkpoints.                                                   *)
(***************************************************************************)
Due(r) == r.due = "accepted" \/ (r.due = "expiry" /\ r.wait \in expired)

\* scan_due_agent_loop_waits: the row and the stream version it belongs to.
ScanDue ==
    /\ At(Sweeper, "idle")
    /\ Due(row)
    /\ actor' = [actor EXCEPT ![Sweeper] =
          [Idle EXCEPT !.pc = "due", !.turn = row.turn, !.wait = row.wait, !.rev = row.revision,
                       !.seen = Version, !.ok = row.phase]]
    /\ UNCHANGED <<scenario, inbox, tombs, expired, entered, crashes, journalVars>>

\* load_exact_due_wait_evidence: the events the due row refers to.
DueEvidence(me) ==
    \E i \in 1..Version :
        /\ journal[i].event.turn = me.turn /\ journal[i].event.wait = me.wait
        /\ IF me.ok = "Waiting"
           THEN journal[i].event.kind = "WaitStarted" /\ me.rev = 1
           ELSE /\ journal[i].event.kind = "AcceptResume" /\ me.rev = journal[i].event.rev + 1
                /\ (journal[i].event.what = "Deny") = (me.ok = "ReadyDeny")

\* settle_due_agent_loop_wait_as: appended at the version of the scan.
SettleDue ==
    LET me == actor[Sweeper]
        event(kind, what) == Event(kind, me.turn, me.wait, me.rev, what, "sweep")
    IN
    /\ At(Sweeper, "due")
    /\ IF DueEvidence(me)
       THEN Prepare(Sweeper, me.seen, IF me.ok = "ReadyDeny" THEN event("DenyWait", "Deny")
                                      ELSE event("WaitClosed", "TimedOut"), "idle", "idle")
       ELSE Go(Sweeper, "idle")
    /\ UNCHANGED <<scenario, inbox, tombs, expired, entered, crashes, journalVars>>

\* cancel_wait_exact_as: a retry of the cancellation repeats only the cleanup.
CancelWait ==
    LET p == Current IN
    /\ At(Host, "idle")
    /\ \/ /\ p.running > 0 /\ Closable(p)
          /\ LoadThread(Home)
          /\ actor' = [actor EXCEPT ![Host] =
                [Idle EXCEPT !.pc = "commit", !.turn = p.running, !.wait = p.wait, !.seen = Version,
                   !.event = Event("WaitClosed", p.running, p.wait, p.rev, "Cancelled", "cancel"),
                   !.ok = "abandon"]]
       \/ \E t \in 1..p.turns :
             /\ \E i \in 1..Version : /\ journal[i].event.by = "cancel"
                                      /\ journal[i].event.turn = t
             /\ <<"turn", t>> \notin tombs
             /\ LoadThread(Home)
             /\ actor' = [actor EXCEPT ![Host] = [Idle EXCEPT !.pc = "abandon", !.turn = t]]
    /\ UNCHANGED <<scenario, inbox, tombs, expired, entered, crashes>>

\* recover_thread_as: a Turn with a durable execution is not taken over.  The cleanup
\* of the Inbox follows, also on a retry.
RecoverThread ==
    LET p == Current IN
    /\ \/ /\ At(Host, "idle")
          /\ p.running > 0 /\ p.exec = "none"
          /\ actor' = [actor EXCEPT ![Host] =
                [Idle EXCEPT !.pc = "commit", !.turn = p.running, !.seen = Version, !.ok = "interrupted",
                   !.event = Event("TurnFinished", p.running, 0, 0, "Interrupted", "none")]]
          /\ UNCHANGED inbox
       \/ /\ At(Host, "interrupted")
          /\ inbox' = orphan_turn_as(actor[Host].turn)
          /\ Go(Host, "idle")
       \/ /\ At(Host, "idle")
          /\ p.running = 0 /\ Version > 0
          /\ journal[Version].event.what = "Interrupted"
          /\ inbox' = orphan_turn_as(p.turns)
          /\ UNCHANGED actor
    /\ UNCHANGED <<scenario, tombs, expired, entered, crashes, journalVars>>

\* accept_resume_as called by the host itself, with the settled record of the request.
AcceptSettled ==
    LET p == Current IN
    /\ At(Host, "idle")
    /\ p.running > 0 /\ p.exec = "Waiting"
    /\ Decided(p.wait) /\ p.wait \notin expired
    /\ actor' = [actor EXCEPT ![Host] =
          [Idle EXCEPT !.pc = "commit", !.turn = p.running, !.wait = p.wait, !.seen = Version,
             !.event = Event("AcceptResume", p.running, p.wait, p.rev, inbox[p.wait], Host)]]
    /\ UNCHANGED <<scenario, inbox, tombs, expired, entered, crashes, journalVars>>

\* create_checkpoint_as: appended at the head the Engine holds, stale or not.
Checkpoint ==
    LET head == require_stream_head(Home) IN
    /\ At(Host, "idle")
    /\ Version > 0
    /\ Cardinality({i \in 1..Version : journal[i].event.kind = "Checkpoint"}) < MAX_CHECKPOINTS
    /\ heads' = [heads EXCEPT ![Home] = cache_head(Home, head)]
    /\ actor' = [actor EXCEPT ![Host] = [Idle EXCEPT !.pc = "commit", !.seen = head.version,
                    !.event = Event("Checkpoint", 0, 0, 0, "none", "none")]]
    /\ UNCHANGED <<scenario, inbox, tombs, expired, entered, crashes, journal, row>>

(***************************************************************************)
(* The rest of the world: people settle requests, waits expire, processes  *)
(* crash and lose what they were doing and the heads they had cached.      *)
(***************************************************************************)
\* settle_record: only a pending request is settled.
settle_record(status, decision) == IF status = "Pending" THEN decision ELSE status

settle_as(k) ==
    /\ inbox[k] = "Pending"
    /\ \E decision \in {"Approve", "Deny"} :
          inbox' = [inbox EXCEPT ![k] = settle_record(@, decision)]
    /\ UNCHANGED <<scenario, actor, tombs, expired, entered, crashes, journalVars>>

\* Only the expiry of the wait in force matters.
Expire ==
    /\ row # NoRow
    /\ row.wait \notin expired
    /\ expired' = expired \cup {row.wait}
    /\ UNCHANGED <<scenario, actor, inbox, tombs, entered, crashes, journalVars>>

Crash(n) ==
    /\ n \in DOMAIN actor
    /\ crashes < MAX_CRASHES
    /\ crashes' = crashes + 1
    /\ actor' = [a \in DOMAIN actor |-> IF EngineOf(a) = n THEN Idle ELSE actor[a]]
    /\ heads' = [heads EXCEPT ![n] = NoHead]
    /\ UNCHANGED <<scenario, inbox, tombs, expired, entered, journal, row>>

Worker(n) ==
    \/ StartTurn(n) \/ Agent(n) \/ SettleError(n) \/ FinishTurn(n)
    \/ StartWait(n) \/ WaitNotStarted(n) \/ Submit(n)
    \/ ResumeWait(n) \/ Read(n) \/ Revalidate(n) \/ DenyWait(n) \/ CloseWait(n) \/ AcceptResume(n)
    \/ ClaimReady(n) \/ ExecuteTool(n) \/ RecordResult(n)
    \/ RequestApproval(n) \/ Decide(n) \/ RecordTombstone(n) \/ RecordDecision(n)
    \/ ResumeApproval(n) \/ Crash(n)

Next ==
    \/ \E n \in Engine : Worker(n)
    \/ \E a \in Actor : Commit(a)
    \/ \E a \in Engine \cup {Host} : Abandon(a)
    \/ ScanDue \/ SettleDue
    \/ CancelWait \/ RecoverThread \/ AcceptSettled \/ Checkpoint
    \/ \E k \in Wait : settle_as(k)
    \/ Expire

Spec == Init /\ [][Next]_vars

\* The sweep goes on, and every wait has an expiry, which comes.  Workers, people and
\* the host's other calls owe nothing.
Fairness == WF_vars(Expire) /\ WF_vars(ScanDue) /\ WF_vars(SettleDue) /\ WF_vars(Commit(Sweeper))
FairSpec == Spec /\ Fairness

(***************************************************************************)
(* Properties.                                                             *)
(***************************************************************************)
\* The journal always replays: whatever two processes, the sweep and a host append, and
\* whichever answers are lost, load_projection accepts the stream.  The operations check
\* a projection and append later; only the compare-and-swap of append_classified stands
\* between them.
JournalReplays == Current.ok

\* The live wait row, which decides what the sweep settles, says of the wait exactly what
\* replay of the journal says, and there is no row when no wait is open.
RowMatchesJournal ==
    LET p == Current IN
    IF p.running > 0 /\ p.exec \in {"Waiting", "Ready"}
    THEN /\ row.turn = p.running /\ row.wait = p.wait /\ row.revision = p.rev
         /\ row.phase = CASE p.exec = "Waiting" -> "Waiting"
                          [] p.decision = "Deny" -> "ReadyDeny"
                          [] OTHER -> "ReadyAllow"
    ELSE row = NoRow

\* A cached head, however old, is the head the stream had at that version: advance_head
\* and invalidate_head never mix the events of two processes.  append_item_as and
\* finish_turn_as trust its running Turn without reading the stream.
HeadsTrue ==
    \A n \in Engine : heads[n] # NoHead =>
        heads[n].version <= Version /\ heads[n] = stream_head(heads[n].version)

Journalled(kinds, k) == \E i \in 1..Version : /\ journal[i].event.kind \in kinds
                                              /\ journal[i].event.wait = k

\* The worker goes on with its Turn, or ends it, when its step is done.
Executes(n) ==
    \/ actor[n].pc \in {"agent", "ask", "tool", "result", "decide", "poll", "tombstone", "decision",
                       "erring", "finish", "finishing"}
    \/ At(n, "commit") /\ actor[n].event.kind \in ItemEvent \cup {"TurnCompleted", "TurnFinished"}

\* A Tool that needs an Approval is entered at most once, after an Approve settlement, a
\* journalled claim or decision, and never when the wait was closed or denied, whoever
\* resumes, crashes or sweeps (claim_ready_as, execute_tool_call).
ToolOnceApproved ==
    \A k \in Wait : entered[k] > 0 =>
        /\ entered[k] = 1
        /\ inbox[k] = "Approve"
        /\ Journalled({"ClaimReady", "ApprovalDecision"}, k)
        /\ ~Journalled({"WaitClosed", "DenyWait"}, k)

\* No two workers carry on, or end, the running Turn: a worker whose wait was committed
\* lets go of it, even when the answer to the commit was lost, before another can claim
\* the wait.
SoleExecutor ==
    \A n, m \in Engine \cap DOMAIN actor :
        (n # m /\ Executes(n) /\ Executes(m) /\ actor[n].turn = Current.running)
            => actor[m].turn # Current.running

\* A wait does not stay open for ever: while the sweep goes on, every wait with an expiry
\* is closed, denied or claimed (settle_due_agent_loop_wait_as), whatever others append
\* between the scan and the settlement.
WaitEnds == (row # NoRow /\ Sweeper \in DOMAIN actor) ~> row = NoRow

\* A Turn that stopped at its Approval request, when no worker is left and the request is
\* settled, can be resumed: the resubmission returns the decision rather than being
\* refused by the tombstone reject_if_tombstoned looks up (ADR 0065).
ApprovalResumable ==
    (/\ \A n \in Engine \cap DOMAIN actor : At(n, "idle")
     /\ Current.running > 0 /\ Current.last = "ApprovalRequested" /\ Decided(Current.asked))
        => <<"wait", Current.asked>> \notin tombs

=============================================================================
