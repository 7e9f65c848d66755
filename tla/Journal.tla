------------------------------ MODULE Journal ------------------------------
(***************************************************************************)
(* The State journal of one Thread (state/mod.rs, state/wait_due.rs): the  *)
(* Event Store's stream with its live wait row, and the head each State    *)
(* Engine (one per process) caches.                                        *)
(*                                                                         *)
(* An entry of the journal carries the event and `after`, the projection   *)
(* apply_events makes of the stream up to that event.  The Engine rebuilds *)
(* it by replay (load_projection); keeping it with the event spares the    *)
(* recursion.  A projection that is not `ok` is a stream that replay       *)
(* rejects: the Thread can no longer be loaded.                            *)
(***************************************************************************)
EXTENDS Integers, Sequences

CONSTANT
    Engine          \* the processes, each with its own head cache

VARIABLES
    journal,        \* the stream of the Thread, oldest event first
    row,            \* its AgentLoopWaitProjection, or NoRow
    heads           \* [Engine -> the cached StreamHead, or NoHead]

journalVars == <<journal, row, heads>>

(***************************************************************************)
(* Events.  Every event names its Turn; a wait event its wait, the         *)
(* execution revision it consumes (`rev`), the decision or status it       *)
(* carries and the identity of its command (`by`).  Two attempts of one    *)
(* command are the same record: its event id is derived from the command.  *)
(***************************************************************************)
ItemEvent == {"ToolCall", "ToolResult", "ApprovalRequested", "ApprovalDecision",
              "RuntimeError"}
TerminalEvent == {"TurnFinished", "TurnCompleted", "WaitClosed", "DenyWait"}
LifecycleEvent == {"WaitStarted", "AcceptResume", "ClaimReady", "WaitClosed", "DenyWait"}

Event(kind, turn, wait, rev, what, by) ==
    [kind |-> kind, turn |-> turn, wait |-> wait, rev |-> rev, what |-> what, by |-> by]

\* The projection of a Thread that has no Turn yet.
NewThread ==
    [ok |-> TRUE, turns |-> 0, running |-> 0, exec |-> "none", wait |-> 0, rev |-> 0,
     decision |-> "none", result |-> FALSE, last |-> "none", asked |-> 0]

Version == Len(journal)
After(v) == IF v = 0 THEN NewThread ELSE journal[v].after
Current == After(Version)

\* The event ids of these are derived from their command; the others are random, so
\* no two appends of them are one event.
Recorded(e) == /\ e.kind \in LifecycleEvent \cup {"TurnCompleted"}
               /\ \E i \in 1..Len(journal) : journal[i].event = e

(***************************************************************************)
(* apply_events: which events replay accepts after projection p ...        *)
(***************************************************************************)
AtRevision(p, e) == p.running = e.turn /\ p.wait = e.wait /\ p.rev = e.rev

require_new_wait_boundary(p) == p.exec = "none" \/ (p.exec = "Executing" /\ p.result)

Replays(p, e) ==
    CASE e.kind = "TurnStarted"    -> p.running = 0 /\ e.turn > p.turns
      [] e.kind \in ItemEvent      -> p.running = e.turn
      [] e.kind = "WaitStarted"    -> p.running = e.turn /\ require_new_wait_boundary(p)
      [] e.kind = "AcceptResume"   -> AtRevision(p, e) /\ p.exec = "Waiting"
      [] e.kind = "ClaimReady"     -> AtRevision(p, e) /\ p.exec = "Ready" /\ p.decision # "Deny"
      [] e.kind = "WaitClosed"     -> /\ AtRevision(p, e)
                                      /\ p.exec \in {"Waiting", "Ready"}
                                      /\ ~(p.exec = "Ready" /\ p.decision = "Deny")
      [] e.kind = "DenyWait"       -> /\ AtRevision(p, e)
                                      /\ p.exec \in {"Waiting", "Ready"}
                                      /\ p.exec = "Ready" => p.decision = e.what
      [] e.kind \in {"TurnFinished", "TurnCompleted"} ->
                                      p.running = e.turn /\ p.exec \notin {"Waiting", "Ready"}
      [] OTHER                     -> TRUE

\* ... and what it makes of them.
apply_events(p, e) ==
    CASE ~Replays(p, e)            -> [p EXCEPT !.ok = FALSE]
      [] e.kind = "TurnStarted"    -> [NewThread EXCEPT !.ok = p.ok, !.turns = e.turn,
                                                        !.running = e.turn]
      [] e.kind \in ItemEvent      -> [p EXCEPT !.last = e.kind,
                                                !.asked = e.wait,
                                                !.result = @ \/ e.kind = "ToolResult"]
      [] e.kind = "WaitStarted"    -> [p EXCEPT !.exec = "Waiting", !.wait = e.wait, !.rev = 1,
                                                !.decision = "none", !.result = FALSE,
                                                !.last = e.kind]
      [] e.kind = "AcceptResume"   -> [p EXCEPT !.exec = "Ready", !.rev = e.rev + 1,
                                                !.decision = e.what, !.last = e.kind]
      [] e.kind = "ClaimReady"     -> [p EXCEPT !.exec = "Executing", !.rev = e.rev + 1,
                                                !.result = FALSE, !.last = e.kind]
      [] e.kind \in TerminalEvent  -> [p EXCEPT !.running = 0, !.exec = "none", !.last = e.kind]
      [] OTHER                     -> p

(***************************************************************************)
(* The live wait row, which the store keeps in step with the stream in the *)
(* transaction of the append.                                              *)
(***************************************************************************)
NoRow == [phase |-> "none", turn |-> 0, wait |-> 0, revision |-> 0, due |-> "none"]

require_current(r, e) == r.phase # "none" /\ r.turn = e.turn /\ r.wait = e.wait
                         /\ r.revision = e.rev

\* Whether projection_change accepts event e over row r ...
ChangeAccepted(r, e) ==
    CASE e.kind = "WaitStarted"  -> r = NoRow
      [] e.kind = "AcceptResume" -> require_current(r, e) /\ r.phase = "Waiting"
      [] e.kind = "ClaimReady"   -> require_current(r, e) /\ r.phase = "ReadyAllow"
      [] e.kind = "WaitClosed"   -> require_current(r, e) /\ r.phase \in {"Waiting", "ReadyAllow"}
      [] e.kind = "DenyWait"     -> /\ require_current(r, e)
                                    /\ r.phase \in {"Waiting", "ReadyDeny"}
                                    /\ e.what = "Deny"
      [] e.kind \in {"TurnFinished", "TurnCompleted"} -> r.turn # e.turn
      [] OTHER                   -> TRUE

\* Variant: the claim does not retire the row.
ProjectionKeepsClaimed(r, e) ==
    CASE e.kind = "WaitStarted"  -> [phase |-> "Waiting", turn |-> e.turn, wait |-> e.wait,
                                     revision |-> 1, due |-> "expiry"]
      [] e.kind = "AcceptResume" ->
            [r EXCEPT !.phase = IF e.what = "Deny" THEN "ReadyDeny" ELSE "ReadyAllow",
                      !.revision = e.rev + 1,
                      !.due = IF e.what = "Deny" THEN "accepted" ELSE @]
      [] e.kind \in {"WaitClosed", "DenyWait"} -> NoRow
      [] OTHER                   -> r

\* Variant: an accepted Approval is no longer due.
ProjectionForgetsExpiry(r, e) ==
    CASE e.kind = "WaitStarted"  -> [phase |-> "Waiting", turn |-> e.turn, wait |-> e.wait,
                                     revision |-> 1, due |-> "expiry"]
      [] e.kind = "AcceptResume" ->
            [r EXCEPT !.phase = IF e.what = "Deny" THEN "ReadyDeny" ELSE "ReadyAllow",
                      !.revision = e.rev + 1,
                      !.due = IF e.what = "Deny" THEN "accepted" ELSE "none"]
      [] e.kind \in {"ClaimReady", "WaitClosed", "DenyWait"} -> NoRow
      [] OTHER                   -> r

\* ... and the row it leaves: an allowed wait keeps its expiry, a denied one is
\* due from the moment it was accepted.
projection_change(r, e) ==
    CASE e.kind = "WaitStarted"  -> [phase |-> "Waiting", turn |-> e.turn, wait |-> e.wait,
                                     revision |-> 1, due |-> "expiry"]
      [] e.kind = "AcceptResume" ->
            [r EXCEPT !.phase = IF e.what = "Deny" THEN "ReadyDeny" ELSE "ReadyAllow",
                      !.revision = e.rev + 1,
                      !.due = IF e.what = "Deny" THEN "accepted" ELSE @]
      [] e.kind \in {"ClaimReady", "WaitClosed", "DenyWait"} -> NoRow
      [] OTHER                   -> r

(***************************************************************************)
(* The head cache.                                                         *)
(***************************************************************************)
NoHead == [version |-> -1, running |-> 0]
stream_head(v) == [version |-> v, running |-> After(v).running]

cache_head(n, h) == IF heads[n].version <= h.version THEN h ELSE heads[n]

\* require_stream_head: the cached head, or one read from the stream.
require_stream_head(n) == IF heads[n] = NoHead THEN stream_head(Version) ELSE heads[n]

\* The head an operation on Turn t uses: a head that does not show t running is
\* read again before the operation gives up.
require_running_head(n, t) ==
    IF require_stream_head(n).running = t THEN require_stream_head(n) ELSE stream_head(Version)

\* Variant: the head is advanced whatever version the append was made at.
AdvanceAnyHead(n, v, e) ==
    [version |-> v + 1,
     running |-> CASE e.kind = "TurnStarted" -> e.turn
                   [] e.kind \in TerminalEvent /\ heads[n].running = e.turn -> 0
                   [] OTHER -> heads[n].running]

advance_head(n, v, e) ==
    IF heads[n].version # v
    THEN heads[n]
    ELSE [version |-> v + 1,
          running |-> CASE e.kind = "TurnStarted" -> e.turn
                        [] e.kind \in TerminalEvent /\ heads[n].running = e.turn -> 0
                        [] OTHER -> heads[n].running]

invalidate_head(n, v) == IF heads[n].version <= v THEN NoHead ELSE heads[n]

(***************************************************************************)
(* append_classified, and commit_pending around it: the stream moves only  *)
(* from the version the caller saw.                                        *)
(***************************************************************************)
\* Variant: the append does not compare the stream's version.
DispositionUnfenced(v, e) ==
    CASE Recorded(e)             -> "Duplicate"
      [] ~ChangeAccepted(row, e) -> "Refused"
      [] OTHER                   -> "Applied"

Disposition(v, e) ==
    CASE Recorded(e)             -> "Duplicate"
      [] v # Version             -> "Conflict"
      [] ~ChangeAccepted(row, e) -> "Refused"
      [] OTHER                   -> "Applied"

\* The transaction of the store: the event and the row it leaves, or nothing.
append_with_disposition(d, e) ==
    IF d = "Applied"
    THEN /\ journal' = Append(journal, [event |-> e, after |-> apply_events(Current, e)])
         /\ row' = projection_change(row, e)
    ELSE UNCHANGED <<journal, row>>

\* How an append ends for its caller: answered; its answer lost and the event found by
\* the lookup that follows an error; or the lookup fails as well.
Answer == {"replied", "found", "lost"}

\* Engine n appends e, prepared at version v.  A duplicate of a maintenance event is
\* byte-identical and answered as an append; that of any other is an error.
commit_pending(n, v, e, how) ==
    LET d == Disposition(v, e)
        answered == how = "replied" /\ (d = "Applied" \/ (d = "Duplicate" /\ e.by = "sweep"))
    IN  /\ append_with_disposition(d, e)
        /\ heads' = [heads EXCEPT ![n] = CASE answered       -> advance_head(n, v, e)
                                           [] d = "Conflict" -> invalidate_head(n, v)
                                           [] OTHER          -> @]

\* Variant: any event of the kind for the wait is taken for the one appended.
CommitOkForWait(v, e, how) ==
    \/ how = "replied" /\ Disposition(v, e) = "Applied"
    \/ /\ how = "found" /\ e.kind \in LifecycleEvent \cup {"TurnCompleted"}
       /\ \/ Disposition(v, e) = "Applied"
          \/ \E i \in 1..Len(journal) : /\ journal[i].event.kind = e.kind
                                        /\ journal[i].event.wait = e.wait

\* What the caller of the append is told.  The lifecycle operations and completion
\* look for their own event after an error; the others pass the error on.
CommitOk(v, e, how) ==
    \/ how = "replied" /\ Disposition(v, e) = "Applied"
    \/ how = "found" /\ e.kind \in LifecycleEvent \cup {"TurnCompleted"}
       /\ Disposition(v, e) \in {"Applied", "Duplicate"}

JournalInit ==
    /\ journal = << >>
    /\ row = NoRow
    /\ heads = [n \in Engine |-> NoHead]

=============================================================================
