-------------------------- MODULE AgentInvariants ---------------------------
(***************************************************************************)
(* What is true of AgentLoop between any two steps: of the journal, its row, *)
(* the cached heads and the events that actors have prepared (LoopInv), and *)
(* of the execution of a Turn (TurnInv), where the journal is seen as the  *)
(* set E of its events with the projection p it replays to.                *)
(***************************************************************************)
EXTENDS AgentLoop

ProjectionFields == {"ok", "turns", "running", "exec", "wait", "rev", "decision", "result",
                     "last", "asked"}

RowFields == {"phase", "turn", "wait", "revision", "due"}

ActorFields == {"pc", "turn", "wait", "rev", "resumed", "seen", "event", "ok", "err"}

\* A projection that replay accepted.
ProjectionOK(p) ==
    /\ DOMAIN p = ProjectionFields
    /\ p.ok = TRUE
    /\ p.turns \in Nat /\ p.running \in Nat /\ p.running <= p.turns

\* What the journal and its row are between appends.
JournalInv ==
    /\ \E S : journal \in Seq(S)
    /\ ProjectionOK(Current)
    /\ DOMAIN row = RowFields
    /\ RowMatchesJournal

\* What the operation that prepares event e at projection p has made sure of itself.  The
\* rest, that the wait is in the state the event asks for, is left to the row.
Fits(p, e) ==
    CASE e.kind = "TurnStarted" -> p.running = 0 /\ e.turn \in Nat /\ e.turn > p.turns
      [] e.kind \in ItemEvent \cup {"TurnFinished", "TurnCompleted"} -> p.running = e.turn
      [] e.kind = "WaitStarted" -> /\ p.running = e.turn /\ p.running > 0
                                   /\ require_new_wait_boundary(p)
      [] OTHER -> TRUE

\* Every cached head is a head the stream has had.
HeadsInv ==
    /\ heads = [n \in Engine |-> heads[n]]
    /\ \A n \in Engine : heads[n] = NoHead \/ \E v \in 0..Version : heads[n] = stream_head(v)

\* A Turn whose wait the sweep settled is over.
SweptTurns ==
    \A i \in 1..Version : journal[i].event.by = "sweep" =>
        /\ journal[i].event.turn \in Nat /\ journal[i].event.turn > 0
        /\ journal[i].event.turn <= Current.turns
        /\ journal[i].event.turn # Current.running

\* What actor a, in state x, holds is true of the version it was prepared at.  The sweep
\* holds only waits it has not settled.
ActorOK(a, x) ==
    /\ DOMAIN x = ActorFields
    /\ a \in Engine /\ x.pc # "idle" => x.turn \in Nat /\ x.turn > 0
    /\ x.pc = "commit" =>
          /\ x.seen \in 0..Version
          /\ x.seen = Version => Fits(Current, x.event)
          /\ x.ok # "commit" /\ x.err # "commit"
          /\ a # Sweeper => x.event.by # "sweep"
    /\ a = Sweeper /\ x.pc \in {"due", "commit"} =>
          /\ x.seen \in 0..Version
          /\ \A i \in 1..Version : journal[i].event.by = "sweep" => journal[i].event.turn # x.turn
    /\ a = Sweeper /\ x.pc = "commit" =>
          /\ x.event.by = "sweep" /\ x.event.turn = x.turn
          /\ x.event.kind \in {"WaitClosed", "DenyWait"}
          /\ x.ok = "idle" /\ x.err = "idle"

ActorsInv ==
    /\ actor = [a \in DOMAIN actor |-> actor[a]]
    /\ \A a \in DOMAIN actor : ActorOK(a, actor[a])

LoopInv == JournalInv /\ HeadsInv /\ SweptTurns /\ ActorsInv

Events == {journal[i].event : i \in 1..Version}

\* An event of one of these kinds is about wait k.
Seen(E, kinds, k) == \E e \in E : e.kind \in kinds /\ e.wait = k

WaitsOf(E) == {e.wait : e \in E} \ {0}

\* Wait k has been asked for, by Turn t and no other.
Own(E, k, t) == k \in WaitsOf(E) /\ \A e \in E : e.wait = k => e.turn = t

\* A wait has begun before anything else happens to it, and the two ways of waiting
\* for an Approval do not meet.
EventsOK(E, p, mode) ==
    \A e \in E :
        /\ e.turn \in Nat /\ e.turn <= p.turns
        /\ e.kind \in LifecycleEvent => mode = "durable" /\ Seen(E, {"WaitStarted"}, e.wait)
        /\ e.kind = "ApprovalDecision" => mode = "blocking"

\* The execution of the running Turn: an open wait has not been claimed or closed, and an
\* accepted one was approved by the Inbox.
RunningOK(E, p, box) ==
    /\ p.exec # "none" => Seen(E, {"WaitStarted"}, p.wait) /\ Own(E, p.wait, p.running)
    /\ p.exec = "none" => \A e \in E : e.kind = "WaitStarted" => e.turn # p.running
    /\ p.exec \in {"Waiting", "Ready"} =>
          ~Seen(E, {"ClaimReady", "WaitClosed", "DenyWait"}, p.wait)
    /\ p.exec = "Waiting" => p.rev = 1
    /\ p.exec = "Ready" => p.rev = 2 /\ (p.decision # "Deny" => box[p.wait] = "Approve")
    /\ p.last = "ApprovalRequested" =>
          /\ p.exec = "none" /\ Own(E, p.asked, p.running)
          /\ ~Seen(E, {"ApprovalDecision"}, p.asked)

ExecutionOK(E, p, box) == IF p.running > 0 THEN RunningOK(E, p, box) ELSE p.exec = "none"

\* Where a worker continues after its append, and what it knows of the event.
ShapeOK(E, box, n, x) ==
    LET e == x.event IN
    \/ e.kind = "TurnStarted" /\ x.ok = "agent" /\ x.err = "idle"
    \/ e.kind = "ToolCall" /\ x.ok = "ask" /\ x.err = "finish"
    \/ e.kind = "ToolResult" /\ x.ok = "agent" /\ x.err = "finish"
    \/ e.kind = "ApprovalRequested" /\ x.ok = "decide" /\ x.err = "finish"
    \/ /\ e.kind = "ApprovalDecision" /\ x.err = "finish"
       /\ x.ok = "erring" \/ (x.ok = "tool" /\ box[e.wait] = "Approve")
    \/ e.kind = "RuntimeError" /\ x.ok = "finish" /\ x.err = "finish"
    \/ e.kind = "TurnCompleted" /\ x.ok = "idle" /\ x.err = "erring"
    \/ e.kind = "TurnFinished" /\ x.ok = "idle" /\ x.err = "idle"
    \/ e.kind = "WaitStarted" /\ x.ok = "submit" /\ x.err = "unstarted"
    \/ e.kind = "AcceptResume" /\ x.ok = "claim" /\ x.err = "idle"
    \/ /\ e.kind = "ClaimReady" /\ x.ok = "tool" /\ x.err = "idle"
       /\ e.by = n /\ e \notin E /\ box[e.wait] = "Approve"
    \/ e.kind = "WaitClosed" /\ x.ok = "abandon" /\ x.err = "idle"
    \/ e.kind = "DenyWait" /\ x.ok = "idle" /\ x.err = "idle"

HostEvent == {"TurnFinished", "Checkpoint", "AcceptResume", "WaitClosed", "DenyWait"}

\* The event that actor a in state x is about to append to the stream of length v, of
\* which at most `most` waits are allowed.
PreparedOK(E, v, most, mode, box, a, x) ==
    LET e == x.event IN
    /\ e.kind = "ToolCall" /\ x.seen = v => e.wait \in 1..most /\ WaitsOf(E) = 1..(e.wait - 1)
    /\ e.kind # "ToolCall" => e.wait = 0 \/ Own(E, e.wait, e.turn)
    /\ e.kind \in LifecycleEvent => mode = "durable" /\ e.wait # 0
    /\ e.kind = "AcceptResume" =>
          e.what = "Deny" \/ (e.what = "Approve" /\ box[e.wait] = "Approve")
    /\ e.kind \in {"ApprovalRequested", "ApprovalDecision"} => mode = "blocking" /\ e.wait # 0
    /\ e.kind = "Checkpoint" => e.turn = 0
    /\ a \notin Engine => e.kind \in HostEvent
    /\ a \in Engine => e.turn = x.turn /\ e.wait = x.wait /\ ShapeOK(E, box, a, x)

\* The places of a worker at which it carries on or ends its Turn.
Carrying == {"agent", "ask", "tool", "result", "decide", "poll", "tombstone", "decision",
             "erring", "finish", "finishing"}

Preparing(x, kinds) == x.pc = "commit" /\ x.event.kind \in kinds

\* A worker that carries its Turn, or will when it learns that its wait did not begin.
Holds(E, x) ==
    \/ x.pc \in Carrying
    \/ Preparing(x, ItemEvent \cup {"TurnCompleted", "TurnFinished", "WaitStarted"})
    \/ x.pc = "unstarted" /\ ~Seen(E, {"WaitStarted"}, x.wait)

\* A worker whose Tool call is neither waited for nor decided.
Undecided(x) ==
    \/ x.pc \in {"ask", "decide", "poll", "tombstone", "decision"}
    \/ Preparing(x, {"WaitStarted", "ApprovalRequested", "ApprovalDecision"})

\* What is true of a worker in state x that may enter the Tool of its wait.
MayEnter(E, box, ent, k) ==
    /\ ent[k] = 0 /\ box[k] = "Approve"
    /\ Seen(E, {"ClaimReady", "ApprovalDecision"}, k)
    /\ ~Seen(E, {"WaitClosed", "DenyWait"}, k)

PlacedOK(E, p, mode, box, ent, x) ==
    /\ x.pc # "idle" /\ ~Preparing(x, {"TurnStarted"}) => x.turn <= p.turns
    /\ Undecided(x) \/ x.pc \in {"submit", "resubmit", "read", "evidence", "accept", "claim",
                                 "close", "deny", "tool", "result", "unstarted"}
          => Own(E, x.wait, x.turn)
    /\ Undecided(x) /\ x.turn = p.running =>
          ~Seen(E, {"WaitStarted", "ApprovalDecision"}, x.wait)
    /\ x.pc \in {"decide", "poll", "tombstone", "decision"} => mode = "blocking"
    /\ x.pc = "accept" \/ (x.pc = "evidence" /\ x.rev = 1) => box[x.wait] = "Approve"
    /\ x.pc = "tool" => MayEnter(E, box, ent, x.wait)

\* No two workers hold the running Turn, none does while it waits, and no two are about
\* to enter one Tool.
PairsOK(E, p, act) ==
    /\ \A n, m \in Engine \cap DOMAIN act :
          /\ n # m /\ Holds(E, act[n]) /\ Holds(E, act[m]) /\ act[n].turn = p.running
                => act[m].turn # p.running
          /\ n # m /\ act[n].pc = "tool" /\ act[m].pc = "tool" => act[n].wait # act[m].wait
    /\ p.running > 0 /\ p.exec \in {"Waiting", "Ready"} =>
          \A n \in Engine \cap DOMAIN act : Holds(E, act[n]) => act[n].turn # p.running

\* ToolOnceApproved, of the wait k.
OnceApproved(E, box, ent, k) ==
    ent[k] > 0 => /\ ent[k] = 1 /\ box[k] = "Approve"
                  /\ Seen(E, {"ClaimReady", "ApprovalDecision"}, k)
                  /\ ~Seen(E, {"WaitClosed", "DenyWait"}, k)

\* Actor a in state x.
MemberOK(E, p, v, most, mode, box, ent, a, x) ==
    /\ x.pc = "commit" => PreparedOK(E, v, most, mode, box, a, x)
    /\ a \in Engine => PlacedOK(E, p, mode, box, ent, x)
    /\ a = Sweeper /\ x.pc = "due" => mode = "durable" /\ Own(E, x.wait, x.turn)

TurnInv ==
    /\ scenario.waits \in Nat
    /\ inbox = [k \in Wait |-> inbox[k]]
    /\ entered = [k \in Wait |-> entered[k]] /\ \A k \in Wait : entered[k] \in Nat
    /\ EventsOK(Events, Current, scenario.mode)
    /\ \E c \in 0..MAX_WAITS : WaitsOf(Events) = 1..c
    /\ ExecutionOK(Events, Current, inbox)
    /\ \A a \in DOMAIN actor :
          MemberOK(Events, Current, Version, MAX_WAITS, scenario.mode, inbox, entered, a, actor[a])
    /\ PairsOK(Events, Current, actor)
    /\ \A k \in Wait : OnceApproved(Events, inbox, entered, k)
=============================================================================
