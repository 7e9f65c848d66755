-------------------------- MODULE AgentStepProofs ---------------------------
(***************************************************************************)
(* The steps of AgentLoop that append nothing keep TurnInv, for any number *)
(* of processes, Turns, waits and crashes.                                 *)
(***************************************************************************)
EXTENDS AgentInvariants, TLAPS

\* What TurnInv says, with the journal as a set of events.
LEMMA TurnFacts ==
    ASSUME LoopInv, TurnInv
    PROVE  /\ MAX_WAITS \in Nat /\ Wait = 1..MAX_WAITS /\ Version \in Nat
           /\ ProjectionOK(Current) /\ EventsOK(Events, Current, scenario.mode)
           /\ ExecutionOK(Events, Current, inbox) /\ PairsOK(Events, Current, actor)
           /\ \E c \in 0..MAX_WAITS : WaitsOf(Events) = 1..c
           /\ \A k \in 1..MAX_WAITS : entered[k] \in Nat /\ OnceApproved(Events, inbox, entered, k)
           /\ \A b \in DOMAIN actor :
                 /\ MemberOK(Events, Current, Version, MAX_WAITS, scenario.mode, inbox, entered, b,
                             actor[b])
                 /\ DOMAIN actor[b] = ActorFields
                 /\ actor[b].pc = "commit" => actor[b].seen \in 0..Version
                 /\ b \in Engine /\ actor[b].pc # "idle" => actor[b].turn \in Nat /\ actor[b].turn > 0
<1>1. MAX_WAITS \in Nat /\ Wait = 1..MAX_WAITS
  BY Zenon DEF TurnInv, MAX_WAITS, Wait
<1>2. Version \in Nat /\ ProjectionOK(Current)
  <2>1. JournalInv => Version \in Nat
    BY DEF JournalInv, Version
  <2> QED BY Zenon, <2>1 DEF LoopInv, JournalInv
<1>3. ASSUME NEW b \in DOMAIN actor
      PROVE  /\ DOMAIN actor[b] = ActorFields
             /\ actor[b].pc = "commit" => actor[b].seen \in 0..Version
             /\ b \in Engine /\ actor[b].pc # "idle" => actor[b].turn \in Nat /\ actor[b].turn > 0
  BY Zenon DEF LoopInv, ActorsInv, ActorOK
<1> QED BY Zenon, <1>1, <1>2, <1>3 DEF TurnInv

(***************************************************************************)
(* Steps that append nothing keep TurnInv.                                 *)
(***************************************************************************)
\* A settlement stays: a step may add to the Inbox and orphan pending requests.
SteadyInbox ==
    /\ inbox' = [k \in Wait |-> inbox'[k]]
    /\ \A k \in Wait : inbox[k] = "Approve" => inbox'[k] = "Approve"

\* What an actor knows of the Inbox stays true.
LEMMA MemberSteady ==
    ASSUME NEW E, NEW p, NEW v, NEW most, NEW mode, NEW box, NEW ent, NEW a, NEW x, NEW now,
           WaitsOf(E) \subseteq 1..most,
           \A k \in 1..most : box[k] = "Approve" => now[k] = "Approve",
           MemberOK(E, p, v, most, mode, box, ent, a, x)
    PROVE  MemberOK(E, p, v, most, mode, now, ent, a, x)
<1>1. \A k, t : Own(E, k, t) /\ box[k] = "Approve" => now[k] = "Approve"
  BY Zenon DEF Own
<1>2. ASSUME x.pc = "commit" PROVE PreparedOK(E, v, most, mode, now, a, x)
  <2> DEFINE e == x.event
  <2>1. PreparedOK(E, v, most, mode, box, a, x)
    BY Zenon, <1>2 DEF MemberOK
  <2>2. e.kind \in LifecycleEvent \cup {"ApprovalDecision"} => Own(E, e.wait, e.turn)
    BY Zenon, <2>1 DEF PreparedOK, LifecycleEvent
  <2>3. e.kind = "AcceptResume" => e.what = "Deny" \/ (e.what = "Approve" /\ now[e.wait] = "Approve")
    BY Zenon, <1>1, <2>1, <2>2 DEF PreparedOK, LifecycleEvent
  <2>4. e.kind \in {"ClaimReady", "ApprovalDecision"} /\ box[e.wait] = "Approve" => now[e.wait] = "Approve"
    BY Zenon, <1>1, <2>2 DEF LifecycleEvent
  <2>5. ShapeOK(E, box, a, x) => ShapeOK(E, now, a, x)
    BY Zenon, <2>4 DEF ShapeOK
  <2> QED BY Zenon, <2>1, <2>3, <2>5 DEF PreparedOK
<1>3. ASSUME a \in Engine PROVE PlacedOK(E, p, mode, now, ent, x)
  <2>1. PlacedOK(E, p, mode, box, ent, x)
    BY Zenon, <1>3 DEF MemberOK
  <2>2. x.pc \in {"accept", "evidence", "tool"} => Own(E, x.wait, x.turn)
    BY Zenon, <2>1 DEF PlacedOK
  <2>3. x.pc = "accept" \/ (x.pc = "evidence" /\ x.rev = 1) => now[x.wait] = "Approve"
    BY Zenon, <1>1, <2>1, <2>2 DEF PlacedOK
  <2>4. x.pc = "tool" => MayEnter(E, now, ent, x.wait)
    BY Zenon, <1>1, <2>1, <2>2 DEF PlacedOK, MayEnter
  <2> QED BY Zenon, <2>1, <2>3, <2>4 DEF PlacedOK
<1> QED BY Zenon, <1>2, <1>3 DEF MemberOK

\* A step that appends nothing, in terms of what it leaves.
LEMMA QuietCore ==
    ASSUME LoopInv, TurnInv, UNCHANGED <<journal, scenario>>, SteadyInbox,
           entered' = [k \in Wait |-> entered'[k]],
           \A k \in Wait : entered'[k] \in Nat /\ OnceApproved(Events, inbox, entered', k),
           DOMAIN actor' = DOMAIN actor,
           \A b \in DOMAIN actor : MemberOK(Events, Current, Version, MAX_WAITS, scenario.mode,
                                            inbox, entered', b, actor'[b]),
           PairsOK(Events, Current, actor')
    PROVE  TurnInv'
<1>1. /\ MAX_WAITS \in Nat /\ Wait = 1..MAX_WAITS /\ ProjectionOK(Current)
      /\ EventsOK(Events, Current, scenario.mode) /\ ExecutionOK(Events, Current, inbox)
      /\ \E c \in 0..MAX_WAITS : WaitsOf(Events) = 1..c
  BY Zenon, TurnFacts
<1>2. WaitsOf(Events) \subseteq 1..MAX_WAITS
  BY <1>1
<1>3. Events' = Events /\ Version' = Version /\ Current' = Current
  BY Zenon DEF Events, Version, Current, After
<1>4. MAX_WAITS' = MAX_WAITS /\ Wait' = Wait /\ scenario'.mode = scenario.mode /\ scenario'.waits \in Nat
  BY Zenon DEF MAX_WAITS, Wait, TurnInv
<1>5. \A k \in 1..MAX_WAITS : inbox[k] = "Approve" => inbox'[k] = "Approve"
  BY Zenon, <1>1 DEF SteadyInbox
<1>6. \A b \in DOMAIN actor : MemberOK(Events, Current, Version, MAX_WAITS, scenario.mode,
                                       inbox', entered', b, actor'[b])
  BY Zenon, <1>2, <1>5, MemberSteady
<1>7. \A k \in Wait : OnceApproved(Events, inbox', entered', k)
  BY Zenon, <1>1, <1>5 DEF OnceApproved
<1>8. ExecutionOK(Events, Current, inbox')
  <2>1. ASSUME RunningOK(Events, Current, inbox) PROVE RunningOK(Events, Current, inbox')
    <3>1. Current.exec = "Ready" /\ Current.decision # "Deny" => inbox'[Current.wait] = "Approve"
      BY Zenon, <1>2, <1>5, <2>1 DEF RunningOK, Own
    <3> QED BY Zenon, <2>1, <3>1 DEF RunningOK
  <2> QED BY Zenon, <1>1, <2>1 DEF ExecutionOK
<1> QED BY Zenon, <1>1, <1>3, <1>4, <1>6, <1>7, <1>8 DEF TurnInv, SteadyInbox

\* A step in which one actor changes its state, takes no Turn up and enters no Tool.
LEMMA QuietTurn ==
    ASSUME LoopInv, TurnInv, UNCHANGED <<journal, scenario, entered>>, SteadyInbox,
           NEW a \in DOMAIN actor, NEW x, actor' = [actor EXCEPT ![a] = x],
           MemberOK(Events, Current, Version, MAX_WAITS, scenario.mode, inbox, entered, a, x),
           a \in Engine => x.pc # "tool",
           a \in Engine /\ Holds(Events, x) /\ x.turn = Current.running =>
              Holds(Events, actor[a]) /\ actor[a].turn = Current.running
    PROVE  TurnInv'
<1>1. /\ DOMAIN actor' = DOMAIN actor /\ actor'[a] = x
      /\ \A b \in DOMAIN actor \ {a} : actor'[b] = actor[b]
  BY Zenon DEF LoopInv, ActorsInv
<1>2. \A b \in DOMAIN actor : MemberOK(Events, Current, Version, MAX_WAITS, scenario.mode,
                                       inbox, entered', b, actor'[b])
  BY Zenon, <1>1 DEF TurnInv
<1>3. ASSUME NEW n \in Engine \cap DOMAIN actor, Holds(Events, actor'[n]),
             actor'[n].turn = Current.running
      PROVE  Holds(Events, actor[n]) /\ actor[n].turn = Current.running
  BY Zenon, <1>1, <1>3
<1>4. PairsOK(Events, Current, actor)
  BY Zenon DEF TurnInv
<1>5. PairsOK(Events, Current, actor')
  <2>1. ASSUME NEW n \in Engine \cap DOMAIN actor, NEW m \in Engine \cap DOMAIN actor, n # m,
               actor'[n].pc = "tool", actor'[m].pc = "tool"
        PROVE  actor'[n].wait # actor'[m].wait
    BY Zenon, <1>1, <1>4, <2>1 DEF PairsOK
  <2>2. ASSUME NEW n \in Engine \cap DOMAIN actor, NEW m \in Engine \cap DOMAIN actor, n # m,
               Holds(Events, actor'[n]), Holds(Events, actor'[m]), actor'[n].turn = Current.running
        PROVE  actor'[m].turn # Current.running
    BY Zenon, <1>3, <1>4, <2>2 DEF PairsOK
  <2>3. ASSUME Current.running > 0, Current.exec \in {"Waiting", "Ready"},
               NEW n \in Engine \cap DOMAIN actor, Holds(Events, actor'[n])
        PROVE  actor'[n].turn # Current.running
    BY Zenon, <1>3, <1>4, <2>3 DEF PairsOK
  <2>4. Engine \cap DOMAIN actor' = Engine \cap DOMAIN actor
    BY Zenon, <1>1
  <2> QED BY SMTT(20), <2>1, <2>2, <2>3, <2>4 DEF PairsOK
<1>6. /\ entered' = [k \in Wait |-> entered'[k]]
      /\ \A k \in Wait : entered'[k] \in Nat /\ OnceApproved(Events, inbox, entered', k)
  BY Zenon DEF TurnInv
<1> QED BY Zenon, <1>1, <1>2, <1>5, <1>6, QuietCore

\* A worker may always let go of its Turn.
LEMMA IdleMember ==
    ASSUME NEW E, NEW p, NEW v, NEW most, NEW mode, NEW box, NEW ent, NEW a
    PROVE  MemberOK(E, p, v, most, mode, box, ent, a, Idle) /\ ~Holds(E, Idle) /\ Idle.pc # "tool"
  BY Zenon DEF MemberOK, PlacedOK, Undecided, Preparing, Holds, Carrying, Idle

\* The places at which a worker relies on its wait.
KnowsWait == {"ask", "decide", "poll", "tombstone", "decision", "submit", "resubmit", "read",
              "evidence", "accept", "claim", "close", "deny", "tool", "result", "unstarted"}

\* A worker goes on to pc.
LEMMA GoTurn ==
    ASSUME LoopInv, TurnInv, UNCHANGED <<journal, scenario, entered>>, SteadyInbox,
           NEW n \in Engine, n \in DOMAIN actor, actor[n].pc \notin {"idle", "commit"},
           NEW pc, pc \notin {"commit", "tool"}, Go(n, pc),
           pc \in KnowsWait => Own(Events, actor[n].wait, actor[n].turn),
           pc \in {"ask", "decide", "poll", "tombstone", "decision"} /\ actor[n].turn = Current.running
              => ~Seen(Events, {"WaitStarted", "ApprovalDecision"}, actor[n].wait),
           pc \in {"decide", "poll", "tombstone", "decision"} => scenario.mode = "blocking",
           pc = "accept" \/ (pc = "evidence" /\ actor[n].rev = 1) => inbox[actor[n].wait] = "Approve",
           pc \in Carrying \cup {"unstarted"} /\ actor[n].turn = Current.running =>
              Holds(Events, actor[n])
    PROVE  TurnInv'
<1> DEFINE me == actor[n]
           y == [me EXCEPT !.pc = pc]
<1>1. CASE pc = "idle"
  <2>1. actor' = [actor EXCEPT ![n] = Idle]
    BY Zenon, <1>1 DEF Go
  <2> QED BY Zenon, <2>1, IdleMember, QuietTurn
<1>2. CASE pc # "idle"
  <2>1. actor' = [actor EXCEPT ![n] = y]
    BY Zenon, <1>2 DEF Go
  <2>2. MemberOK(Events, Current, Version, MAX_WAITS, scenario.mode, inbox, entered, n, me)
        /\ DOMAIN me = ActorFields
    BY Zenon, TurnFacts
  <2>3. y.pc = pc /\ y.turn = me.turn /\ y.wait = me.wait /\ y.rev = me.rev
    BY Zenon, <2>2 DEF ActorFields
  <2>4. n # Sweeper
    BY Zenon, EngineAssumption DEF Sweeper
  <2> HIDE DEF y
  <2>5. me.turn <= Current.turns
    BY Zenon, <2>2 DEF MemberOK, PlacedOK, Preparing
  <2>6. /\ Undecided(y) => pc \in {"ask", "decide", "poll", "tombstone", "decision"}
        /\ Undecided(y) \/ pc \in {"submit", "resubmit", "read", "evidence", "accept", "claim",
                                   "close", "deny", "tool", "result", "unstarted"} => pc \in KnowsWait
    BY Zenon, <2>3 DEF Undecided, Preparing, KnowsWait
  <2>7. PlacedOK(Events, Current, scenario.mode, inbox, entered, y)
    BY Zenon, <2>3, <2>5, <2>6 DEF PlacedOK
  <2>8. MemberOK(Events, Current, Version, MAX_WAITS, scenario.mode, inbox, entered, n, y)
    BY Zenon, <2>3, <2>4, <2>7 DEF MemberOK
  <2>9. Holds(Events, y) /\ y.turn = Current.running => Holds(Events, me) /\ me.turn = Current.running
    BY Zenon, <2>3 DEF Holds, Preparing
  <2> QED BY Zenon, <2>1, <2>3, <2>8, <2>9, QuietTurn
<1> QED BY Zenon, <1>1, <1>2

\* A worker that carries its Turn, or works on a wait, prepares the event e.
LEMMA PrepareTurn ==
    ASSUME LoopInv, TurnInv, UNCHANGED <<journal, scenario, entered>>, SteadyInbox,
           NEW n \in Engine, n \in DOMAIN actor, actor[n].pc \notin {"idle", "commit"},
           NEW v, NEW e, NEW ok, NEW err, Prepare(n, v, e, ok, err),
           \A y : (y.event = e /\ y.ok = ok /\ y.err = err /\ y.turn = actor[n].turn /\ y.wait = e.wait)
              => PreparedOK(Events, Version, MAX_WAITS, scenario.mode, inbox, n, y),
           e.kind \in {"WaitStarted", "ApprovalRequested", "ApprovalDecision"} =>
              /\ Own(Events, e.wait, actor[n].turn)
              /\ actor[n].turn = Current.running =>
                    ~Seen(Events, {"WaitStarted", "ApprovalDecision"}, e.wait),
           e.kind \in LifecycleEvent \ {"WaitStarted"} \/ actor[n].pc \in Carrying
    PROVE  TurnInv'
<1> DEFINE me == actor[n]
           y == [me EXCEPT !.pc = "commit", !.wait = e.wait, !.seen = v, !.event = e,
                           !.ok = ok, !.err = err]
<1>1. actor' = [actor EXCEPT ![n] = y]
  BY Zenon DEF Prepare
<1>2. MemberOK(Events, Current, Version, MAX_WAITS, scenario.mode, inbox, entered, n, me)
      /\ DOMAIN me = ActorFields
  BY Zenon, TurnFacts
<1>3. /\ y.pc = "commit" /\ y.turn = me.turn /\ y.wait = e.wait /\ y.rev = me.rev
      /\ y.event = e /\ y.ok = ok /\ y.err = err
  BY Zenon, <1>2 DEF ActorFields
<1> HIDE DEF y
<1>4. n # Sweeper
  BY Zenon, EngineAssumption DEF Sweeper
<1>5. me.turn <= Current.turns
  BY Zenon, <1>2 DEF MemberOK, PlacedOK, Preparing
<1>6. PreparedOK(Events, Version, MAX_WAITS, scenario.mode, inbox, n, y)
  BY Zenon, <1>3
<1>7. y.pc = "commit" => y.pc \notin {"submit", "resubmit", "read", "evidence", "accept", "claim",
             "close", "deny", "tool", "result", "unstarted", "ask", "decide", "poll", "tombstone",
             "decision"} \cup Carrying
  BY Zenon DEF Carrying
<1>8. Undecided(y) => e.kind \in {"WaitStarted", "ApprovalRequested", "ApprovalDecision"}
  BY Zenon, <1>3, <1>7 DEF Undecided, Preparing
<1>9. PlacedOK(Events, Current, scenario.mode, inbox, entered, y)
  BY Zenon, <1>3, <1>5, <1>7, <1>8 DEF PlacedOK
<1>10. MemberOK(Events, Current, Version, MAX_WAITS, scenario.mode, inbox, entered, n, y)
  BY Zenon, <1>3, <1>4, <1>6, <1>9 DEF MemberOK
<1>11. Holds(Events, y) => me.pc \in Carrying
  <2>1. e.kind \in LifecycleEvent \ {"WaitStarted"} =>
           e.kind \notin ItemEvent \cup {"TurnCompleted", "TurnFinished", "WaitStarted"}
    BY Zenon DEF LifecycleEvent, ItemEvent
  <2> QED BY Zenon, <1>3, <1>7, <2>1 DEF Holds, Preparing
<1>12. Holds(Events, y) /\ y.turn = Current.running => Holds(Events, me) /\ me.turn = Current.running
  BY Zenon, <1>3, <1>11 DEF Holds
<1> QED BY Zenon, <1>1, <1>3, <1>7, <1>10, <1>12, QuietTurn

\* A worker prepares the event e at the head it holds, or gives up.
LEMMA HeadTurn ==
    ASSUME LoopInv, TurnInv, UNCHANGED <<scenario, inbox, entered>>,
           NEW n \in Engine, n \in DOMAIN actor, actor[n].pc \in Carrying,
           NEW e, NEW ok, NEW err, err \in {"finish", "idle"}, AppendAtHead(n, e, ok, err),
           \A y : (y.event = e /\ y.ok = ok /\ y.err = err /\ y.turn = actor[n].turn /\ y.wait = e.wait)
              => PreparedOK(Events, Version, MAX_WAITS, scenario.mode, inbox, n, y),
           e.kind \in {"WaitStarted", "ApprovalRequested", "ApprovalDecision"} =>
              /\ Own(Events, e.wait, actor[n].turn)
              /\ actor[n].turn = Current.running =>
                    ~Seen(Events, {"WaitStarted", "ApprovalDecision"}, e.wait)
    PROVE  TurnInv'
<1>1. SteadyInbox
  BY Zenon DEF SteadyInbox, TurnInv
<1>2. UNCHANGED journal /\ ((\E v : Prepare(n, v, e, ok, err)) \/ Go(n, err))
  BY Zenon DEF AppendAtHead
<1>3. actor[n].pc \notin {"idle", "commit"} /\ Holds(Events, actor[n])
  BY Zenon DEF Carrying, Holds
<1>4. CASE \E v : Prepare(n, v, e, ok, err)
  BY Zenon, <1>1, <1>2, <1>3, <1>4, PrepareTurn
<1>5. CASE Go(n, err)
  <2>1. err \notin {"commit", "tool"} /\ err \notin KnowsWait
        /\ err \notin {"ask", "decide", "poll", "tombstone", "decision"}
        /\ err # "accept" /\ err # "evidence"
    BY Zenon DEF KnowsWait
  <2> QED BY Zenon, <1>1, <1>2, <1>3, <1>5, <2>1, GoTurn
<1> QED BY Zenon, <1>2, <1>4, <1>5

\* The Inbox's operations never take a settlement back.
LEMMA InboxOps ==
    ASSUME TurnInv
    PROVE  /\ UNCHANGED inbox => SteadyInbox
           /\ \A k : inbox' = submit_as(k) => SteadyInbox
           /\ \A t : inbox' = orphan_turn_as(t) => SteadyInbox
           /\ \A k, d : inbox' = [inbox EXCEPT ![k] = settle_record(@, d)] => SteadyInbox
<1> USE DEF SteadyInbox
<1>1. inbox = [k \in Wait |-> inbox[k]]
  BY Zenon DEF TurnInv
<1>2. UNCHANGED inbox => SteadyInbox
  BY Zenon, <1>1
<1>3. ASSUME NEW k, inbox' = submit_as(k) PROVE SteadyInbox
  BY Zenon, <1>1, <1>3 DEF submit_as
<1>4. ASSUME NEW t, inbox' = orphan_turn_as(t) PROVE SteadyInbox
  BY Zenon, <1>1, <1>4 DEF orphan_turn_as
<1>5. ASSUME NEW k, NEW d, inbox' = [inbox EXCEPT ![k] = settle_record(@, d)] PROVE SteadyInbox
  BY Zenon, <1>1, <1>5 DEF settle_record
<1> QED BY Zenon, <1>2, <1>3, <1>4, <1>5

\* What a worker knows.
LEMMA WorkerFacts ==
    ASSUME LoopInv, TurnInv, NEW n \in Engine, n \in DOMAIN actor
    PROVE  /\ PlacedOK(Events, Current, scenario.mode, inbox, entered, actor[n])
           /\ actor[n].pc \in KnowsWait => Own(Events, actor[n].wait, actor[n].turn)
           /\ /\ actor[n].pc \in {"ask", "decide", "poll", "tombstone", "decision"}
              /\ actor[n].turn = Current.running
              => ~Seen(Events, {"WaitStarted", "ApprovalDecision"}, actor[n].wait)
           /\ actor[n].pc \in Carrying => Holds(Events, actor[n])
           /\ actor[n].pc # "idle" => actor[n].turn \in Nat /\ actor[n].turn > 0
<1>1. MemberOK(Events, Current, Version, MAX_WAITS, scenario.mode, inbox, entered, n, actor[n])
      /\ (actor[n].pc # "idle" => actor[n].turn \in Nat /\ actor[n].turn > 0)
  BY Zenon, TurnFacts
<1>2. PlacedOK(Events, Current, scenario.mode, inbox, entered, actor[n])
  BY Zenon, <1>1 DEF MemberOK
<1>3. actor[n].pc \in KnowsWait =>
         \/ Undecided(actor[n])
         \/ actor[n].pc \in {"submit", "resubmit", "read", "evidence", "accept", "claim",
                             "close", "deny", "tool", "result", "unstarted"}
  BY Zenon DEF KnowsWait, Undecided
<1> QED BY Zenon, <1>1, <1>2, <1>3 DEF PlacedOK, Undecided, Holds

\* A worker that could not start its wait goes on only if the wait was not journalled.
LEMMA UnstartedTurn ==
    ASSUME LoopInv, TurnInv, NEW n \in Engine, WaitNotStarted(n)
    PROVE  TurnInv'
<1> DEFINE me == actor[n]
           pc == CASE Current.running # me.turn \/ Current.exec = "none" -> "erring"
                   [] Current.wait = me.wait -> "submit"
                   [] OTHER -> "idle"
<1>1. /\ n \in DOMAIN actor /\ me.pc = "unstarted" /\ Go(n, pc)
      /\ UNCHANGED <<scenario, inbox, entered, journal>>
  BY Zenon DEF WaitNotStarted, At, journalVars
<1>2. SteadyInbox
  BY Zenon, <1>1, InboxOps
<1>3. Own(Events, me.wait, me.turn) /\ me.turn \in Nat /\ me.turn > 0
  BY Zenon, <1>1, WorkerFacts DEF KnowsWait
<1>4. pc \in {"erring", "submit", "idle"}
      /\ (pc = "erring" => Current.running # me.turn \/ Current.exec = "none")
  BY Zenon
<1> HIDE DEF pc
<1>5. pc = "erring" /\ me.turn = Current.running => Holds(Events, me)
  <2> SUFFICES ASSUME Current.exec = "none", me.turn = Current.running PROVE Holds(Events, me)
    BY Zenon, <1>4
  <2>1. RunningOK(Events, Current, inbox)
    BY Zenon, <1>3, TurnFacts DEF ExecutionOK
  <2>2. \A e \in Events : e.kind = "WaitStarted" => e.turn # Current.running
    BY Zenon, <2>1 DEF RunningOK
  <2>3. ~Seen(Events, {"WaitStarted"}, me.wait)
    BY Zenon, <1>3, <2>2 DEF Seen, Own
  <2> QED BY Zenon, <1>1, <2>3 DEF Holds
<1>6. pc \notin {"commit", "tool"} /\ pc \notin {"ask", "decide", "poll", "tombstone", "decision"}
      /\ pc # "accept" /\ pc # "evidence" /\ (pc \in Carrying \cup {"unstarted"} => pc = "erring")
      /\ me.pc \notin {"idle", "commit"}
  BY Zenon, <1>1, <1>4 DEF Carrying
<1> QED BY Zenon, <1>1, <1>2, <1>3, <1>5, <1>6, GoTurn

\* Steps that move a worker on along its wait or its decision.
LEMMA MoveTurn ==
    ASSUME LoopInv, TurnInv, NEW n \in Engine,
           Submit(n) \/ Read(n) \/ Revalidate(n) \/ Decide(n) \/ RecordTombstone(n) \/ Abandon(n)
    PROVE  TurnInv'
<1> DEFINE me == actor[n]
<1>1. n \in DOMAIN actor /\ UNCHANGED <<scenario, entered, journal>>
      /\ me.pc \in {"submit", "resubmit", "read", "evidence", "decide", "poll", "tombstone", "abandon"}
  BY Zenon DEF Submit, Read, Revalidate, Decide, RecordTombstone, Abandon, At, journalVars
<1>2. me.pc \notin {"idle", "commit"}
  BY Zenon, <1>1
<1>3. /\ PlacedOK(Events, Current, scenario.mode, inbox, entered, me)
      /\ me.pc \in KnowsWait => Own(Events, me.wait, me.turn)
      /\ me.pc \in {"ask", "decide", "poll", "tombstone", "decision"} /\ me.turn = Current.running
            => ~Seen(Events, {"WaitStarted", "ApprovalDecision"}, me.wait)
      /\ me.pc \in Carrying => Holds(Events, me)
  BY Zenon, <1>1, WorkerFacts
<1>4. me.pc \in {"submit", "resubmit", "read", "evidence", "decide", "poll", "tombstone"} => me.pc \in KnowsWait
  BY Zenon DEF KnowsWait
<1>5. me.pc \in {"decide", "poll", "tombstone"} => me.pc \in Carrying /\ scenario.mode = "blocking"
  BY Zenon, <1>3 DEF Carrying, PlacedOK
<1>6. ASSUME SteadyInbox, Go(n, "idle") PROVE TurnInv'
  <2>1. "idle" \notin {"commit", "tool"} \cup KnowsWait \cup Carrying \cup {"unstarted"}
        \cup {"ask", "decide", "poll", "tombstone", "decision"} \cup {"accept", "evidence"}
    BY Zenon DEF KnowsWait, Carrying
  <2> QED BY Zenon, <1>1, <1>2, <1>6, <2>1, GoTurn
<1>7. ASSUME SteadyInbox, NEW pc \in {"read", "deny", "close", "claim"}, Go(n, pc), me.pc \in KnowsWait
      PROVE  TurnInv'
  <2>1. pc \notin {"commit", "tool"} \cup Carrying \cup {"unstarted"}
        \cup {"ask", "decide", "poll", "tombstone", "decision"} \cup {"accept", "evidence"}
    BY Zenon DEF Carrying
  <2> QED BY Zenon, <1>1, <1>2, <1>3, <1>7, <2>1, GoTurn
<1>8. ASSUME SteadyInbox, NEW pc \in {"accept", "evidence"}, Go(n, pc), me.pc \in KnowsWait,
             pc = "accept" \/ me.rev = 1 => inbox[me.wait] = "Approve"
      PROVE  TurnInv'
  <2>1. pc \notin {"commit", "tool"} \cup Carrying \cup {"unstarted"}
        \cup {"ask", "decide", "poll", "tombstone", "decision"}
    BY Zenon DEF Carrying
  <2> QED BY Zenon, <1>1, <1>2, <1>3, <1>8, <2>1, GoTurn
<1>9. ASSUME SteadyInbox, NEW pc \in {"poll", "tombstone", "decision", "erring"}, Go(n, pc),
             me.pc \in {"decide", "poll", "tombstone"}
      PROVE  TurnInv'
  <2>1. pc \notin {"commit", "tool"} \cup {"accept", "evidence"}
    BY Zenon
  <2>2. me.pc \in {"ask", "decide", "poll", "tombstone", "decision"} /\ me.pc \in KnowsWait
    BY Zenon, <1>4, <1>9
  <2> QED BY Zenon, <1>1, <1>2, <1>3, <1>5, <1>9, <2>1, <2>2, GoTurn
<1>10. CASE Submit(n)
  <2>1. SteadyInbox /\ me.pc \in {"submit", "resubmit"} /\ (Go(n, "idle") \/ Go(n, "read"))
    BY Zenon, <1>10, InboxOps DEF Submit, At
  <2> QED BY Zenon, <1>4, <1>6, <1>7, <2>1
<1>11. CASE Read(n)
  <2>1. /\ UNCHANGED inbox /\ me.pc = "read"
        /\ Go(n, "idle") \/ Go(n, "deny") \/ (inbox[me.wait] = "Approve" /\ Go(n, "evidence"))
    BY Zenon, <1>11 DEF Read, At
  <2>2. SteadyInbox /\ me.pc \in KnowsWait
    BY Zenon, <1>4, <2>1, InboxOps
  <2> QED BY Zenon, <1>6, <1>7, <1>8, <2>1, <2>2
<1>12. CASE Revalidate(n)
  <2>1. /\ UNCHANGED inbox /\ me.pc = "evidence"
        /\ Go(n, "idle") \/ Go(n, "close") \/ (me.rev = 1 /\ Go(n, "accept")) \/ Go(n, "claim")
    BY Zenon, <1>12 DEF Revalidate, At
  <2>2. SteadyInbox /\ me.pc \in KnowsWait /\ (me.rev = 1 => inbox[me.wait] = "Approve")
    BY Zenon, <1>3, <1>4, <2>1, InboxOps DEF PlacedOK
  <2> QED BY Zenon, <1>6, <1>7, <1>8, <2>1, <2>2
<1>13. CASE Decide(n)
  <2>1. /\ SteadyInbox /\ me.pc \in {"decide", "poll"}
        /\ Go(n, "poll") \/ Go(n, "tombstone") \/ Go(n, "idle") \/ Go(n, "erring")
    BY Zenon, <1>13, InboxOps DEF Decide, At
  <2> QED BY Zenon, <1>6, <1>9, <2>1
<1>14. CASE RecordTombstone(n)
  <2>1. UNCHANGED inbox /\ me.pc = "tombstone" /\ Go(n, "decision")
    BY Zenon, <1>14 DEF RecordTombstone, At
  <2>2. SteadyInbox
    BY Zenon, <2>1, InboxOps
  <2> QED BY Zenon, <1>9, <2>1, <2>2
<1>15. CASE Abandon(n)
  <2>1. SteadyInbox /\ Go(n, "idle")
    BY Zenon, <1>15, InboxOps DEF Abandon
  <2> QED BY Zenon, <1>6, <2>1
<1> QED BY Zenon, <1>10, <1>11, <1>12, <1>13, <1>14, <1>15

\* An event about no wait, or about one of the Turn, is prepared by a worker.
LEMMA PreparedItem ==
    ASSUME NEW E, NEW v, NEW most, NEW mode, NEW box, NEW n \in Engine, NEW e, NEW y,
           e.kind \in {"RuntimeError", "TurnFinished", "TurnCompleted", "ToolResult",
                       "ApprovalRequested", "ApprovalDecision"},
           e.wait = 0 \/ Own(E, e.wait, e.turn),
           e.kind \in {"ApprovalRequested", "ApprovalDecision"} => mode = "blocking" /\ e.wait # 0,
           y.event = e, e.turn = y.turn, e.wait = y.wait, ShapeOK(E, box, n, y)
    PROVE  PreparedOK(E, v, most, mode, box, n, y)
  BY Zenon DEF PreparedOK, LifecycleEvent

\* Steps that prepare an item, or the end of the Turn, at the cached head.
LEMMA ItemTurn ==
    ASSUME LoopInv, TurnInv, NEW n \in Engine,
           SettleError(n) \/ FinishTurn(n) \/ RecordResult(n) \/ RequestApproval(n)
           \/ RecordDecision(n)
    PROVE  TurnInv'
<1> DEFINE me == actor[n]
<1>1. n \in DOMAIN actor /\ UNCHANGED <<scenario, inbox, entered>>
      /\ me.pc \in {"erring", "finish", "finishing", "result", "ask", "decision"}
  BY Zenon DEF SettleError, FinishTurn, RecordResult, RequestApproval, RecordDecision, At
<1>2. me.pc \in Carrying
  BY Zenon, <1>1 DEF Carrying
<1>3. /\ PlacedOK(Events, Current, scenario.mode, inbox, entered, me)
      /\ me.pc \in KnowsWait => Own(Events, me.wait, me.turn)
      /\ me.pc \in {"ask", "decide", "poll", "tombstone", "decision"} /\ me.turn = Current.running
            => ~Seen(Events, {"WaitStarted", "ApprovalDecision"}, me.wait)
      /\ Holds(Events, me)
  BY Zenon, <1>1, <1>2, WorkerFacts
<1>4. me.pc \in {"result", "ask", "decision"} => Own(Events, me.wait, me.turn) /\ me.wait # 0
  BY Zenon, <1>3 DEF KnowsWait, Own, WaitsOf
<1>5. CASE SettleError(n)
  <2> DEFINE e == Event("RuntimeError", me.turn, 0, 0, "none", "none")
  <2>1. AppendAtHead(n, e, "finish", "finish")
    BY Zenon, <1>5 DEF SettleError
  <2>2. e.kind = "RuntimeError" /\ e.turn = me.turn /\ e.wait = 0
    BY Zenon DEF Event
  <2> HIDE DEF e
  <2>3. ASSUME NEW y, y.event = e, y.ok = "finish", y.err = "finish", y.turn = me.turn, y.wait = e.wait
        PROVE  PreparedOK(Events, Version, MAX_WAITS, scenario.mode, inbox, n, y)
    <3>1. ShapeOK(Events, inbox, n, y)
      BY Zenon, <2>2, <2>3 DEF ShapeOK
    <3> QED BY <2>2, <2>3, <3>1, PreparedItem
  <2> QED BY Zenon, <1>1, <1>2, <2>1, <2>2, <2>3, HeadTurn
<1>6. CASE RecordResult(n)
  <2> DEFINE e == Event("ToolResult", me.turn, me.wait, 0, "none", "none")
  <2>1. AppendAtHead(n, e, "agent", "finish") /\ me.pc = "result"
    BY Zenon, <1>6 DEF RecordResult, At
  <2>2. e.kind = "ToolResult" /\ e.turn = me.turn /\ e.wait = me.wait
    BY Zenon DEF Event
  <2> HIDE DEF e
  <2>3. ASSUME NEW y, y.event = e, y.ok = "agent", y.err = "finish", y.turn = me.turn, y.wait = e.wait
        PROVE  PreparedOK(Events, Version, MAX_WAITS, scenario.mode, inbox, n, y)
    <3>1. ShapeOK(Events, inbox, n, y)
      BY Zenon, <2>2, <2>3 DEF ShapeOK
    <3> QED BY <1>4, <2>1, <2>2, <2>3, <3>1, PreparedItem
  <2> QED BY Zenon, <1>1, <1>2, <2>1, <2>2, <2>3, HeadTurn
<1>7. CASE RequestApproval(n)
  <2> DEFINE e == Event("ApprovalRequested", me.turn, me.wait, 0, "none", "none")
  <2>1. AppendAtHead(n, e, "decide", "finish") /\ me.pc = "ask" /\ scenario.mode = "blocking"
    BY Zenon, <1>7 DEF RequestApproval, At
  <2>2. e.kind = "ApprovalRequested" /\ e.turn = me.turn /\ e.wait = me.wait
    BY Zenon DEF Event
  <2> HIDE DEF e
  <2>3. ASSUME NEW y, y.event = e, y.ok = "decide", y.err = "finish", y.turn = me.turn, y.wait = e.wait
        PROVE  PreparedOK(Events, Version, MAX_WAITS, scenario.mode, inbox, n, y)
    <3>1. ShapeOK(Events, inbox, n, y)
      BY Zenon, <2>2, <2>3 DEF ShapeOK
    <3> QED BY <1>4, <2>1, <2>2, <2>3, <3>1, PreparedItem
  <2>4. /\ Own(Events, e.wait, me.turn)
        /\ me.turn = Current.running => ~Seen(Events, {"WaitStarted", "ApprovalDecision"}, e.wait)
    BY Zenon, <1>3, <1>4, <2>1, <2>2
  <2> QED BY Zenon, <1>1, <1>2, <2>1, <2>3, <2>4, HeadTurn
<1>8. CASE RecordDecision(n)
  <2> DEFINE e == Event("ApprovalDecision", me.turn, me.wait, 0, inbox[me.wait], "none")
             ok == IF inbox[me.wait] = "Approve" THEN "tool" ELSE "erring"
  <2>1. AppendAtHead(n, e, ok, "finish") /\ me.pc = "decision"
    BY Zenon, <1>8 DEF RecordDecision, At
  <2>2. e.kind = "ApprovalDecision" /\ e.turn = me.turn /\ e.wait = me.wait
    BY Zenon DEF Event
  <2>3. ok = "erring" \/ (ok = "tool" /\ inbox[me.wait] = "Approve")
    BY Zenon
  <2>4. scenario.mode = "blocking"
    BY Zenon, <1>3, <2>1 DEF PlacedOK
  <2> HIDE DEF e, ok
  <2>5. ASSUME NEW y, y.event = e, y.ok = ok, y.err = "finish", y.turn = me.turn, y.wait = e.wait
        PROVE  PreparedOK(Events, Version, MAX_WAITS, scenario.mode, inbox, n, y)
    <3>1. ShapeOK(Events, inbox, n, y)
      BY Zenon, <2>2, <2>3, <2>5 DEF ShapeOK
    <3> QED BY <1>4, <2>1, <2>2, <2>4, <2>5, <3>1, PreparedItem
  <2>6. /\ Own(Events, e.wait, me.turn)
        /\ me.turn = Current.running => ~Seen(Events, {"WaitStarted", "ApprovalDecision"}, e.wait)
    BY Zenon, <1>3, <1>4, <2>1, <2>2
  <2> QED BY Zenon, <1>1, <1>2, <2>1, <2>5, <2>6, HeadTurn
<1>9. CASE FinishTurn(n)
  <2>1. CASE LoadThread(n) /\ (Go(n, "idle") \/ Go(n, "finishing"))
    <3>1. SteadyInbox /\ UNCHANGED journal
      BY Zenon, <1>1, <2>1, InboxOps DEF LoadThread
    <3>2. ASSUME NEW pc \in {"idle", "finishing"}
          PROVE  pc \notin {"commit", "tool"} \cup KnowsWait \cup {"accept", "evidence"}
                 \cup {"ask", "decide", "poll", "tombstone", "decision"}
      BY Zenon DEF KnowsWait
    <3>3. me.pc \notin {"idle", "commit"}
      BY Zenon, <1>1
    <3>4. ASSUME NEW pc \in {"idle", "finishing"}, Go(n, pc) PROVE TurnInv'
      BY Zenon, <1>1, <1>3, <3>1, <3>2, <3>3, <3>4, GoTurn
    <3> QED BY Zenon, <2>1, <3>4
  <2>2. CASE AppendAtHead(n, Event("TurnFinished", me.turn, 0, 0, "Failed", "none"), "idle", "idle")
    <3> DEFINE e == Event("TurnFinished", me.turn, 0, 0, "Failed", "none")
    <3>1. AppendAtHead(n, e, "idle", "idle")
      BY Zenon, <2>2
    <3>2. e.kind = "TurnFinished" /\ e.turn = me.turn /\ e.wait = 0
      BY Zenon DEF Event
    <3> HIDE DEF e
    <3>3. ASSUME NEW y, y.event = e, y.ok = "idle", y.err = "idle", y.turn = me.turn, y.wait = e.wait
          PROVE  PreparedOK(Events, Version, MAX_WAITS, scenario.mode, inbox, n, y)
      <4>1. ShapeOK(Events, inbox, n, y)
        BY Zenon, <3>2, <3>3 DEF ShapeOK
      <4> QED BY <3>2, <3>3, <4>1, PreparedItem
    <3> QED BY Zenon, <1>1, <1>2, <3>1, <3>2, <3>3, HeadTurn
  <2> QED BY Zenon, <1>9, <2>1, <2>2 DEF FinishTurn
<1> QED BY Zenon, <1>5, <1>6, <1>7, <1>8, <1>9

\* The Model proposes a Tool call, completes the Turn, or fails.
LEMMA AgentTurn ==
    ASSUME LoopInv, TurnInv, NEW n \in Engine, Agent(n)
    PROVE  TurnInv'
<1> DEFINE me == actor[n]
<1>1. n \in DOMAIN actor /\ UNCHANGED <<scenario, inbox, entered>> /\ me.pc = "agent"
  BY Zenon DEF Agent, At
<1>2. me.pc \in Carrying /\ me.pc \notin {"idle", "commit"} /\ Holds(Events, me)
  BY Zenon, <1>1 DEF Carrying, Holds
<1>3. SteadyInbox
  BY Zenon, <1>1, InboxOps
<1>4. ASSUME NEW k \in Wait, NextWait(k),
             AppendAtHead(n, Event("ToolCall", me.turn, k, 0, "none", "none"), "ask", "finish")
      PROVE  TurnInv'
  <2> DEFINE e == Event("ToolCall", me.turn, k, 0, "none", "none")
  <2>1. AppendAtHead(n, e, "ask", "finish")
    BY Zenon, <1>4
  <2>2. e.kind = "ToolCall" /\ e.turn = me.turn /\ e.wait = k
    BY Zenon DEF Event
  <2>3. e.wait \in 1..MAX_WAITS /\ WaitsOf(Events) = 1..(e.wait - 1)
    <3>1. {journal[i].event.wait : i \in 1..Version} = {f.wait : f \in Events}
      BY Zenon DEF Events
    <3>2. WaitsOf(Events) = 1..(k - 1)
      BY Zenon, <1>4, <3>1 DEF NextWait, WaitsOf
    <3> QED BY Zenon, <2>2, <3>2 DEF Wait
  <2> HIDE DEF e
  <2>4. ASSUME NEW y, y.event = e, y.ok = "ask", y.err = "finish", y.turn = me.turn, y.wait = e.wait
        PROVE  PreparedOK(Events, Version, MAX_WAITS, scenario.mode, inbox, n, y)
    <3>1. ShapeOK(Events, inbox, n, y)
      BY Zenon, <2>2, <2>4 DEF ShapeOK
    <3> QED BY Zenon, <2>2, <2>3, <2>4, <3>1 DEF PreparedOK, LifecycleEvent
  <2> QED BY Zenon, <1>1, <1>2, <2>1, <2>2, <2>4, HeadTurn
<1>5. CASE Prepare(n, Version, Event("TurnCompleted", me.turn, 0, 0, "none", "none"), "idle", "erring")
           /\ UNCHANGED journal
  <2> DEFINE e == Event("TurnCompleted", me.turn, 0, 0, "none", "none")
  <2>1. Prepare(n, Version, e, "idle", "erring")
    BY Zenon, <1>5
  <2>2. e.kind = "TurnCompleted" /\ e.turn = me.turn /\ e.wait = 0
    BY Zenon DEF Event
  <2> HIDE DEF e
  <2>3. ASSUME NEW y, y.event = e, y.ok = "idle", y.err = "erring", y.turn = me.turn, y.wait = e.wait
        PROVE  PreparedOK(Events, Version, MAX_WAITS, scenario.mode, inbox, n, y)
    <3>1. ShapeOK(Events, inbox, n, y)
      BY Zenon, <2>2, <2>3 DEF ShapeOK
    <3> QED BY <2>2, <2>3, <3>1, PreparedItem
  <2>4. e.kind \notin {"WaitStarted", "ApprovalRequested", "ApprovalDecision"}
    BY Zenon, <2>2
  <2> QED BY Zenon, <1>1, <1>2, <1>3, <1>5, <2>1, <2>3, <2>4, PrepareTurn
<1>6. CASE Go(n, "erring") /\ UNCHANGED journal
  <2>1. "erring" \notin {"commit", "tool"} \cup KnowsWait \cup {"accept", "evidence"}
        \cup {"ask", "decide", "poll", "tombstone", "decision"}
    BY Zenon DEF KnowsWait
  <2> QED BY Zenon, <1>1, <1>2, <1>3, <1>6, <2>1, GoTurn
<1> QED BY Zenon, <1>4, <1>5, <1>6 DEF Agent, journalVars

\* The wait of a running Turn that has an execution.
LEMMA LiveWait ==
    ASSUME LoopInv, TurnInv, Current.running > 0
    PROVE  /\ RunningOK(Events, Current, inbox)
           /\ Current.exec # "none" =>
                 /\ Own(Events, Current.wait, Current.running) /\ Current.wait # 0
                 /\ scenario.mode = "durable"
<1>1. RunningOK(Events, Current, inbox) /\ EventsOK(Events, Current, scenario.mode)
  BY Zenon, TurnFacts DEF ExecutionOK
<1>2. ASSUME Current.exec # "none"
      PROVE  Own(Events, Current.wait, Current.running) /\ Seen(Events, {"WaitStarted"}, Current.wait)
  BY Zenon, <1>1, <1>2 DEF RunningOK
<1>3. Own(Events, Current.wait, Current.running) => Current.wait # 0
  BY Zenon DEF Own, WaitsOf
<1>4. Seen(Events, {"WaitStarted"}, Current.wait) => scenario.mode = "durable"
  BY Zenon, <1>1 DEF Seen, EventsOK, LifecycleEvent
<1> QED BY Zenon, <1>1, <1>2, <1>3, <1>4

\* A worker prepares an event of its wait.
LEMMA PrepareWait ==
    ASSUME LoopInv, TurnInv, UNCHANGED <<journal, scenario, inbox, entered>>,
           NEW n \in Engine, n \in DOMAIN actor, actor[n].pc \in KnowsWait,
           NEW e, NEW ok, NEW err, Prepare(n, Version, e, ok, err),
           e.kind \in LifecycleEvent, e.turn = actor[n].turn, e.wait = actor[n].wait,
           scenario.mode = "durable", e.kind = "WaitStarted" => actor[n].pc = "ask",
           e.kind = "AcceptResume" =>
              e.what = "Deny" \/ (e.what = "Approve" /\ inbox[e.wait] = "Approve"),
           \A y : y.event = e /\ y.ok = ok /\ y.err = err => ShapeOK(Events, inbox, n, y)
    PROVE  TurnInv'
<1> DEFINE me == actor[n]
<1>1. SteadyInbox
  BY Zenon, InboxOps
<1>2. /\ Own(Events, me.wait, me.turn)
      /\ me.pc \in {"ask", "decide", "poll", "tombstone", "decision"} /\ me.turn = Current.running
            => ~Seen(Events, {"WaitStarted", "ApprovalDecision"}, me.wait)
  BY Zenon, WorkerFacts
<1>3. me.pc \notin {"idle", "commit"} /\ (me.pc = "ask" => me.pc \in Carrying)
  BY Zenon DEF KnowsWait, Carrying
<1>4. e.wait # 0 /\ e.kind \notin {"ToolCall", "ApprovalRequested", "ApprovalDecision", "Checkpoint"}
  BY Zenon, <1>2 DEF Own, WaitsOf, LifecycleEvent
<1>5. ASSUME NEW y, y.event = e, y.ok = ok, y.err = err, y.turn = me.turn, y.wait = e.wait
      PROVE  PreparedOK(Events, Version, MAX_WAITS, scenario.mode, inbox, n, y)
  <2>1. ShapeOK(Events, inbox, n, y)
    BY Zenon, <1>5
  <2> QED BY Zenon, <1>2, <1>4, <1>5, <2>1 DEF PreparedOK
<1>6. e.kind \in {"WaitStarted", "ApprovalRequested", "ApprovalDecision"} =>
         /\ Own(Events, e.wait, me.turn)
         /\ me.turn = Current.running => ~Seen(Events, {"WaitStarted", "ApprovalDecision"}, e.wait)
  BY Zenon, <1>2, <1>4
<1>7. e.kind \in LifecycleEvent \ {"WaitStarted"} \/ me.pc \in Carrying
  BY Zenon, <1>3
<1> QED BY Zenon, <1>1, <1>3, <1>5, <1>6, <1>7, PrepareTurn

\* A worker lets go of its wait, closes it, or leaves the request unmade.
LEMMA GoWait ==
    ASSUME LoopInv, TurnInv, UNCHANGED <<journal, scenario, inbox, entered>>,
           NEW n \in Engine, n \in DOMAIN actor, actor[n].pc \in KnowsWait,
           NEW pc \in {"idle", "close", "erring", "unstarted"}, Go(n, pc),
           pc \in {"erring", "unstarted"} => actor[n].pc = "ask"
    PROVE  TurnInv'
<1> DEFINE me == actor[n]
<1>1. SteadyInbox
  BY Zenon, InboxOps
<1>2. Own(Events, me.wait, me.turn) /\ (me.pc \in Carrying => Holds(Events, me))
  BY Zenon, WorkerFacts
<1>3. me.pc \notin {"idle", "commit"} /\ (pc \in Carrying \cup {"unstarted"} => me.pc \in Carrying)
  BY Zenon DEF KnowsWait, Carrying
<1>4. pc \notin {"commit", "tool"} \cup {"accept", "evidence"}
        \cup {"ask", "decide", "poll", "tombstone", "decision"}
  BY Zenon
<1> QED BY Zenon, <1>1, <1>2, <1>3, <1>4, GoTurn

\* Steps that check the projection and prepare an event of the wait.
LEMMA CheckedTurn ==
    ASSUME LoopInv, TurnInv, NEW n \in Engine,
           StartWait(n) \/ DenyWait(n) \/ CloseWait(n) \/ AcceptResume(n) \/ ClaimReady(n)
    PROVE  TurnInv'
<1> DEFINE me == actor[n]
<1>1. n \in DOMAIN actor /\ UNCHANGED <<journal, scenario, inbox, entered>>
      /\ me.pc \in {"ask", "deny", "close", "accept", "claim"}
  BY Zenon DEF StartWait, DenyWait, CloseWait, AcceptResume, ClaimReady, At, journalVars
<1>2. me.pc \in KnowsWait /\ me.pc \notin {"idle", "commit"}
  BY Zenon, <1>1 DEF KnowsWait
<1>3. /\ Own(Events, me.wait, me.turn) /\ me.turn \in Nat /\ me.turn > 0
      /\ PlacedOK(Events, Current, scenario.mode, inbox, entered, me)
  BY Zenon, <1>1, <1>2, WorkerFacts
<1>4. ASSUME NEW pc \in {"idle", "close"}, Go(n, pc) PROVE TurnInv'
  BY Zenon, <1>1, <1>2, <1>4, GoWait
<1>5. Open(Current, n) /\ Current.exec # "none" => scenario.mode = "durable"
  BY Zenon, <1>3, LiveWait DEF Open
<1>6. CASE StartWait(n)
  <2> DEFINE e == Event("WaitStarted", me.turn, me.wait, 0, "none", n)
  <2>1. /\ me.pc = "ask" /\ scenario.mode = "durable"
        /\ Go(n, "erring") \/ Prepare(n, Version, e, "submit", "unstarted") \/ Go(n, "unstarted")
    BY Zenon, <1>6 DEF StartWait, At
  <2>2. e.kind = "WaitStarted" /\ e.turn = me.turn /\ e.wait = me.wait
    BY Zenon DEF Event
  <2> HIDE DEF e
  <2>3. \A y : y.event = e /\ y.ok = "submit" /\ y.err = "unstarted" => ShapeOK(Events, inbox, n, y)
    BY Zenon, <2>2 DEF ShapeOK
  <2>4. e.kind \in LifecycleEvent /\ e.kind # "AcceptResume"
    BY Zenon, <2>2 DEF LifecycleEvent
  <2>5. CASE Prepare(n, Version, e, "submit", "unstarted")
    BY Zenon, <1>1, <1>2, <2>1, <2>2, <2>3, <2>4, <2>5, PrepareWait
  <2>6. ASSUME NEW pc \in {"erring", "unstarted"}, Go(n, pc) PROVE TurnInv'
    BY Zenon, <1>1, <1>2, <2>1, <2>6, GoWait
  <2> QED BY Zenon, <2>1, <2>5, <2>6
<1>7. CASE DenyWait(n)
  <2> DEFINE e == Event("DenyWait", me.turn, me.wait, me.rev, "Deny", "runtime")
  <2>1. \/ Open(Current, n) /\ Deniable(Current, me.wait) /\ Prepare(n, Version, e, "idle", "idle")
        \/ Go(n, "idle")
    BY Zenon, <1>7 DEF DenyWait
  <2>2. e.kind = "DenyWait" /\ e.turn = me.turn /\ e.wait = me.wait
    BY Zenon DEF Event
  <2> HIDE DEF e
  <2>3. \A y : y.event = e /\ y.ok = "idle" /\ y.err = "idle" => ShapeOK(Events, inbox, n, y)
    BY Zenon, <2>2 DEF ShapeOK
  <2>4. e.kind \in LifecycleEvent /\ e.kind # "AcceptResume" /\ e.kind # "WaitStarted"
    BY Zenon, <2>2 DEF LifecycleEvent
  <2>5. CASE Open(Current, n) /\ Deniable(Current, me.wait) /\ Prepare(n, Version, e, "idle", "idle")
    <3>1. scenario.mode = "durable"
      BY Zenon, <1>5, <2>5 DEF Deniable
    <3> QED BY Zenon, <1>1, <1>2, <2>2, <2>3, <2>4, <2>5, <3>1, PrepareWait
  <2> QED BY Zenon, <1>4, <2>1, <2>5
<1>8. CASE CloseWait(n)
  <2> SUFFICES ASSUME NEW status,
                      \/ /\ Open(Current, n) /\ Closable(Current)
                         /\ Prepare(n, Version, Event("WaitClosed", me.turn, me.wait, me.rev, status, n),
                                    "abandon", "idle")
                      \/ Go(n, "idle")
               PROVE  TurnInv'
    BY Zenon, <1>8 DEF CloseWait
  <2> DEFINE e == Event("WaitClosed", me.turn, me.wait, me.rev, status, n)
  <2>1. \/ Open(Current, n) /\ Closable(Current) /\ Prepare(n, Version, e, "abandon", "idle")
        \/ Go(n, "idle")
    BY Zenon
  <2>2. e.kind = "WaitClosed" /\ e.turn = me.turn /\ e.wait = me.wait
    BY Zenon DEF Event
  <2> HIDE DEF e
  <2>3. \A y : y.event = e /\ y.ok = "abandon" /\ y.err = "idle" => ShapeOK(Events, inbox, n, y)
    BY Zenon, <2>2 DEF ShapeOK
  <2>4. e.kind \in LifecycleEvent /\ e.kind # "AcceptResume" /\ e.kind # "WaitStarted"
    BY Zenon, <2>2 DEF LifecycleEvent
  <2>5. CASE Open(Current, n) /\ Closable(Current) /\ Prepare(n, Version, e, "abandon", "idle")
    <3>1. scenario.mode = "durable"
      BY Zenon, <1>5, <2>5 DEF Closable
    <3> QED BY Zenon, <1>1, <1>2, <2>2, <2>3, <2>4, <2>5, <3>1, PrepareWait
  <2> QED BY Zenon, <1>4, <2>1, <2>5
<1>9. CASE AcceptResume(n)
  <2> DEFINE e == Event("AcceptResume", me.turn, me.wait, me.rev, "Approve", "runtime")
             x == [me EXCEPT !.pc = "claim", !.rev = e.rev + 1]
  <2>1. /\ me.pc = "accept"
        /\ \/ Go(n, "close") \/ Go(n, "idle") \/ actor' = [actor EXCEPT ![n] = x]
           \/ Open(Current, n) /\ Current.exec = "Waiting" /\ Prepare(n, Version, e, "claim", "idle")
    BY Zenon, <1>9 DEF AcceptResume, At, accept_resume_as
  <2>2. e.kind = "AcceptResume" /\ e.turn = me.turn /\ e.wait = me.wait /\ e.what = "Approve"
    BY Zenon DEF Event
  <2>3. inbox[me.wait] = "Approve"
    BY Zenon, <1>3, <2>1 DEF PlacedOK
  <2>4. DOMAIN me = ActorFields
    BY Zenon, <1>1, TurnFacts
  <2>5. x.pc = "claim" /\ x.turn = me.turn /\ x.wait = me.wait
    BY Zenon, <2>4 DEF ActorFields
  <2> HIDE DEF e, x
  <2>6. \A y : y.event = e /\ y.ok = "claim" /\ y.err = "idle" => ShapeOK(Events, inbox, n, y)
    BY Zenon, <2>2 DEF ShapeOK
  <2>7. e.kind \in LifecycleEvent /\ e.kind # "WaitStarted"
    BY Zenon, <2>2 DEF LifecycleEvent
  <2>8. CASE Open(Current, n) /\ Current.exec = "Waiting" /\ Prepare(n, Version, e, "claim", "idle")
    <3>1. scenario.mode = "durable"
      BY Zenon, <1>5, <2>8
    <3> QED BY Zenon, <1>1, <1>2, <2>2, <2>3, <2>6, <2>7, <2>8, <3>1, PrepareWait
  <2>9. CASE actor' = [actor EXCEPT ![n] = x]
    <3>1. me.turn <= Current.turns
      BY Zenon, <1>2, <1>3 DEF PlacedOK, Preparing
    <3>2. ~Undecided(x) /\ ~Holds(Events, x)
      BY Zenon, <2>5 DEF Undecided, Holds, Preparing, Carrying
    <3>3. PlacedOK(Events, Current, scenario.mode, inbox, entered, x)
      BY Zenon, <1>3, <2>5, <3>1, <3>2 DEF PlacedOK
    <3>4. MemberOK(Events, Current, Version, MAX_WAITS, scenario.mode, inbox, entered, n, x)
      BY Zenon, <2>5, <3>3 DEF MemberOK
    <3>5. SteadyInbox /\ x.pc # "tool"
      BY Zenon, <1>1, <2>5, InboxOps
    <3> QED BY Zenon, <1>1, <2>9, <3>2, <3>4, <3>5, QuietTurn
  <2> QED BY Zenon, <1>4, <2>1, <2>8, <2>9
<1>10. CASE ClaimReady(n)
  <2> DEFINE e == Event("ClaimReady", me.turn, me.wait, me.rev, "none", n)
  <2>1. \/ Go(n, "close") \/ Go(n, "idle")
        \/ /\ Open(Current, n) /\ Current.exec = "Ready" /\ Current.decision # "Deny"
           /\ Prepare(n, Version, e, "tool", "idle")
    BY Zenon, <1>10 DEF ClaimReady, claim_ready_as
  <2>2. e.kind = "ClaimReady" /\ e.turn = me.turn /\ e.wait = me.wait /\ e.by = n
    BY Zenon DEF Event
  <2> HIDE DEF e
  <2>3. e.kind \in LifecycleEvent /\ e.kind # "AcceptResume" /\ e.kind # "WaitStarted"
    BY Zenon, <2>2 DEF LifecycleEvent
  <2>4. CASE /\ Open(Current, n) /\ Current.exec = "Ready" /\ Current.decision # "Deny"
             /\ Prepare(n, Version, e, "tool", "idle")
    <3>1. scenario.mode = "durable"
      BY Zenon, <1>5, <2>4
    <3>2. Current.wait = me.wait /\ RunningOK(Events, Current, inbox)
      BY Zenon, <1>3, <2>4, LiveWait DEF Open
    <3>3. inbox[e.wait] = "Approve" /\ ~Seen(Events, {"ClaimReady", "WaitClosed", "DenyWait"}, e.wait)
      BY Zenon, <2>2, <2>4, <3>2 DEF RunningOK
    <3>4. e \notin Events
      BY Zenon, <2>2, <3>3 DEF Seen
    <3>5. \A y : y.event = e /\ y.ok = "tool" /\ y.err = "idle" => ShapeOK(Events, inbox, n, y)
      BY Zenon, <2>2, <3>3, <3>4 DEF ShapeOK
    <3> QED BY Zenon, <1>1, <1>2, <2>2, <2>3, <2>4, <3>1, <3>5, PrepareWait
  <2> QED BY Zenon, <1>4, <2>1, <2>4
<1> QED BY Zenon, <1>6, <1>7, <1>8, <1>9, <1>10

\* A Tool is entered by the one worker that may enter it, and not again.
LEMMA ToolTurn ==
    ASSUME LoopInv, TurnInv, NEW n \in Engine, ExecuteTool(n)
    PROVE  TurnInv'
<1> DEFINE me == actor[n]
           k == me.wait
<1>1. /\ n \in DOMAIN actor /\ me.pc = "tool" /\ UNCHANGED <<journal, scenario, inbox>>
      /\ entered' = [entered EXCEPT ![k] = @ + 1] /\ \E pc \in {"result", "erring"} : Go(n, pc)
  BY Zenon DEF ExecuteTool, At, journalVars
<1>2. PICK pc \in {"result", "erring"} : Go(n, pc)
  BY Zenon, <1>1
<1> DEFINE x == [me EXCEPT !.pc = pc]
<1>3. actor' = [actor EXCEPT ![n] = x]
  <2>1. pc # "idle"
    BY Zenon
  <2> QED BY Zenon, <1>2, <2>1 DEF Go
<1>4. /\ DOMAIN me = ActorFields /\ PlacedOK(Events, Current, scenario.mode, inbox, entered, me)
      /\ PairsOK(Events, Current, actor) /\ Wait = 1..MAX_WAITS /\ MAX_WAITS \in Nat
      /\ \A b \in DOMAIN actor : MemberOK(Events, Current, Version, MAX_WAITS, scenario.mode,
                                          inbox, entered, b, actor[b])
  BY Zenon, <1>1, TurnFacts, WorkerFacts DEF TurnInv
<1>5. x.pc = pc /\ x.turn = me.turn /\ x.wait = me.wait
  BY Zenon, <1>4 DEF ActorFields
<1>6. DOMAIN actor' = DOMAIN actor /\ actor'[n] = x /\ \A b \in DOMAIN actor \ {n} : actor'[b] = actor[b]
  BY Zenon, <1>1, <1>3 DEF LoopInv, ActorsInv
<1> HIDE DEF x
<1>7. Own(Events, k, me.turn) /\ MayEnter(Events, inbox, entered, k) /\ me.turn <= Current.turns
  BY Zenon, <1>1, <1>4 DEF PlacedOK, Preparing
<1>8. k \in Wait
  BY <1>4, <1>7, TurnFacts DEF Own
<1>9. /\ entered = [j \in Wait |-> entered[j]] /\ \A j \in Wait : entered[j] \in Nat
      /\ \A j \in Wait : OnceApproved(Events, inbox, entered, j)
  BY Zenon DEF TurnInv
<1>10. /\ entered' = [j \in Wait |-> entered'[j]] /\ \A j \in Wait : entered'[j] \in Nat
       /\ entered'[k] = 1 /\ \A j \in Wait \ {k} : entered'[j] = entered[j]
  BY <1>1, <1>7, <1>8, <1>9 DEF MayEnter
<1>11. \A j \in Wait : OnceApproved(Events, inbox, entered', j)
  <2>1. OnceApproved(Events, inbox, entered', k)
    BY Zenon, <1>7, <1>10 DEF OnceApproved, MayEnter
  <2> QED BY Zenon, <1>9, <1>10, <2>1 DEF OnceApproved
<1>12. ~Undecided(x) /\ Holds(Events, x) /\ Holds(Events, me) /\ x.pc # "tool" /\ x.pc # "commit"
  BY Zenon, <1>1, <1>5 DEF Undecided, Preparing, Holds, Carrying
<1>13. MemberOK(Events, Current, Version, MAX_WAITS, scenario.mode, inbox, entered', n, x)
  <2>1. PlacedOK(Events, Current, scenario.mode, inbox, entered', x)
    BY Zenon, <1>5, <1>7, <1>12 DEF PlacedOK
  <2>2. n # Sweeper
    BY Zenon, EngineAssumption DEF Sweeper
  <2> QED BY Zenon, <1>12, <2>1, <2>2 DEF MemberOK
<1>14. ASSUME NEW b \in DOMAIN actor \ {n}
       PROVE  MemberOK(Events, Current, Version, MAX_WAITS, scenario.mode, inbox, entered', b, actor[b])
  <2>1. MemberOK(Events, Current, Version, MAX_WAITS, scenario.mode, inbox, entered, b, actor[b])
    BY Zenon, <1>4
  <2>2. ASSUME b \in Engine, actor[b].pc = "tool" PROVE MayEnter(Events, inbox, entered', actor[b].wait)
    <3>1. MayEnter(Events, inbox, entered, actor[b].wait) /\ Own(Events, actor[b].wait, actor[b].turn)
      BY Zenon, <2>1, <2>2 DEF MemberOK, PlacedOK
    <3>2. actor[b].wait \in Wait
      BY <1>4, <3>1, TurnFacts DEF Own
    <3>3. actor[b].wait # k
      BY Zenon, <1>1, <1>4, <2>2 DEF PairsOK
    <3> QED BY Zenon, <1>10, <3>1, <3>2, <3>3 DEF MayEnter
  <2>3. ASSUME b \in Engine PROVE PlacedOK(Events, Current, scenario.mode, inbox, entered', actor[b])
    BY Zenon, <2>1, <2>2, <2>3 DEF MemberOK, PlacedOK
  <2> QED BY Zenon, <2>1, <2>3 DEF MemberOK
<1>15. \A b \in DOMAIN actor : MemberOK(Events, Current, Version, MAX_WAITS, scenario.mode, inbox,
                                        entered', b, actor'[b])
  BY Zenon, <1>6, <1>13, <1>14
<1>16. PairsOK(Events, Current, actor')
  <2>1. \A m \in DOMAIN actor : /\ Holds(Events, actor'[m]) <=> Holds(Events, actor[m])
                                /\ actor'[m].turn = actor[m].turn
                                /\ actor'[m].wait = actor[m].wait
                                /\ actor'[m].pc = "tool" => actor[m].pc = "tool"
    BY Zenon, <1>5, <1>6, <1>12
  <2> QED BY SMTT(20), <1>4, <1>6, <2>1 DEF PairsOK
<1>17. SteadyInbox
  BY Zenon, <1>1, InboxOps
<1> QED BY Zenon, <1>1, <1>6, <1>10, <1>11, <1>15, <1>16, <1>17, QuietCore

\* A worker takes up a new Turn or a waiting one.
LEMMA EntryTurn ==
    ASSUME LoopInv, TurnInv, NEW n \in Engine, StartTurn(n) \/ ResumeWait(n)
    PROVE  TurnInv'
<1>1. n \in DOMAIN actor /\ UNCHANGED <<journal, scenario, inbox, entered>>
  BY Zenon DEF StartTurn, ResumeWait, LoadThread, At
<1>2. SteadyInbox
  BY Zenon, <1>1, InboxOps
<1>3. n # Sweeper
  BY Zenon, EngineAssumption DEF Sweeper
<1>4. CASE StartTurn(n)
  <2> DEFINE t == Current.turns + 1
             e == Event("TurnStarted", t, 0, 0, "none", "none")
             x == [Idle EXCEPT !.pc = "commit", !.turn = t, !.seen = Version, !.ok = "agent",
                               !.event = e]
  <2>1. actor' = [actor EXCEPT ![n] = x]
    BY Zenon, <1>4 DEF StartTurn
  <2>2. /\ x.pc = "commit" /\ x.turn = t /\ x.wait = 0 /\ x.event = e /\ x.ok = "agent"
        /\ x.err = "idle"
    BY Zenon DEF Idle
  <2>3. e.kind = "TurnStarted" /\ e.turn = t /\ e.wait = 0
    BY Zenon DEF Event
  <2> HIDE DEF x, e, t
  <2>4. ShapeOK(Events, inbox, n, x)
    BY Zenon, <2>2, <2>3 DEF ShapeOK
  <2>5. PreparedOK(Events, Version, MAX_WAITS, scenario.mode, inbox, n, x)
    BY Zenon, <2>2, <2>3, <2>4 DEF PreparedOK, LifecycleEvent
  <2>6. ~Undecided(x) /\ ~Holds(Events, x) /\ Preparing(x, {"TurnStarted"})
    BY Zenon, <2>2, <2>3 DEF Undecided, Holds, Preparing, Carrying, ItemEvent
  <2>7. PlacedOK(Events, Current, scenario.mode, inbox, entered, x)
    BY Zenon, <2>2, <2>6 DEF PlacedOK
  <2>8. MemberOK(Events, Current, Version, MAX_WAITS, scenario.mode, inbox, entered, n, x)
        /\ x.pc # "tool"
    BY Zenon, <1>3, <2>2, <2>5, <2>7 DEF MemberOK
  <2> QED BY Zenon, <1>1, <1>2, <2>1, <2>6, <2>8, QuietTurn
<1>5. CASE ResumeWait(n)
  <2>1. /\ Current.running > 0 /\ Current.exec \in {"Waiting", "Ready"}
        /\ \E cancelled \in BOOLEAN :
              actor' = [actor EXCEPT ![n] =
                 [Idle EXCEPT !.pc = ResumeEntry(Current, cancelled), !.turn = Current.running,
                              !.wait = Current.wait, !.rev = Current.rev]]
    BY Zenon, <1>5 DEF ResumeWait
  <2>2. PICK cancelled \in BOOLEAN :
           actor' = [actor EXCEPT ![n] =
              [Idle EXCEPT !.pc = ResumeEntry(Current, cancelled), !.turn = Current.running,
                           !.wait = Current.wait, !.rev = Current.rev]]
    BY Zenon, <2>1
  <2> DEFINE pc == ResumeEntry(Current, cancelled)
             x == [Idle EXCEPT !.pc = pc, !.turn = Current.running, !.wait = Current.wait,
                               !.rev = Current.rev]
  <2>3. actor' = [actor EXCEPT ![n] = x]
    BY Zenon, <2>2
  <2>4. pc \in {"deny", "close", "resubmit", "evidence"} /\ (pc = "evidence" => Current.exec # "Waiting")
    BY Zenon DEF ResumeEntry
  <2> HIDE DEF pc
  <2>5. x.pc = pc /\ x.turn = Current.running /\ x.wait = Current.wait /\ x.rev = Current.rev
    BY Zenon DEF Idle
  <2> HIDE DEF x
  <2>6. RunningOK(Events, Current, inbox) /\ Own(Events, Current.wait, Current.running)
    BY Zenon, <2>1, LiveWait
  <2>7. Current.running <= Current.turns
    BY Zenon, TurnFacts DEF ProjectionOK
  <2>8. ~(x.pc = "evidence" /\ x.rev = 1)
    BY <2>1, <2>4, <2>5, <2>6 DEF RunningOK
  <2>9. x.pc \notin {"idle", "commit", "accept", "tool"} /\ ~Undecided(x) /\ ~Holds(Events, x)
    BY Zenon, <2>4, <2>5 DEF Undecided, Holds, Preparing, Carrying
  <2>10. x.pc \notin {"decide", "poll", "tombstone", "decision"}
    BY Zenon, <2>4, <2>5
  <2>11. PlacedOK(Events, Current, scenario.mode, inbox, entered, x)
    BY Zenon, <2>5, <2>6, <2>7, <2>8, <2>9, <2>10 DEF PlacedOK
  <2>12. MemberOK(Events, Current, Version, MAX_WAITS, scenario.mode, inbox, entered, n, x)
         /\ x.pc # "tool"
    BY Zenon, <1>3, <2>9, <2>11 DEF MemberOK
  <2> QED BY Zenon, <1>1, <1>2, <2>3, <2>9, <2>12, QuietTurn
<1> QED BY Zenon, <1>4, <1>5

\* A worker takes up a Turn that stopped at its request, when no worker is left.
LEMMA ResumeApprovalTurn ==
    ASSUME LoopInv, TurnInv, NEW n \in Engine, ResumeApproval(n)
    PROVE  TurnInv'
<1> DEFINE x == [Idle EXCEPT !.pc = "decide", !.turn = Current.running, !.wait = Current.asked,
                             !.resumed = TRUE]
<1>1. /\ n \in DOMAIN actor /\ scenario.mode = "blocking"
      /\ \A m \in Engine \cap DOMAIN actor : actor[m].pc = "idle"
      /\ Current.running > 0 /\ Current.last = "ApprovalRequested"
      /\ actor' = [actor EXCEPT ![n] = x] /\ UNCHANGED <<journal, scenario, inbox, entered>>
  BY Zenon DEF ResumeApproval, LoadThread, At
<1>2. x.pc = "decide" /\ x.turn = Current.running /\ x.wait = Current.asked
  BY Zenon DEF Idle
<1> HIDE DEF x
<1>3. SteadyInbox
  BY Zenon, <1>1, InboxOps
<1>4. /\ Current.exec = "none" /\ Own(Events, x.wait, x.turn)
      /\ ~Seen(Events, {"ApprovalDecision"}, x.wait)
  BY Zenon, <1>1, <1>2, LiveWait DEF RunningOK
<1>5. EventsOK(Events, Current, scenario.mode) /\ Current.running <= Current.turns
      /\ \A b \in DOMAIN actor : MemberOK(Events, Current, Version, MAX_WAITS, scenario.mode,
                                          inbox, entered, b, actor[b])
  BY Zenon, TurnFacts DEF ProjectionOK
<1>6. ~Seen(Events, {"WaitStarted", "ApprovalDecision"}, x.wait)
  BY Zenon, <1>1, <1>4, <1>5 DEF Seen, EventsOK, LifecycleEvent
<1>7. PlacedOK(Events, Current, scenario.mode, inbox, entered, x)
  BY Zenon, <1>1, <1>2, <1>4, <1>5, <1>6 DEF PlacedOK
<1>8. MemberOK(Events, Current, Version, MAX_WAITS, scenario.mode, inbox, entered, n, x)
  BY Zenon, <1>2, <1>7 DEF MemberOK
<1>9. DOMAIN actor' = DOMAIN actor /\ actor'[n] = x /\ \A b \in DOMAIN actor \ {n} : actor'[b] = actor[b]
  BY Zenon, <1>1 DEF LoopInv, ActorsInv
<1>10. \A b \in DOMAIN actor : MemberOK(Events, Current, Version, MAX_WAITS, scenario.mode, inbox,
                                        entered', b, actor'[b])
  BY Zenon, <1>1, <1>5, <1>8, <1>9
<1>11. \A m \in (Engine \cap DOMAIN actor) \ {n} : ~Holds(Events, actor'[m]) /\ actor'[m].pc # "tool"
  <2>1. ASSUME NEW y, y.pc = "idle" PROVE ~Holds(Events, y) /\ y.pc # "tool"
    BY Zenon, <2>1 DEF Holds, Preparing, Carrying
  <2> QED BY Zenon, <1>1, <1>9, <2>1
<1>12. PairsOK(Events, Current, actor')
  BY Zenon, <1>4, <1>9, <1>11 DEF PairsOK
<1>13. /\ entered' = [k \in Wait |-> entered'[k]]
       /\ \A k \in Wait : entered'[k] \in Nat /\ OnceApproved(Events, inbox, entered', k)
  BY Zenon, <1>1 DEF TurnInv
<1> QED BY Zenon, <1>1, <1>3, <1>9, <1>10, <1>12, <1>13, QuietCore

\* A crash makes workers let go of their Turns.
LEMMA CrashTurn ==
    ASSUME LoopInv, TurnInv, NEW n \in Engine, Crash(n)
    PROVE  TurnInv'
<1>1. /\ actor' = [a \in DOMAIN actor |-> IF EngineOf(a) = n THEN Idle ELSE actor[a]]
      /\ UNCHANGED <<journal, scenario, inbox, entered>>
  BY Zenon DEF Crash
<1>2. DOMAIN actor' = DOMAIN actor /\ \A b \in DOMAIN actor : actor'[b] = Idle \/ actor'[b] = actor[b]
  BY Zenon, <1>1
<1>3. SteadyInbox
  BY Zenon, <1>1, InboxOps
<1>4. PairsOK(Events, Current, actor)
      /\ \A b \in DOMAIN actor : MemberOK(Events, Current, Version, MAX_WAITS, scenario.mode,
                                          inbox, entered, b, actor[b])
  BY Zenon, TurnFacts
<1>5. \A b \in DOMAIN actor : MemberOK(Events, Current, Version, MAX_WAITS, scenario.mode, inbox,
                                       entered', b, actor'[b])
  BY Zenon, <1>1, <1>2, <1>4, IdleMember
<1>6. \A m \in DOMAIN actor : Holds(Events, actor'[m]) \/ actor'[m].pc = "tool" => actor'[m] = actor[m]
  BY Zenon, <1>2, IdleMember
<1>7. PairsOK(Events, Current, actor')
  BY SMTT(20), <1>2, <1>4, <1>6 DEF PairsOK
<1>8. /\ entered' = [k \in Wait |-> entered'[k]]
      /\ \A k \in Wait : entered'[k] \in Nat /\ OnceApproved(Events, inbox, entered', k)
  BY Zenon, <1>1 DEF TurnInv
<1> QED BY Zenon, <1>1, <1>2, <1>3, <1>5, <1>7, <1>8, QuietCore

\* The host and the sweep hold no Turn: only what they prepare matters.
LEMMA HostTurn ==
    ASSUME LoopInv, TurnInv, UNCHANGED <<journal, scenario, entered>>, SteadyInbox,
           NEW a \in DOMAIN actor, a \notin Engine, NEW x, actor' = [actor EXCEPT ![a] = x],
           x.pc = "commit" => PreparedOK(Events, Version, MAX_WAITS, scenario.mode, inbox, a, x),
           a = Sweeper /\ x.pc = "due" => scenario.mode = "durable" /\ Own(Events, x.wait, x.turn)
    PROVE  TurnInv'
<1>1. MemberOK(Events, Current, Version, MAX_WAITS, scenario.mode, inbox, entered, a, x)
  BY Zenon DEF MemberOK
<1> QED BY Zenon, <1>1, QuietTurn

\* Steps in which no actor takes part.
LEMMA WorldTurn ==
    ASSUME LoopInv, TurnInv, UNCHANGED <<journal, scenario, entered, actor>>, SteadyInbox
    PROVE  TurnInv'
<1>1. PairsOK(Events, Current, actor')
      /\ \A b \in DOMAIN actor : MemberOK(Events, Current, Version, MAX_WAITS, scenario.mode,
                                          inbox, entered', b, actor'[b])
  BY Zenon, TurnFacts
<1>2. /\ entered' = [k \in Wait |-> entered'[k]]
      /\ \A k \in Wait : entered'[k] \in Nat /\ OnceApproved(Events, inbox, entered', k)
  BY Zenon DEF TurnInv
<1> QED BY Zenon, <1>1, <1>2, QuietCore

\* The sweep holds a wait that was journalled, and prepares to settle it.
LEMMA SweepTurn ==
    ASSUME LoopInv, TurnInv, ScanDue \/ SettleDue
    PROVE  TurnInv'
<1>1. Sweeper \in DOMAIN actor /\ Sweeper \notin Engine /\ UNCHANGED <<journal, scenario, inbox, entered>>
  BY Zenon, EngineAssumption DEF ScanDue, SettleDue, At, journalVars, Sweeper
<1>2. SteadyInbox
  BY Zenon, <1>1, InboxOps
<1>3. CASE ScanDue
  <2> DEFINE x == [Idle EXCEPT !.pc = "due", !.turn = row.turn, !.wait = row.wait,
                               !.rev = row.revision, !.seen = Version, !.ok = row.phase]
  <2>1. Due(row) /\ actor' = [actor EXCEPT ![Sweeper] = x]
    BY Zenon, <1>3 DEF ScanDue
  <2>2. x.pc = "due" /\ x.turn = row.turn /\ x.wait = row.wait
    BY Zenon DEF Idle
  <2> HIDE DEF x
  <2>3. row # NoRow
    BY <2>1 DEF Due, NoRow
  <2>4. /\ Current.running > 0 /\ Current.exec # "none"
        /\ row.turn = Current.running /\ row.wait = Current.wait
    BY Zenon, <2>3 DEF LoopInv, JournalInv, RowMatchesJournal
  <2>5. scenario.mode = "durable" /\ Own(Events, x.wait, x.turn)
    BY Zenon, <2>2, <2>4, LiveWait
  <2>6. x.pc # "commit"
    BY Zenon, <2>2
  <2> QED BY Zenon, <1>1, <1>2, <2>1, <2>5, <2>6, HostTurn
<1>4. CASE SettleDue
  <2> DEFINE me == actor[Sweeper]
             deny == Event("DenyWait", me.turn, me.wait, me.rev, "Deny", "sweep")
             close == Event("WaitClosed", me.turn, me.wait, me.rev, "TimedOut", "sweep")
  <2>1. me.pc = "due"
        /\ (Go(Sweeper, "idle") \/ \E e \in {deny, close} : Prepare(Sweeper, me.seen, e, "idle", "idle"))
    BY Zenon, <1>4 DEF SettleDue, At
  <2>2. scenario.mode = "durable" /\ Own(Events, me.wait, me.turn) /\ DOMAIN me = ActorFields
    BY Zenon, <1>1, <2>1, TurnFacts DEF MemberOK
  <2>3. ASSUME NEW e \in {deny, close}, Prepare(Sweeper, me.seen, e, "idle", "idle") PROVE TurnInv'
    <3> DEFINE x == [me EXCEPT !.pc = "commit", !.wait = e.wait, !.seen = me.seen, !.event = e,
                               !.ok = "idle", !.err = "idle"]
    <3>1. actor' = [actor EXCEPT ![Sweeper] = x]
      BY Zenon, <2>3 DEF Prepare
    <3>2. x.pc = "commit" /\ x.event = e
      BY Zenon, <2>2 DEF ActorFields
    <3>3. e.kind \in {"DenyWait", "WaitClosed"} /\ e.turn = me.turn /\ e.wait = me.wait
      BY DEF Event
    <3> HIDE DEF x
    <3>4. e.wait # 0
      BY Zenon, <2>2, <3>3 DEF Own, WaitsOf
    <3>5. PreparedOK(Events, Version, MAX_WAITS, scenario.mode, inbox, Sweeper, x)
      BY Zenon, <1>1, <2>2, <3>2, <3>3, <3>4 DEF PreparedOK, HostEvent
    <3>6. x.pc # "due"
      BY Zenon, <3>2
    <3> QED BY Zenon, <1>1, <1>2, <3>1, <3>5, <3>6, HostTurn
  <2>4. CASE Go(Sweeper, "idle")
    <3>1. actor' = [actor EXCEPT ![Sweeper] = Idle]
      BY Zenon, <2>4 DEF Go
    <3>2. Idle.pc # "commit" /\ Idle.pc # "due"
      BY Zenon DEF Idle
    <3> QED BY Zenon, <1>1, <1>2, <3>1, <3>2, HostTurn
  <2> QED BY Zenon, <2>1, <2>3, <2>4
<1> QED BY Zenon, <1>3, <1>4

\* What the host prepares is about the wait it has seen, or about none.
LEMMA MaintenanceTurn ==
    ASSUME LoopInv, TurnInv,
           CancelWait \/ RecoverThread \/ AcceptSettled \/ Checkpoint \/ Abandon(Host)
    PROVE  TurnInv'
<1> DEFINE p == Current
<1>1. Host \in DOMAIN actor /\ Host \notin Engine /\ Host # Sweeper
      /\ UNCHANGED <<journal, scenario, entered>>
  <2>1. Host \in DOMAIN actor /\ UNCHANGED <<journal, scenario, entered>>
    BY Zenon DEF CancelWait, RecoverThread, AcceptSettled, Checkpoint, Abandon, LoadThread, At, journalVars
  <2>2. Host \notin Engine /\ Host # Sweeper
    BY Zenon, EngineAssumption DEF Host, Sweeper
  <2> QED BY Zenon, <2>1, <2>2
<1>2. ASSUME SteadyInbox, NEW x, actor' = [actor EXCEPT ![Host] = x], x.pc # "commit" PROVE TurnInv'
  BY Zenon, <1>1, <1>2, HostTurn
<1>3. ASSUME SteadyInbox, Go(Host, "idle") PROVE TurnInv'
  <2>1. actor' = [actor EXCEPT ![Host] = Idle]
    BY Zenon, <1>3 DEF Go
  <2>2. Idle.pc # "commit"
    BY Zenon DEF Idle
  <2> QED BY Zenon, <1>2, <1>3, <2>1, <2>2
<1>4. ASSUME UNCHANGED inbox, NEW x, actor' = [actor EXCEPT ![Host] = x], NEW e, x.event = e,
             e.kind \in HostEvent, e.wait = 0 \/ Own(Events, e.wait, e.turn),
             e.kind \in LifecycleEvent => scenario.mode = "durable" /\ e.wait # 0,
             e.kind = "AcceptResume" =>
                e.what = "Deny" \/ (e.what = "Approve" /\ inbox[e.wait] = "Approve"),
             e.kind = "Checkpoint" => e.turn = 0, x.pc = "commit"
      PROVE  TurnInv'
  <2>1. e.kind \notin {"ToolCall", "ApprovalRequested", "ApprovalDecision"}
    BY Zenon, <1>4 DEF HostEvent
  <2>2. PreparedOK(Events, Version, MAX_WAITS, scenario.mode, inbox, Host, x)
    BY Zenon, <1>1, <1>4, <2>1 DEF PreparedOK
  <2>3. SteadyInbox
    BY Zenon, <1>4, InboxOps
  <2> QED BY Zenon, <1>1, <1>4, <2>2, <2>3, HostTurn
<1>5. CASE CancelWait
  <2> DEFINE e == Event("WaitClosed", p.running, p.wait, p.rev, "Cancelled", "cancel")
             x == [Idle EXCEPT !.pc = "commit", !.turn = p.running, !.wait = p.wait,
                               !.seen = Version, !.event = e, !.ok = "abandon"]
             y(t) == [Idle EXCEPT !.pc = "abandon", !.turn = t]
  <2>1. /\ UNCHANGED inbox
        /\ \/ p.running > 0 /\ Closable(p) /\ actor' = [actor EXCEPT ![Host] = x]
           \/ \E t : actor' = [actor EXCEPT ![Host] = y(t)]
    BY Zenon, <1>5 DEF CancelWait
  <2>2. x.pc = "commit" /\ x.event = e /\ \A t : y(t).pc # "commit"
    BY Zenon DEF Idle
  <2>3. e.kind = "WaitClosed" /\ e.turn = p.running /\ e.wait = p.wait
    BY Zenon DEF Event
  <2> HIDE DEF x, y, e
  <2>4. CASE p.running > 0 /\ Closable(p) /\ actor' = [actor EXCEPT ![Host] = x]
    <3>1. Own(Events, e.wait, e.turn) /\ e.wait # 0 /\ scenario.mode = "durable"
      BY Zenon, <2>3, <2>4, LiveWait DEF Closable
    <3>2. e.kind \in HostEvent /\ e.kind # "AcceptResume" /\ e.kind # "Checkpoint"
      BY Zenon, <2>3 DEF HostEvent
    <3> QED BY Zenon, <1>4, <2>1, <2>2, <2>4, <3>1, <3>2
  <2>5. SteadyInbox
    BY Zenon, <2>1, InboxOps
  <2> QED BY Zenon, <1>2, <2>1, <2>2, <2>4, <2>5
<1>6. CASE RecoverThread
  <2> DEFINE e == Event("TurnFinished", p.running, 0, 0, "Interrupted", "none")
             x == [Idle EXCEPT !.pc = "commit", !.turn = p.running, !.seen = Version,
                               !.ok = "interrupted", !.event = e]
  <2>1. \/ actor' = [actor EXCEPT ![Host] = x] /\ UNCHANGED inbox
        \/ inbox' = orphan_turn_as(actor[Host].turn) /\ Go(Host, "idle")
        \/ inbox' = orphan_turn_as(p.turns) /\ UNCHANGED actor
    BY Zenon, <1>6 DEF RecoverThread
  <2>2. x.pc = "commit" /\ x.event = e
    BY Zenon DEF Idle
  <2>3. e.kind = "TurnFinished" /\ e.wait = 0
    BY Zenon DEF Event
  <2> HIDE DEF x, e
  <2>4. CASE actor' = [actor EXCEPT ![Host] = x] /\ UNCHANGED inbox
    <3>1. e.kind \in HostEvent /\ e.kind \notin LifecycleEvent /\ e.kind # "AcceptResume"
          /\ e.kind # "Checkpoint"
      BY Zenon, <2>3 DEF HostEvent, LifecycleEvent
    <3> QED BY Zenon, <1>4, <2>2, <2>3, <2>4, <3>1
  <2>5. CASE inbox' = orphan_turn_as(actor[Host].turn) /\ Go(Host, "idle")
    BY Zenon, <1>3, <2>5, InboxOps
  <2>6. CASE inbox' = orphan_turn_as(p.turns) /\ UNCHANGED actor
    BY Zenon, <1>1, <2>6, InboxOps, WorldTurn
  <2> QED BY Zenon, <2>1, <2>4, <2>5, <2>6
<1>7. CASE AcceptSettled
  <2> DEFINE e == Event("AcceptResume", p.running, p.wait, p.rev, inbox[p.wait], Host)
             x == [Idle EXCEPT !.pc = "commit", !.turn = p.running, !.wait = p.wait,
                               !.seen = Version, !.event = e]
  <2>1. /\ UNCHANGED inbox /\ p.running > 0 /\ p.exec = "Waiting" /\ Decided(p.wait)
        /\ actor' = [actor EXCEPT ![Host] = x]
    BY Zenon, <1>7 DEF AcceptSettled
  <2>2. x.pc = "commit" /\ x.event = e
    BY Zenon DEF Idle
  <2>3. e.kind = "AcceptResume" /\ e.turn = p.running /\ e.wait = p.wait /\ e.what = inbox[p.wait]
    BY Zenon DEF Event
  <2> HIDE DEF x, e
  <2>4. Own(Events, e.wait, e.turn) /\ e.wait # 0 /\ scenario.mode = "durable"
    BY Zenon, <2>1, <2>3, LiveWait
  <2>5. e.kind \in HostEvent /\ e.kind # "Checkpoint"
    BY Zenon, <2>3 DEF HostEvent
  <2>6. e.what = "Deny" \/ (e.what = "Approve" /\ inbox[e.wait] = "Approve")
    BY Zenon, <2>1, <2>3 DEF Decided
  <2> QED BY Zenon, <1>4, <2>1, <2>2, <2>4, <2>5, <2>6
<1>8. CASE Checkpoint
  <2> DEFINE e == Event("Checkpoint", 0, 0, 0, "none", "none")
             x == [Idle EXCEPT !.pc = "commit", !.seen = require_stream_head(Home).version,
                               !.event = e]
  <2>1. UNCHANGED inbox /\ actor' = [actor EXCEPT ![Host] = x]
    BY Zenon, <1>8 DEF Checkpoint
  <2>2. x.pc = "commit" /\ x.event = e
    BY Zenon DEF Idle
  <2>3. e.kind = "Checkpoint" /\ e.wait = 0 /\ e.turn = 0
    BY Zenon DEF Event
  <2> HIDE DEF x, e
  <2>4. e.kind \in HostEvent /\ e.kind \notin LifecycleEvent /\ e.kind # "AcceptResume"
    BY Zenon, <2>3 DEF HostEvent, LifecycleEvent
  <2> QED BY Zenon, <1>4, <2>1, <2>2, <2>3, <2>4
<1>9. CASE Abandon(Host)
  <2>1. Go(Host, "idle") /\ SteadyInbox
    BY Zenon, <1>9, InboxOps DEF Abandon
  <2> QED BY Zenon, <1>3, <2>1
<1> QED BY Zenon, <1>5, <1>6, <1>7, <1>8, <1>9
=============================================================================
