-------------------------- MODULE AgentTurnProofs ---------------------------
(***************************************************************************)
(* Proofs about who executes a Turn of AgentLoop and what a Tool is entered *)
(* on, for any number of processes, Turns, waits and crashes: a Turn has one *)
(* executor, and a Tool that needs an Approval is entered once, with it.   *)
(***************************************************************************)
EXTENDS AgentLoopProofs, AgentStepProofs

\* An append keeps TurnInv.
LEMMA AppendTurn ==
    ASSUME LoopInv, TurnInv, NEW a \in DOMAIN actor, actor[a].pc = "commit",
           DOMAIN actor' = DOMAIN actor, \A b \in DOMAIN actor \ {a} : actor'[b] = actor[b],
           Continues(actor[a], actor'[a]), UNCHANGED <<scenario, inbox, entered>>,
           actor[a].seen = Version, Fits(Current, actor[a].event), Replays(Current, actor[a].event),
           journal' = Append(journal, [event |-> actor[a].event,
                                       after |-> apply_events(Current, actor[a].event)]),
           a \notin Engine => actor'[a].pc # "commit" /\ (a = Sweeper => actor'[a].pc # "due")
    PROVE  TurnInv'
<1> DEFINE x == actor[a]
           e == x.event
           E == Events
           p == Current
           v == Version
           most == MAX_WAITS
           mode == scenario.mode
           q == apply_events(p, e)
<1>1. /\ most \in Nat /\ Wait = 1..most /\ v \in Nat
      /\ ProjectionOK(p) /\ EventsOK(E, p, mode) /\ ExecutionOK(E, p, inbox) /\ PairsOK(E, p, actor)
      /\ \E c \in 0..most : WaitsOf(E) = 1..c
      /\ \A k \in 1..most : entered[k] \in Nat /\ OnceApproved(E, inbox, entered, k)
      /\ \A b \in DOMAIN actor :
            /\ MemberOK(E, p, v, most, mode, inbox, entered, b, actor[b])
            /\ actor[b].pc = "commit" => actor[b].seen \in 0..v
            /\ b \in Engine /\ actor[b].pc # "idle" => actor[b].turn \in Nat /\ actor[b].turn > 0
  BY Zenon, TurnFacts
<1>2. Appends(E, p, v, most, mode, inbox, entered, a, x)
  BY Zenon, <1>1 DEF Appends
<1>3. Events' = E \cup {e} /\ Version' = v + 1 /\ Current' = q
  BY Zenon, EventsGrow, AppendGrows DEF LoopInv
<1>4. MAX_WAITS' = most /\ Wait' = Wait /\ scenario'.mode = mode /\ inbox' = inbox /\ entered' = entered
  BY Zenon DEF MAX_WAITS, Wait
<1>c. actor[a] = x /\ Continues(x, actor'[a])
  BY Zenon
<1>5. EventsOK(E \cup {e}, q, mode) /\ ExecutionOK(E \cup {e}, q, inbox)
  BY Zenon, <1>2, EventsKept, ExecutionKept
<1>f. q = apply_events(p, x.event) /\ e = x.event
  BY Zenon
<1> HIDE DEF x, e, E, p, v, most, mode, q
<1>d. (\E c \in 0..most : WaitsOf(E \cup {e}) = 1..c) /\ WaitsOf(E) \subseteq 1..most
  <2>1. \E c \in 0..most : WaitsOf(E) = 1..c
    BY Zenon, <1>1
  <2>2. (\E c \in 0..most : WaitsOf(E \cup {x.event}) = 1..c) /\ WaitsOf(E) \subseteq 1..most
    BY Zenon, <1>2, <2>1, WaitsNumbered
  <2> QED BY Zenon, <1>f, <2>2
<1>6. \A b \in Engine \cap DOMAIN actor :
          /\ PlacedOK(E, p, mode, inbox, entered, actor[b])
          /\ actor[b].pc # "idle" => actor[b].turn \in Nat /\ actor[b].turn > 0
  BY Zenon, <1>1 DEF MemberOK
<1>7. PairsOK(E \cup {e}, q, actor')
  BY Zenon, <1>1, <1>2, <1>6, <1>c, <1>f, PairsKept
<1>8. ASSUME NEW b \in DOMAIN actor, b # a
      PROVE  MemberOK(E \cup {e}, q, v + 1, most, mode, inbox, entered, b, actor'[b])
  <2> DEFINE y == actor[b]
  <2>1. actor'[b] = y /\ MemberOK(E, p, v, most, mode, inbox, entered, b, y)
    BY Zenon, <1>1, <1>8
  <2>2. y.pc = "commit" => PreparedOK(E \cup {e}, v + 1, most, mode, inbox, b, y)
    BY Zenon, <1>1, <1>2, <1>8, <1>f, <2>1, PreparedKept DEF MemberOK
  <2>3. ASSUME b \in Engine PROVE PlacedOK(E \cup {e}, q, mode, inbox, entered, y)
    <3>1. PlacedOK(E, p, mode, inbox, entered, y) /\ (y.pc # "idle" => y.turn \in Nat /\ y.turn > 0)
      BY Zenon, <1>6, <2>3
    <3>2. a \in Engine /\ Holds(E, x) /\ Holds(E, y) /\ x.turn = p.running => y.turn # p.running
      BY Zenon, <1>1, <1>8, <1>c, <2>3 DEF PairsOK
    <3> HIDE DEF y
    <3> QED BY Zenon, <1>2, <1>f, <3>1, <3>2, PlacedKept
  <2>4. b = Sweeper /\ y.pc = "due" => mode = "durable" /\ Own(E \cup {e}, y.wait, y.turn)
    <3>1. e.wait \notin WaitsOf(E) \/ Own(E, e.wait, e.turn)
      BY Zenon, <1>2, <1>f, AppendedEvent DEF Known
    <3> QED BY Zenon, <2>1, <3>1, OwnKept DEF MemberOK
  <2> HIDE DEF y
  <2> QED BY Zenon, <2>1, <2>2, <2>3, <2>4 DEF MemberOK
<1>9. MemberOK(E \cup {e}, q, v + 1, most, mode, inbox, entered, a, actor'[a])
  <2>1. CASE a \in Engine
    <3>1. actor'[a].pc # "commit" /\ PlacedOK(E \cup {e}, q, mode, inbox, entered, actor'[a])
      BY Zenon, <1>1, <1>2, <1>c, <1>d, <1>f, <2>1, ContinuerPlaced
    <3>2. a # Sweeper
      BY Zenon, <2>1, EngineAssumption DEF Sweeper
    <3> QED BY Zenon, <3>1, <3>2 DEF MemberOK
  <2>2. CASE a \notin Engine
    BY Zenon, <2>2 DEF MemberOK
  <2> QED BY Zenon, <2>1, <2>2
<1>10. ASSUME NEW k \in 1..most PROVE OnceApproved(E \cup {e}, inbox, entered, k)
  <2>1. OnceApproved(E, inbox, entered, k)
    BY Zenon, <1>1
  <2>2. e.kind \in {"WaitClosed", "DenyWait"} => ~Seen(E, {"ClaimReady", "ApprovalDecision"}, e.wait)
    BY Zenon, <1>2, <1>f, ClosedUnclaimed
  <2>3. /\ Seen(E, {"ClaimReady", "ApprovalDecision"}, k)
              => Seen(E \cup {e}, {"ClaimReady", "ApprovalDecision"}, k)
        /\ Seen(E \cup {e}, {"WaitClosed", "DenyWait"}, k)
              => \/ Seen(E, {"WaitClosed", "DenyWait"}, k)
                 \/ e.kind \in {"WaitClosed", "DenyWait"} /\ e.wait = k
    BY Zenon, SeenGrows
  <2> QED BY Zenon, <2>1, <2>2, <2>3 DEF OnceApproved
<1>11. \A b \in DOMAIN actor' :
          MemberOK(Events', Current', Version', MAX_WAITS', scenario'.mode, inbox', entered', b, actor'[b])
  BY Zenon, <1>3, <1>4, <1>8, <1>9
<1>12. /\ scenario'.waits \in Nat
       /\ inbox' = [k \in Wait' |-> inbox'[k]]
       /\ entered' = [k \in Wait' |-> entered'[k]] /\ \A k \in Wait' : entered'[k] \in Nat
  BY Zenon, <1>4 DEF TurnInv
<1> QED BY Zenon, <1>1, <1>3, <1>4, <1>5, <1>7, <1>10, <1>11, <1>12, <1>d DEF TurnInv

\* Where a worker goes when its event was not appended by this attempt, or was by an
\* earlier one.
LEMMA UnappendedPlace ==
    ASSUME NEW E, NEW v, NEW most, NEW mode, NEW box, NEW n \in Engine, NEW x, NEW pc,
           PreparedOK(E, v, most, mode, box, n, x), x.pc = "commit",
           \/ pc = x.err
           \/ /\ pc = x.ok /\ x.event \in E
              /\ x.event.kind \in LifecycleEvent \cup {"TurnCompleted"}
    PROVE  /\ pc \in {"idle", "finish", "erring", "submit", "unstarted", "claim", "abandon"}
           /\ pc \in {"finish", "erring", "unstarted"} => Holds(E, x)
           /\ pc \in {"submit", "unstarted", "claim"} => Own(E, x.wait, x.turn)
           /\ pc # "idle" => ~Preparing(x, {"TurnStarted"})
<1> DEFINE e == x.event
<1>1. ShapeOK(E, box, n, x) /\ e.turn = x.turn /\ e.wait = x.wait
      /\ (e.kind \in LifecycleEvent => Own(E, x.wait, x.turn))
  BY Zenon DEF PreparedOK, LifecycleEvent
<1>2. CASE e.kind = "TurnStarted"
  <2>1. pc = "idle"
    BY Zenon, <1>1, <1>2 DEF ShapeOK, LifecycleEvent
  <2> QED BY Zenon, <2>1
<1>3. CASE e.kind \in ItemEvent
  <2>1. pc = "finish"
    BY Zenon, <1>1, <1>3 DEF ShapeOK, LifecycleEvent, ItemEvent
  <2> QED BY Zenon, <1>3, <2>1 DEF Holds, Preparing, ItemEvent
<1>4. CASE e.kind = "TurnCompleted"
  <2>1. pc \in {"idle", "erring"}
    BY Zenon, <1>1, <1>4 DEF ShapeOK
  <2> QED BY Zenon, <1>4, <2>1 DEF Holds, Preparing
<1>5. CASE e.kind = "TurnFinished"
  <2>1. pc = "idle"
    BY Zenon, <1>1, <1>5 DEF ShapeOK
  <2> QED BY Zenon, <2>1
<1>6. CASE e.kind = "WaitStarted"
  <2>1. pc \in {"submit", "unstarted"}
    BY Zenon, <1>1, <1>6 DEF ShapeOK
  <2> QED BY Zenon, <1>1, <1>6, <2>1 DEF Holds, Preparing, LifecycleEvent
<1>7. CASE e.kind = "AcceptResume"
  <2>1. pc \in {"idle", "claim"}
    BY Zenon, <1>1, <1>7 DEF ShapeOK
  <2> QED BY Zenon, <1>1, <1>7, <2>1 DEF Preparing, LifecycleEvent
<1>8. CASE e.kind = "ClaimReady"
  <2>1. pc = "idle"
    BY Zenon, <1>1, <1>8 DEF ShapeOK
  <2> QED BY Zenon, <2>1
<1>9. CASE e.kind \in {"WaitClosed", "DenyWait"}
  <2>1. pc \in {"idle", "abandon"}
    BY Zenon, <1>1, <1>9 DEF ShapeOK
  <2> QED BY Zenon, <1>9, <2>1 DEF Preparing
<1> QED BY <1>1, <1>2, <1>3, <1>4, <1>5, <1>6, <1>7, <1>8, <1>9 DEF ShapeOK, ItemEvent

\* What a commit does to the actors, and when it moves the stream.
LEMMA CommitOutcome ==
    ASSUME LoopInv, NEW a \in Actor, Commit(a)
    PROVE  /\ a \in DOMAIN actor /\ actor[a].pc = "commit"
           /\ DOMAIN actor' = DOMAIN actor /\ \A b \in DOMAIN actor \ {a} : actor'[b] = actor[b]
           /\ Continues(actor[a], actor'[a])
           /\ UNCHANGED <<scenario, inbox, entered>>
           /\ \/ /\ UNCHANGED journal
                 /\ actor'[a].pc = actor[a].err
                    \/ (actor'[a].pc = actor[a].ok /\ Recorded(actor[a].event))
              \/ /\ actor[a].seen = Version /\ Fits(Current, actor[a].event)
                 /\ Replays(Current, actor[a].event)
                 /\ journal' = Append(journal, [event |-> actor[a].event,
                                                after |-> apply_events(Current, actor[a].event)])
<1> DEFINE me == actor[a]
           e == me.event
           v == me.seen
           d == Disposition(v, e)
<1>1. a \in DOMAIN actor /\ me.pc = "commit" /\ UNCHANGED <<scenario, inbox, entered>>
  BY Zenon DEF Commit, At
<1>2. PICK how \in Answer :
        /\ commit_pending(EngineOf(a), v, e, how)
        /\ LET ok == CommitOk(v, e, how)
               next == IF ok THEN me.ok ELSE me.err
           IN  actor' = [actor EXCEPT ![a] =
                  IF next = "idle" THEN Idle
                  ELSE [me EXCEPT !.pc = next, !.event = NoEvent, !.seen = 0,
                                 !.ok = "idle", !.err = "idle",
                                 !.rev = IF ok /\ me.event.kind = "AcceptResume"
                                         THEN me.event.rev + 1 ELSE me.rev]]
  BY Zenon DEF Commit
<1> DEFINE ok == CommitOk(v, e, how)
           next == IF ok THEN me.ok ELSE me.err
           x == [me EXCEPT !.pc = next, !.event = NoEvent, !.seen = 0, !.ok = "idle",
                           !.err = "idle",
                           !.rev = IF ok /\ me.event.kind = "AcceptResume"
                                   THEN me.event.rev + 1 ELSE me.rev]
<1>3. next = (IF ok THEN me.ok ELSE me.err) /\ next \in {me.ok, me.err}
  BY Zenon
<1>4. actor' = [actor EXCEPT ![a] = IF next = "idle" THEN Idle ELSE x]
  BY <1>2, Zenon
<1>5. x.pc = next /\ x.turn = me.turn /\ x.wait = me.wait
  BY Zenon, <1>1 DEF LoopInv, ActorsInv, ActorOK, ActorFields
<1>6. Idle.pc = "idle"
  BY Zenon DEF Idle
<1>7. append_with_disposition(d, e)
  BY Zenon, <1>2 DEF commit_pending
<1>8. ok /\ d # "Applied" => Recorded(e)
  <2>1. ok /\ d # "Applied" => d = "Duplicate"
    BY Zenon DEF CommitOk
  <2> QED BY Zenon, <2>1 DEF Disposition
<1> HIDE DEF ok, next, x
<1>9. /\ DOMAIN actor' = DOMAIN actor
      /\ \A b \in DOMAIN actor \ {a} : actor'[b] = actor[b]
      /\ actor'[a] = IF next = "idle" THEN Idle ELSE x
  BY Zenon, <1>1, <1>4 DEF LoopInv, ActorsInv
<1>10. Continues(me, actor'[a]) /\ actor'[a].pc = next
  BY Zenon, <1>3, <1>5, <1>6, <1>9 DEF Continues
<1> HIDE DEF d
<1>11. CASE d # "Applied"
  <2>1. UNCHANGED journal
    BY Zenon, <1>7, <1>11 DEF append_with_disposition
  <2> QED BY Zenon, <1>1, <1>3, <1>8, <1>9, <1>10, <1>11, <2>1
<1>12. CASE d = "Applied"
  <2>1. v = Version /\ ChangeAccepted(row, e)
    BY Zenon, <1>12 DEF d, Disposition
  <2>2. Fits(Current, e)
    BY Zenon, <1>1, <2>1 DEF LoopInv, ActorsInv, ActorOK
  <2>3. Replays(Current, e)
    BY Zenon, <2>1, <2>2, RowAcceptsOnlyReplayable DEF LoopInv
  <2>4. journal' = Append(journal, [event |-> e, after |-> apply_events(Current, e)])
    BY Zenon, <1>7, <1>12 DEF append_with_disposition
  <2> QED BY Zenon, <1>1, <1>9, <1>10, <2>1, <2>2, <2>3, <2>4
<1> QED BY Zenon, <1>11, <1>12

\* An append, and an attempt at one that fails, is refused or repeats an earlier one.
LEMMA CommitTurn ==
    ASSUME LoopInv, TurnInv, NEW a \in Actor, Commit(a)
    PROVE  TurnInv'
<1> DEFINE x == actor[a]
           y == actor'[a]
           e == x.event
<1>1. /\ a \in DOMAIN actor /\ x.pc = "commit"
      /\ DOMAIN actor' = DOMAIN actor /\ \A b \in DOMAIN actor \ {a} : actor'[b] = actor[b]
      /\ Continues(x, y) /\ UNCHANGED <<scenario, inbox, entered>>
      /\ \/ UNCHANGED journal /\ (y.pc = x.err \/ (y.pc = x.ok /\ Recorded(e)))
         \/ /\ x.seen = Version /\ Fits(Current, e) /\ Replays(Current, e)
            /\ journal' = Append(journal, [event |-> e, after |-> apply_events(Current, e)])
  BY Zenon, CommitOutcome
<1>2. ActorOK(a, x) /\ MemberOK(Events, Current, Version, MAX_WAITS, scenario.mode, inbox, entered, a, x)
  BY Zenon, <1>1, TurnFacts DEF LoopInv, ActorsInv
<1>3. a \notin Engine => y.pc # "commit" /\ (a = Sweeper => y.pc # "due")
  BY Zenon, <1>1, <1>2 DEF ActorOK, Continues
<1>4. CASE /\ x.seen = Version /\ Fits(Current, e) /\ Replays(Current, e)
           /\ journal' = Append(journal, [event |-> e, after |-> apply_events(Current, e)])
  BY Zenon, <1>1, <1>3, <1>4, AppendTurn
<1>5. CASE UNCHANGED journal /\ (y.pc = x.err \/ (y.pc = x.ok /\ Recorded(e)))
  <2>1. SteadyInbox
    BY Zenon, <1>1, InboxOps
  <2>2. actor' = [actor EXCEPT ![a] = y]
    <3>1. \E z : actor' = [actor EXCEPT ![a] = z]
      BY Zenon DEF Commit
    <3>2. PICK z : actor' = [actor EXCEPT ![a] = z]
      BY Zenon, <3>1
    <3>3. y = z
      BY Zenon, <1>1, <3>2
    <3> QED BY Zenon, <3>2, <3>3
  <2>3. CASE a \notin Engine
    BY Zenon, <1>1, <1>3, <1>5, <2>1, <2>2, <2>3, HostTurn
  <2>4. CASE a \in Engine
    <3>1. /\ PreparedOK(Events, Version, MAX_WAITS, scenario.mode, inbox, a, x)
          /\ PlacedOK(Events, Current, scenario.mode, inbox, entered, x)
      BY Zenon, <1>1, <1>2, <2>4 DEF MemberOK
    <3>2. \/ y.pc = x.err
          \/ /\ y.pc = x.ok /\ x.event \in Events
             /\ x.event.kind \in LifecycleEvent \cup {"TurnCompleted"}
      BY Zenon, <1>5 DEF Recorded, Events, Version
    <3>3. /\ y.pc \in {"idle", "finish", "erring", "submit", "unstarted", "claim", "abandon"}
          /\ y.pc \in {"finish", "erring", "unstarted"} => Holds(Events, x)
          /\ y.pc \in {"submit", "unstarted", "claim"} => Own(Events, x.wait, x.turn)
          /\ y.pc # "idle" => ~Preparing(x, {"TurnStarted"})
      <4>1. x.pc = "commit"
        BY Zenon, <1>1
      <4> HIDE DEF x, y
      <4> QED BY Zenon, <2>4, <3>1, <3>2, <4>1, UnappendedPlace
    <3>4. y.pc # "idle" => y.turn = x.turn /\ y.wait = x.wait /\ x.turn <= Current.turns
      BY Zenon, <1>1, <3>1, <3>3 DEF Continues, PlacedOK
    <3> HIDE DEF y
    <3>5. ~Undecided(y) /\ y.pc \notin {"commit", "tool", "accept", "evidence"}
          /\ y.pc \notin {"decide", "poll", "tombstone", "decision"}
          /\ (Holds(Events, y) => y.pc \in {"finish", "erring", "unstarted"})
      BY Zenon, <3>3 DEF Undecided, Preparing, Holds, Carrying
    <3>6. PlacedOK(Events, Current, scenario.mode, inbox, entered, y)
      <4>1. y.pc \in {"submit", "resubmit", "read", "evidence", "accept", "claim", "close", "deny",
                      "tool", "result", "unstarted"} => y.pc \in {"submit", "unstarted", "claim"}
        BY Zenon, <3>3
      <4>2. y.pc \in {"submit", "unstarted", "claim"} => Own(Events, y.wait, y.turn)
        BY Zenon, <3>3, <3>4
      <4> QED BY Zenon, <3>4, <3>5, <4>1, <4>2 DEF PlacedOK
    <3>7. MemberOK(Events, Current, Version, MAX_WAITS, scenario.mode, inbox, entered, a, y)
      <4>1. a # Sweeper
        BY Zenon, <2>4, EngineAssumption DEF Sweeper
      <4> QED BY Zenon, <3>5, <3>6, <4>1 DEF MemberOK
    <3>8. Holds(Events, y) /\ y.turn = Current.running => Holds(Events, x) /\ x.turn = Current.running
      BY Zenon, <3>3, <3>4, <3>5
    <3>9. y.pc # "tool"
      BY Zenon, <3>5
    <3> QED BY Zenon, <1>1, <1>5, <2>1, <2>2, <3>7, <3>8, <3>9, QuietTurn
  <2> QED BY Zenon, <2>3, <2>4
<1> QED BY Zenon, <1>1, <1>4, <1>5

\* TurnInv holds before anything was appended.
LEMMA TurnInit == Init => TurnInv
<1> SUFFICES ASSUME Init PROVE TurnInv
  BY Zenon
<1>1. Version = 0 /\ Current = NewThread
  BY Zenon DEF Init, JournalInit, Version, Current, After
<1>2. Events = {}
  BY <1>1 DEF Events
<1>3. scenario.waits \in Nat /\ MAX_WAITS = scenario.waits
  BY Zenon, ScenarioAssumption DEF Init, MAX_WAITS
<1>4. WaitsOf(Events) = 1..0 /\ 0 \in 0..MAX_WAITS
  BY <1>2, <1>3 DEF WaitsOf
<1>5. /\ inbox = [k \in Wait |-> inbox[k]]
      /\ entered = [k \in Wait |-> entered[k]] /\ \A k \in Wait : entered[k] = 0
  BY Zenon DEF Init
<1>6. ExecutionOK(Events, Current, inbox) /\ EventsOK(Events, Current, scenario.mode)
  BY <1>1, <1>2 DEF ExecutionOK, EventsOK, NewThread
<1>7. \A a \in DOMAIN actor : actor[a] = Idle
  BY Zenon DEF Init
<1>8. /\ \A a \in DOMAIN actor : MemberOK(Events, Current, Version, MAX_WAITS, scenario.mode, inbox,
                                          entered, a, actor[a])
      /\ \A a \in DOMAIN actor : ~Holds(Events, actor[a]) /\ actor[a].pc # "tool"
  BY Zenon, <1>7, IdleMember
<1>9. PairsOK(Events, Current, actor)
  BY Zenon, <1>8 DEF PairsOK
<1>10. \A k \in Wait : entered[k] \in Nat /\ OnceApproved(Events, inbox, entered, k)
  BY <1>5 DEF OnceApproved
<1> QED BY Zenon, <1>3, <1>4, <1>5, <1>6, <1>8, <1>9, <1>10 DEF TurnInv

\* Every step keeps TurnInv.
LEMMA TurnStep == LoopInv /\ TurnInv /\ [Next]_vars => TurnInv'
<1> SUFFICES ASSUME LoopInv, TurnInv, [Next]_vars PROVE TurnInv'
  BY Zenon
<1>1. ASSUME NEW n \in Engine, Worker(n) PROVE TurnInv'
  BY Zenon, <1>1, EntryTurn, AgentTurn, ItemTurn, CheckedTurn, UnstartedTurn, MoveTurn, ToolTurn,
     ResumeApprovalTurn, CrashTurn DEF Worker
<1>2. ASSUME NEW a \in Actor, Commit(a) PROVE TurnInv'
  BY Zenon, <1>2, CommitTurn
<1>3. ASSUME NEW a \in Engine \cup {Host}, Abandon(a) PROVE TurnInv'
  BY Zenon, <1>3, MoveTurn, MaintenanceTurn
<1>4. CASE ScanDue \/ SettleDue
  BY Zenon, <1>4, SweepTurn
<1>5. CASE CancelWait \/ RecoverThread \/ AcceptSettled \/ Checkpoint
  BY Zenon, <1>5, MaintenanceTurn
<1>6. ASSUME NEW k \in Wait, settle_as(k) PROVE TurnInv'
  BY Zenon, <1>6, InboxOps, WorldTurn DEF settle_as, journalVars
<1>7. CASE Expire
  BY Zenon, <1>7, InboxOps, WorldTurn DEF Expire, journalVars
<1>8. CASE UNCHANGED vars
  BY Zenon, <1>8, InboxOps, WorldTurn DEF vars, journalVars
<1> QED BY Zenon, <1>1, <1>2, <1>3, <1>4, <1>5, <1>6, <1>7, <1>8 DEF Next

\* TurnInv holds throughout.
LEMMA TurnInvAlways == Spec => []TurnInv
  BY TurnInit, TurnStep, LoopInvAlways, PTL DEF Spec

\* However many processes run, resume, crash and lose answers, no two of them carry on or
\* end the running Turn: claim_ready_as is won by one worker, the one whose wait was
\* committed has let go of the Turn (authorize_tool_call_until_wait), and
\* resume_approval_turn_with_options is called when none is left.
THEOREM SoleExecutorAlways == Spec => []SoleExecutor
<1>1. TurnInv => SoleExecutor
  <2> SUFFICES ASSUME TurnInv PROVE SoleExecutor
    BY Zenon
  <2>1. PairsOK(Events, Current, actor)
    BY Zenon DEF TurnInv
  <2>2. \A n : Executes(n) => Holds(Events, actor[n])
    BY Zenon DEF Executes, Holds, Carrying, Preparing, At
  <2> QED BY Zenon, <2>1, <2>2 DEF SoleExecutor, PairsOK
<1> QED BY <1>1, TurnInvAlways, PTL

\* Whoever resumes, crashes or sweeps, execute_tool_call enters the Tool of a wait at most
\* once, after the Inbox settled it Approve and the claim or the decision was journalled,
\* and never when the wait was closed or denied.
THEOREM ToolOnceApprovedAlways == Spec => []ToolOnceApproved
<1>1. TurnInv => ToolOnceApproved
  <2> SUFFICES ASSUME TurnInv, NEW k \in Wait, entered[k] > 0
               PROVE  /\ entered[k] = 1 /\ inbox[k] = "Approve"
                      /\ Journalled({"ClaimReady", "ApprovalDecision"}, k)
                      /\ ~Journalled({"WaitClosed", "DenyWait"}, k)
    BY Zenon DEF ToolOnceApproved
  <2>1. OnceApproved(Events, inbox, entered, k)
    BY Zenon DEF TurnInv
  <2>2. \A kinds : Journalled(kinds, k) <=> Seen(Events, kinds, k)
    BY Zenon DEF Journalled, Seen, Events
  <2> QED BY Zenon, <2>1, <2>2 DEF OnceApproved
<1> QED BY <1>1, TurnInvAlways, PTL
=============================================================================
