-------------------------- MODULE AgentLoopProofs ---------------------------
(***************************************************************************)
(* Proofs about the journal under AgentLoop, for any number of processes,  *)
(* Turns, waits, Checkpoints and crashes, and whoever takes part: every    *)
(* stream replays, the live wait row agrees with it, and cached heads are  *)
(* heads the stream has had.                                               *)
(***************************************************************************)
EXTENDS AgentInvariants, TLAPS

\* The two checks agree: an event that fits and that projection_change accepts over the
\* row is one that apply_events accepts after the journal.
LEMMA RowAcceptsOnlyReplayable ==
    ASSUME JournalInv, NEW e, Fits(Current, e), ChangeAccepted(row, e)
    PROVE  Replays(Current, e)
<1> DEFINE p == Current
<1>1. /\ p.running \in Nat
      /\ row = NoRow \/ (/\ p.running > 0 /\ p.exec \in {"Waiting", "Ready"}
                         /\ row.turn = p.running /\ row.wait = p.wait /\ row.revision = p.rev
                         /\ row.phase = CASE p.exec = "Waiting" -> "Waiting"
                                          [] p.decision = "Deny" -> "ReadyDeny"
                                          [] OTHER -> "ReadyAllow")
      /\ row = NoRow => ~ (p.running > 0 /\ p.exec \in {"Waiting", "Ready"})
  BY DEF JournalInv, ProjectionOK, RowMatchesJournal, NoRow
<1>2. Fits(p, e)
  BY Zenon
<1> HIDE DEF p
<1>3. NoRow.phase = "none" /\ NoRow.turn = 0
  BY Zenon DEF NoRow
<1>4. CASE e.kind \in {"AcceptResume", "ClaimReady", "WaitClosed", "DenyWait"}
  <2>1. require_current(row, e) /\ row # NoRow
    BY Zenon, <1>3, <1>4 DEF ChangeAccepted, require_current
  <2>2. AtRevision(p, e)
    BY Zenon, <1>1, <2>1 DEF require_current, AtRevision
  <2> QED BY Zenon, <1>1, <1>4, <2>1, <2>2 DEF ChangeAccepted, Replays, ItemEvent, p
<1>5. CASE e.kind \in {"TurnFinished", "TurnCompleted"}
  <2>1. row.turn # e.turn /\ p.running = e.turn
    BY Zenon, <1>2, <1>5 DEF ChangeAccepted, Fits
  <2>2. row = NoRow => e.turn # 0
    BY Zenon, <1>3, <2>1
  <2>3. p.exec \notin {"Waiting", "Ready"}
    BY <1>1, <2>1, <2>2
  <2> QED BY Zenon, <1>5, <2>1, <2>3 DEF Replays, ItemEvent, p
<1>6. CASE e.kind = "TurnStarted"
  BY <1>2, <1>6 DEF Fits, Replays, p
<1>7. CASE e.kind \in ItemEvent
  BY Zenon, <1>2, <1>7 DEF Fits, Replays, ItemEvent, p
<1>8. CASE e.kind = "WaitStarted"
  BY Zenon, <1>2, <1>8 DEF Fits, Replays, ItemEvent, p
<1> QED BY Zenon, <1>4, <1>5, <1>6, <1>7, <1>8 DEF Replays

\* The invariant holds before anything was appended.
LEMMA LoopInit == Init => LoopInv
<1> SUFFICES ASSUME Init PROVE LoopInv
  BY Zenon
<1>1. journal = << >> /\ Version = 0 /\ Current = NewThread
  BY Zenon DEF Init, JournalInit, Version, Current, After
<1>2. JournalInv
  BY <1>1 DEF Init, JournalInit, JournalInv, ProjectionOK, ProjectionFields, RowFields, NoRow,
        RowMatchesJournal, NewThread
<1>3. HeadsInv /\ SweptTurns
  BY <1>1 DEF Init, JournalInit, HeadsInv, SweptTurns
<1>4. ActorsInv
  BY Zenon, <1>1 DEF Init, ActorsInv, ActorOK, ActorFields, Idle
<1> QED BY Zenon, <1>2, <1>3, <1>4 DEF LoopInv

(***************************************************************************)
(* Steps that append nothing.                                              *)
(***************************************************************************)
LEMMA SameJournal ==
    ASSUME UNCHANGED <<journal, row>>, JournalInv, SweptTurns
    PROVE  JournalInv' /\ SweptTurns' /\ Version' = Version /\ Current' = Current
<1>1. Version' = Version /\ Current' = Current
  BY Zenon DEF Version, Current, After
<1> QED BY Zenon, <1>1 DEF JournalInv, RowMatchesJournal, SweptTurns

\* A stream has a length.
LEMMA VersionNatural == JournalInv => Version \in Nat
  BY DEF JournalInv, Version

\* A step that appends nothing and leaves one actor in an allowed state.
LEMMA ActorMoves ==
    ASSUME ActorsInv, UNCHANGED journal, NEW a \in DOMAIN actor, NEW x, ActorOK(a, x),
           actor' = [actor EXCEPT ![a] = x]
    PROVE  ActorsInv'
<1>1. Version' = Version /\ Current' = Current
  BY Zenon DEF Version, Current, After
<1>2. DOMAIN actor' = DOMAIN actor /\ actor' = [b \in DOMAIN actor' |-> actor'[b]]
  BY Zenon DEF ActorsInv
<1>3. ASSUME NEW b \in DOMAIN actor PROVE ActorOK(b, actor'[b])
  BY Zenon DEF ActorsInv
<1>4. ASSUME NEW b \in DOMAIN actor PROVE ActorOK(b, actor[b])'
  BY Zenon, <1>1, <1>3 DEF ActorOK
<1> QED BY Zenon, <1>2, <1>3, <1>4 DEF ActorsInv

\* Any actor may be idle.
LEMMA IdleOK == \A a : ActorOK(a, Idle)
  BY Zenon DEF ActorOK, Idle, ActorFields

\* An actor other than the sweep goes on without preparing an event.
LEMMA GoMoves ==
    ASSUME ActorsInv, UNCHANGED journal, NEW a \in DOMAIN actor, a # Sweeper,
           actor[a].pc # "idle", NEW pc, pc # "commit", Go(a, pc)
    PROVE  ActorsInv'
<1> DEFINE x == IF pc = "idle" THEN Idle ELSE [actor[a] EXCEPT !.pc = pc]
<1>1. actor' = [actor EXCEPT ![a] = x]
  BY Zenon DEF Go
<1>2. ActorOK(a, [actor[a] EXCEPT !.pc = pc])
  BY Zenon DEF ActorsInv, ActorOK, ActorFields
<1>3. ActorOK(a, x)
  BY Zenon, <1>2, IdleOK
<1> HIDE DEF x
<1> QED BY Zenon, <1>1, <1>3, ActorMoves

\* An actor other than the sweep prepares an event that fits the version it gives.
LEMMA PrepareMoves ==
    ASSUME ActorsInv, UNCHANGED journal, NEW a \in DOMAIN actor, a # Sweeper,
           actor[a].pc # "idle", NEW v \in 0..Version, NEW e, v = Version => Fits(Current, e), e.by # "sweep",
           NEW ok, NEW err, ok # "commit", err # "commit", Prepare(a, v, e, ok, err)
    PROVE  ActorsInv'
<1> DEFINE x == [actor[a] EXCEPT !.pc = "commit", !.wait = e.wait, !.seen = v, !.event = e,
                                 !.ok = ok, !.err = err]
<1>1. actor' = [actor EXCEPT ![a] = x]
  BY Zenon DEF Prepare
<1>2. DOMAIN actor[a] = ActorFields /\ (a \in Engine => actor[a].turn \in Nat /\ actor[a].turn > 0)
  BY Zenon DEF ActorsInv, ActorOK
<1>3. DOMAIN x = ActorFields /\ x.pc = "commit" /\ x.seen = v /\ x.event = e
      /\ x.ok = ok /\ x.err = err /\ x.turn = actor[a].turn
  BY Zenon, <1>2 DEF ActorFields
<1> HIDE DEF x
<1>4. ActorOK(a, x)
  BY Zenon, <1>2, <1>3 DEF ActorOK
<1> QED BY Zenon, <1>1, <1>4, ActorMoves

\* A step that replaces what actor a does by a prepared event.
LEMMA BeginMoves ==
    ASSUME ActorsInv, UNCHANGED journal, NEW a \in DOMAIN actor, a # Sweeper,
           NEW x, DOMAIN x = ActorFields, a \in Engine => x.turn \in Nat /\ x.turn > 0,
           x.pc = "commit" => /\ x.seen \in 0..Version
                              /\ x.seen = Version => Fits(Current, x.event)
                              /\ x.event.by # "sweep"
                              /\ x.ok # "commit" /\ x.err # "commit",
           actor' = [actor EXCEPT ![a] = x]
    PROVE  ActorsInv'
<1>1. ActorOK(a, x)
  BY Zenon DEF ActorOK
<1> QED BY Zenon, <1>1, ActorMoves

\* The head an operation starts from is one the stream has had, and caching it keeps
\* the cache true.
LEMMA CacheKeepsHeads ==
    ASSUME JournalInv, HeadsInv, UNCHANGED journal, NEW n \in Engine, NEW v \in 0..Version,
           NEW h, h = stream_head(v), heads' = [heads EXCEPT ![n] = cache_head(n, h)]
    PROVE  HeadsInv'
<1>1. Version' = Version /\ \A w : stream_head(w)' = stream_head(w)
  BY Zenon DEF Version, stream_head, After
<1>2. cache_head(n, h) \in {h, heads[n]}
  BY Zenon DEF cache_head
<1> QED BY Zenon, <1>1, <1>2 DEF HeadsInv

\* Heads stay true while neither they nor the stream change.
LEMMA HeadsUnchanged ==
    ASSUME HeadsInv, UNCHANGED journal, UNCHANGED heads
    PROVE  HeadsInv'
<1>1. Version' = Version /\ \A w : stream_head(w)' = stream_head(w)
  BY Zenon DEF Version, stream_head, After
<1> QED BY Zenon, <1>1 DEF HeadsInv

\* The head that require_stream_head or the running-head read returns is one the stream has had.
LEMMA HeadIsOfStream ==
    ASSUME JournalInv, HeadsInv, NEW n \in Engine
    PROVE  /\ \E v \in 0..Version : require_stream_head(n) = stream_head(v)
           /\ \A t : \E v \in 0..Version : require_running_head(n, t) = stream_head(v)
<1>1. Version \in 0..Version
  BY VersionNatural
<1>2. \E v \in 0..Version : require_stream_head(n) = stream_head(v)
  BY Zenon, <1>1 DEF HeadsInv, require_stream_head
<1> QED BY Zenon, <1>1, <1>2 DEF require_running_head

\* load_thread_as caches a true head.
LEMMA LoadMoves ==
    ASSUME JournalInv, HeadsInv, NEW n \in Engine, LoadThread(n)
    PROVE  HeadsInv' /\ UNCHANGED <<journal, row>>
<1>1. Version \in 0..Version
  BY VersionNatural
<1>2. UNCHANGED <<journal, row>>
  BY Zenon DEF LoadThread
<1>3. heads' = [heads EXCEPT ![n] = cache_head(n, stream_head(Version))]
  BY Zenon DEF LoadThread
<1> QED BY Zenon, <1>1, <1>2, <1>3, CacheKeepsHeads

\* An event prepared at the cached head fits, if that head is still the newest.
LEMMA AppendAtHeadMoves ==
    ASSUME JournalInv, HeadsInv, ActorsInv, NEW a \in DOMAIN actor, a \in Engine,
           actor[a].pc # "idle", NEW e,
           e.kind \in ItemEvent \cup {"TurnFinished"}, e.by # "sweep",
           NEW ok, NEW err, ok # "commit", err # "commit", AppendAtHead(a, e, ok, err)
    PROVE  HeadsInv' /\ ActorsInv' /\ UNCHANGED <<journal, row>>
<1> DEFINE h == require_running_head(a, e.turn)
<1>1. UNCHANGED <<journal, row>> /\ EngineOf(a) = a /\ a # Sweeper
  BY Zenon, EngineAssumption DEF AppendAtHead, EngineOf, Sweeper
<1>2. PICK v \in 0..Version : h = stream_head(v)
  BY Zenon, HeadIsOfStream
<1>3. /\ heads' = [heads EXCEPT ![a] = cache_head(a, h)]
      /\ IF h.running = e.turn THEN Prepare(a, h.version, e, ok, err) ELSE Go(a, err)
  BY Zenon, <1>1 DEF AppendAtHead
<1>4. HeadsInv'
  BY Zenon, <1>1, <1>2, <1>3, CacheKeepsHeads
<1>5. h.version = v /\ h.running = After(v).running
  BY <1>2 DEF stream_head
<1> HIDE DEF h
<1>6. CASE h.running = e.turn
  <2>1. v = Version => Fits(Current, e)
    BY Zenon, <1>5, <1>6 DEF Fits, Current, ItemEvent
  <2> QED BY Zenon, <1>1, <1>3, <1>4, <1>5, <1>6, <2>1, PrepareMoves
<1>7. CASE h.running # e.turn
  BY Zenon, <1>1, <1>3, <1>4, <1>7, GoMoves
<1> QED BY Zenon, <1>6, <1>7

(***************************************************************************)
(* An append.                                                              *)
(***************************************************************************)
\* What replay makes of an event it accepts, for the parts the row and the heads show.
LEMMA ApplyKeepsProjection ==
    ASSUME NEW p, ProjectionOK(p), NEW e, Replays(p, e), Fits(p, e)
    PROVE  /\ ProjectionOK(apply_events(p, e))
           /\ apply_events(p, e).turns >= p.turns
           /\ apply_events(p, e).running =
                 CASE e.kind = "TurnStarted" -> e.turn
                   [] e.kind \in TerminalEvent /\ p.running = e.turn -> 0
                   [] OTHER -> p.running
<1>1. CASE e.kind = "TurnStarted"
  <2>1. apply_events(p, e) = [NewThread EXCEPT !.ok = p.ok, !.turns = e.turn, !.running = e.turn]
    BY Zenon, <1>1 DEF apply_events, ItemEvent, TerminalEvent
  <2>2. e.turn \in Nat /\ e.turn > p.turns
    BY Zenon, <1>1 DEF Fits, ItemEvent
  <2> QED BY <1>1, <2>1, <2>2 DEF ProjectionOK, ProjectionFields, NewThread
<1>2. CASE e.kind \in ItemEvent
  <2>1. apply_events(p, e) = [p EXCEPT !.last = e.kind, !.asked = e.wait,
                                       !.result = @ \/ e.kind = "ToolResult"]
    BY Zenon, <1>2 DEF apply_events, ItemEvent, TerminalEvent
  <2> QED BY <1>2, <2>1 DEF ProjectionOK, ProjectionFields, ItemEvent, TerminalEvent
<1>3. CASE e.kind = "WaitStarted"
  <2>1. apply_events(p, e) = [p EXCEPT !.exec = "Waiting", !.wait = e.wait, !.rev = 1,
                                       !.decision = "none", !.result = FALSE, !.last = e.kind]
    BY Zenon, <1>3 DEF apply_events, ItemEvent, TerminalEvent
  <2> QED BY <1>3, <2>1 DEF ProjectionOK, ProjectionFields, TerminalEvent
<1>4. CASE e.kind = "AcceptResume"
  <2>1. apply_events(p, e) = [p EXCEPT !.exec = "Ready", !.rev = e.rev + 1,
                                       !.decision = e.what, !.last = e.kind]
    BY Zenon, <1>4 DEF apply_events, ItemEvent, TerminalEvent
  <2> QED BY <1>4, <2>1 DEF ProjectionOK, ProjectionFields, TerminalEvent
<1>5. CASE e.kind = "ClaimReady"
  <2>1. apply_events(p, e) = [p EXCEPT !.exec = "Executing", !.rev = e.rev + 1,
                                       !.result = FALSE, !.last = e.kind]
    BY Zenon, <1>5 DEF apply_events, ItemEvent, TerminalEvent
  <2> QED BY <1>5, <2>1 DEF ProjectionOK, ProjectionFields, TerminalEvent
<1>6. CASE e.kind \in TerminalEvent
  <2>1. apply_events(p, e) = [p EXCEPT !.running = 0, !.exec = "none", !.last = e.kind]
    BY Zenon, <1>6 DEF apply_events, ItemEvent, TerminalEvent
  <2>2. p.running = e.turn
    BY Zenon, <1>6 DEF Replays, AtRevision, TerminalEvent, ItemEvent
  <2> QED BY <1>6, <2>1, <2>2 DEF ProjectionOK, ProjectionFields, TerminalEvent
<1>7. CASE e.kind \notin {"TurnStarted"} \cup ItemEvent \cup TerminalEvent \cup LifecycleEvent
  <2>1. apply_events(p, e) = p
    BY Zenon, <1>7 DEF apply_events, ItemEvent, TerminalEvent, LifecycleEvent
  <2> QED BY <1>7, <2>1 DEF ProjectionOK, TerminalEvent
<1> QED BY Zenon, <1>1, <1>2, <1>3, <1>4, <1>5, <1>6, <1>7 DEF LifecycleEvent, TerminalEvent

\* The row an accepted event leaves is the row of the projection it leaves.
Matches(r, p) ==
    IF p.running > 0 /\ p.exec \in {"Waiting", "Ready"}
    THEN /\ r.turn = p.running /\ r.wait = p.wait /\ r.revision = p.rev
         /\ r.phase = CASE p.exec = "Waiting" -> "Waiting"
                        [] p.decision = "Deny" -> "ReadyDeny"
                        [] OTHER -> "ReadyAllow"
    ELSE r = NoRow

\* projection_change and apply_events keep row and projection in step.
LEMMA ChangeKeepsMatch ==
    ASSUME NEW p, ProjectionOK(p), NEW r, DOMAIN r = RowFields, Matches(r, p), NEW e,
           Fits(p, e), Replays(p, e), ChangeAccepted(r, e)
    PROVE  /\ DOMAIN projection_change(r, e) = RowFields
           /\ Matches(projection_change(r, e), apply_events(p, e))
<1>0. NoRow.phase = "none" /\ NoRow.turn = 0 /\ DOMAIN NoRow = RowFields
  BY Zenon DEF NoRow, RowFields
<1>1. CASE e.kind = "TurnStarted"
  <2>1. apply_events(p, e) = [NewThread EXCEPT !.ok = p.ok, !.turns = e.turn, !.running = e.turn]
    BY Zenon, <1>1 DEF apply_events, ItemEvent, TerminalEvent
  <2>2. projection_change(r, e) = r /\ r = NoRow
    BY <1>1 DEF projection_change, Matches, Replays, ItemEvent, ProjectionOK
  <2> QED BY Zenon, <2>1, <2>2 DEF Matches, NewThread
<1>2. CASE e.kind \in ItemEvent
  <2>1. apply_events(p, e) = [p EXCEPT !.last = e.kind, !.asked = e.wait,
                                       !.result = @ \/ e.kind = "ToolResult"]
    BY Zenon, <1>2 DEF apply_events, ItemEvent, TerminalEvent
  <2>2. projection_change(r, e) = r
    BY Zenon, <1>2 DEF projection_change, ItemEvent
  <2> QED BY Zenon, <2>1, <2>2 DEF Matches, ProjectionOK, ProjectionFields
<1>3. CASE e.kind = "WaitStarted"
  <2>1. apply_events(p, e) = [p EXCEPT !.exec = "Waiting", !.wait = e.wait, !.rev = 1,
                                       !.decision = "none", !.result = FALSE, !.last = e.kind]
    BY Zenon, <1>3 DEF apply_events, ItemEvent, TerminalEvent
  <2>2. projection_change(r, e) = [phase |-> "Waiting", turn |-> e.turn, wait |-> e.wait,
                                   revision |-> 1, due |-> "expiry"]
    BY Zenon, <1>3 DEF projection_change
  <2>3. p.running = e.turn /\ p.running > 0
    BY Zenon, <1>3 DEF Fits, ItemEvent
  <2> QED BY <2>1, <2>2, <2>3 DEF Matches, ProjectionOK, ProjectionFields, RowFields
<1>4. CASE e.kind = "AcceptResume"
  <2>1. apply_events(p, e) = [p EXCEPT !.exec = "Ready", !.rev = e.rev + 1,
                                       !.decision = e.what, !.last = e.kind]
    BY Zenon, <1>4 DEF apply_events, ItemEvent, TerminalEvent
  <2>2. projection_change(r, e) =
            [r EXCEPT !.phase = IF e.what = "Deny" THEN "ReadyDeny" ELSE "ReadyAllow",
                      !.revision = e.rev + 1,
                      !.due = IF e.what = "Deny" THEN "accepted" ELSE @]
    BY Zenon, <1>4 DEF projection_change
  <2>3. r.phase # "none"
    BY Zenon, <1>4 DEF ChangeAccepted, require_current
  <2>4. p.running > 0 /\ r.turn = p.running /\ r.wait = p.wait
    BY Zenon, <1>0, <2>3 DEF Matches
  <2> QED BY <2>1, <2>2, <2>4 DEF Matches, ProjectionOK, ProjectionFields, RowFields
<1>5. CASE e.kind = "ClaimReady"
  <2>1. apply_events(p, e) = [p EXCEPT !.exec = "Executing", !.rev = e.rev + 1,
                                       !.result = FALSE, !.last = e.kind]
    BY Zenon, <1>5 DEF apply_events, ItemEvent, TerminalEvent
  <2>2. projection_change(r, e) = NoRow
    BY Zenon, <1>5 DEF projection_change
  <2> QED BY Zenon, <1>0, <2>1, <2>2 DEF Matches, ProjectionOK, ProjectionFields
<1>6. CASE e.kind \in {"WaitClosed", "DenyWait"}
  <2>1. apply_events(p, e) = [p EXCEPT !.running = 0, !.exec = "none", !.last = e.kind]
    BY Zenon, <1>6 DEF apply_events, ItemEvent, TerminalEvent
  <2>2. projection_change(r, e) = NoRow
    BY Zenon, <1>6 DEF projection_change
  <2> QED BY Zenon, <1>0, <2>1, <2>2 DEF Matches, ProjectionOK, ProjectionFields
<1>7. CASE e.kind \in {"TurnFinished", "TurnCompleted"}
  <2>1. apply_events(p, e) = [p EXCEPT !.running = 0, !.exec = "none", !.last = e.kind]
    BY Zenon, <1>7 DEF apply_events, ItemEvent, TerminalEvent
  <2>2. projection_change(r, e) = r
    BY Zenon, <1>7 DEF projection_change
  <2>3. p.exec \notin {"Waiting", "Ready"}
    BY Zenon, <1>7 DEF Replays, ItemEvent
  <2>4. r = NoRow
    BY Zenon, <2>3 DEF Matches
  <2> QED BY Zenon, <1>0, <2>1, <2>2, <2>4 DEF Matches, ProjectionOK, ProjectionFields
<1>8. CASE e.kind \notin {"TurnStarted"} \cup ItemEvent \cup TerminalEvent \cup LifecycleEvent
  <2>1. apply_events(p, e) = p /\ projection_change(r, e) = r
    BY Zenon, <1>8 DEF apply_events, projection_change, ItemEvent, TerminalEvent, LifecycleEvent
  <2> QED BY Zenon, <2>1
<1> QED BY Zenon, <1>1, <1>2, <1>3, <1>4, <1>5, <1>6, <1>7, <1>8 DEF LifecycleEvent, TerminalEvent

\* The stream after an append: what was there stays, and the new projection is what
\* replay makes of the event.
LEMMA AppendGrows ==
    ASSUME JournalInv, NEW e,
           journal' = Append(journal, [event |-> e, after |-> apply_events(Current, e)])
    PROVE  /\ \E S : journal' \in Seq(S)
           /\ Version \in Nat /\ Version' = Version + 1
           /\ \A i \in 1..Version : journal'[i] = journal[i]
           /\ journal'[Version + 1].event = e
           /\ Current' = apply_events(Current, e)
           /\ \A v \in 0..Version : stream_head(v)' = stream_head(v)
           /\ stream_head(Version)' = [version |-> Version + 1,
                                       running |-> apply_events(Current, e).running]
<1> DEFINE x == [event |-> e, after |-> apply_events(Current, e)]
<1>a. x.event = e /\ x.after = apply_events(Current, e) /\ journal' = Append(journal, x)
  BY Zenon
<1> HIDE DEF x
<1>1. PICK S : journal \in Seq(S)
  BY Zenon DEF JournalInv
<1>2. journal \in Seq(S \cup {x}) /\ x \in S \cup {x}
  <2>1. \A i \in 1..Len(journal) : journal[i] \in S
    BY <1>1
  <2> QED BY <1>1, <2>1
<1>3. journal' \in Seq(S \cup {x}) /\ Len(journal') = Len(journal) + 1
      /\ Len(journal) \in Nat /\ journal'[Len(journal) + 1] = x
      /\ \A i \in 1..Len(journal) : journal'[i] = journal[i]
  BY <1>2, <1>a
<1>4. Version \in Nat /\ Version' = Version + 1
      /\ \A i \in 1..Version : journal'[i] = journal[i]
  BY Zenon, <1>3 DEF Version
<1>b. journal'[Version + 1] = x
  BY Zenon, <1>3 DEF Version
<1>c. Version' = Version + 1
  BY Zenon, <1>4
<1>5. After(Version)' = apply_events(Current, e)
  <2>1. Version' # 0
    BY <1>4
  <2>2. journal'[Version'] = x
    BY <1>b, <1>c, Zenon
  <2> QED BY Zenon, <1>a, <2>1, <2>2 DEF After
<1>6. \A v \in 0..Version : After(v)' = After(v)
  <2> SUFFICES ASSUME NEW v \in 0..Version PROVE After(v)' = After(v)
    BY Zenon
  <2>1. CASE v = 0
    BY Zenon, <2>1 DEF After
  <2>2. CASE v \in 1..Version
    <3>1. journal'[v] = journal[v]
      BY <1>4, <2>2, Zenon
    <3>2. v # 0
      BY <1>4, <2>2
    <3> QED BY Zenon, <3>1, <3>2 DEF After
  <2> QED BY <1>4, <2>1, <2>2
<1>7. Current' = apply_events(Current, e)
  BY Zenon, <1>4, <1>5 DEF Current
<1>8. \A v \in 0..Version : stream_head(v)' = stream_head(v)
  BY Zenon, <1>6 DEF stream_head
<1>9. stream_head(Version)' = [version |-> Version + 1,
                               running |-> apply_events(Current, e).running]
  BY Zenon, <1>4, <1>5 DEF stream_head
<1>10. journal'[Version + 1].event = e
  BY <1>a, <1>b, Zenon
<1> QED BY <1>3, <1>4, <1>7, <1>8, <1>9, <1>10, Zenon

\* A step of Commit that appends.
LEMMA AppendMoves ==
    ASSUME LoopInv, NEW a \in DOMAIN actor, actor[a].pc = "commit",
           actor[a].seen = Version, ChangeAccepted(row, actor[a].event),
           append_with_disposition("Applied", actor[a].event)
    PROVE  JournalInv' /\ SweptTurns'
<1> DEFINE e == actor[a].event
<1>1. Fits(Current, e) /\ Replays(Current, e)
  BY Zenon, RowAcceptsOnlyReplayable DEF LoopInv, ActorsInv, ActorOK
<1>2. /\ journal' = Append(journal, [event |-> e, after |-> apply_events(Current, e)])
      /\ row' = projection_change(row, e)
  BY Zenon DEF append_with_disposition
<1>3. ProjectionOK(Current) /\ DOMAIN row = RowFields /\ Matches(row, Current)
  BY Zenon DEF LoopInv, JournalInv, RowMatchesJournal, Matches
<1>4. e.by = "sweep" => a = Sweeper /\ e.kind \in {"WaitClosed", "DenyWait"}
  BY Zenon DEF LoopInv, ActorsInv, ActorOK
<1> HIDE DEF e
<1>5. /\ \E S : journal' \in Seq(S)
      /\ Version \in Nat /\ Version' = Version + 1
      /\ \A i \in 1..Version : journal'[i] = journal[i]
      /\ journal'[Version + 1].event = e
      /\ Current' = apply_events(Current, e)
  BY Zenon, <1>2, AppendGrows DEF LoopInv
<1>6. /\ ProjectionOK(Current')
      /\ Current'.turns >= Current.turns
      /\ Current'.running = CASE e.kind = "TurnStarted" -> e.turn
                              [] e.kind \in TerminalEvent /\ Current.running = e.turn -> 0
                              [] OTHER -> Current.running
  BY <1>1, <1>3, <1>5, ApplyKeepsProjection
<1>7. DOMAIN row' = RowFields /\ Matches(row', Current')
  BY Zenon, <1>1, <1>2, <1>3, <1>5, ChangeKeepsMatch, e = actor[a].event DEF e
<1>8. JournalInv'
  BY Zenon, <1>5, <1>6, <1>7 DEF JournalInv, RowMatchesJournal, Matches
<1>9. Current.running \in Nat /\ Current.turns \in Nat /\ Current.running <= Current.turns
      /\ Current'.turns \in Nat
  BY Zenon, <1>3, <1>6 DEF ProjectionOK
<1>10. e.kind = "TurnStarted" => e.turn > Current.turns /\ e.turn \in Nat
  BY Zenon, <1>1 DEF Fits, ItemEvent
<1>11. e.by = "sweep" => /\ e.turn = Current.running /\ Current.running > 0
                         /\ Current'.running = 0
  <2> SUFFICES ASSUME e.by = "sweep"
               PROVE  e.turn = Current.running /\ Current.running > 0 /\ Current'.running = 0
    BY Zenon
  <2>1. e.kind \in {"WaitClosed", "DenyWait"}
    BY Zenon, <1>4
  <2>2. AtRevision(Current, e)
    BY Zenon, <1>1, <2>1 DEF Replays, ItemEvent
  <2>3. e.turn = Current.running
    BY Zenon, <2>2 DEF AtRevision
  <2>4. row.phase # "none"
    BY Zenon, <2>1 DEF ChangeAccepted, require_current, e
  <2>5. Current.running > 0
    BY <1>3, <2>4 DEF Matches, NoRow
  <2> QED BY Zenon, <1>6, <2>1, <2>3, <2>5 DEF TerminalEvent
<1>12. SweptTurns'
  <2> SUFFICES ASSUME NEW i \in 1..(Version + 1), journal'[i].event.by = "sweep"
               PROVE  /\ journal'[i].event.turn \in Nat /\ journal'[i].event.turn > 0
                      /\ journal'[i].event.turn <= Current'.turns
                      /\ journal'[i].event.turn # Current'.running
    BY Zenon, <1>5 DEF SweptTurns
  <2>1. CASE i = Version + 1
    BY <1>5, <1>6, <1>9, <1>11, <2>1
  <2>2. CASE i \in 1..Version
    <3>1. /\ journal'[i].event.turn \in Nat /\ journal'[i].event.turn > 0
          /\ journal'[i].event.turn <= Current.turns
          /\ journal'[i].event.turn # Current.running
      BY Zenon, <1>5, <2>2 DEF LoopInv, SweptTurns
    <3> QED BY <1>6, <1>9, <1>10, <3>1
  <2> QED BY <1>5, <2>1, <2>2
<1> QED BY Zenon, <1>8, <1>12

\* The sweep never meets an event of its own.
LEMMA SweepNotRecorded ==
    ASSUME LoopInv, NEW a \in DOMAIN actor, actor[a].pc = "commit",
           actor[a].event.by = "sweep"
    PROVE  ~Recorded(actor[a].event)
<1>1. a = Sweeper /\ actor[a].event.turn = actor[a].turn
  BY Zenon DEF LoopInv, ActorsInv, ActorOK
<1>2. \A i \in 1..Version : journal[i].event.by = "sweep" => journal[i].event.turn # actor[a].turn
  BY Zenon, <1>1 DEF LoopInv, ActorsInv, ActorOK
<1> QED BY Zenon, <1>1, <1>2 DEF Recorded, Version

\* commit_pending leaves the heads true: advance_head is called only for the append it
\* belongs to.
LEMMA CommitMovesHeads ==
    ASSUME LoopInv, NEW a \in DOMAIN actor, actor[a].pc = "commit", NEW how \in Answer,
           NEW n \in Engine, commit_pending(n, actor[a].seen, actor[a].event, how)
    PROVE  HeadsInv'
<1> DEFINE e == actor[a].event
           v == actor[a].seen
           d == Disposition(v, e)
<1>1. HeadsInv /\ JournalInv /\ Version \in Nat /\ v \in 0..Version
  BY Zenon, VersionNatural DEF LoopInv, ActorsInv, ActorOK
<1>2. d = "Duplicate" => e.by # "sweep"
  BY Zenon, SweepNotRecorded DEF Disposition
<1>3. d = "Applied" => v = Version /\ ChangeAccepted(row, e) /\ Fits(Current, e)
  BY Zenon DEF Disposition, LoopInv, ActorsInv, ActorOK
<1>4. /\ append_with_disposition(d, e)
      /\ heads' = [heads EXCEPT ![n] =
            CASE how = "replied" /\ (d = "Applied" \/ (d = "Duplicate" /\ e.by = "sweep"))
                                   -> advance_head(n, v, e)
              [] d = "Conflict" -> invalidate_head(n, v)
              [] OTHER -> heads[n]]
  BY Zenon DEF commit_pending
<1> HIDE DEF e, v, d
<1>5. CASE d # "Applied"
  <2>1. UNCHANGED journal
    BY Zenon, <1>4, <1>5 DEF append_with_disposition
  <2>2. Version' = Version /\ \A w : stream_head(w)' = stream_head(w)
    BY Zenon, <2>1 DEF Version, stream_head, After
  <2>3. heads' = [heads EXCEPT ![n] = heads'[n]] /\ heads'[n] \in {NoHead, heads[n]}
    BY Zenon, <1>1, <1>2, <1>4, <1>5 DEF HeadsInv, invalidate_head
  <2> QED BY Zenon, <1>1, <2>2, <2>3 DEF HeadsInv
<1>6. CASE d = "Applied"
  <2>1. journal' = Append(journal, [event |-> e, after |-> apply_events(Current, e)])
    BY Zenon, <1>4, <1>6 DEF append_with_disposition
  <2>2. /\ Version' = Version + 1
        /\ \A w \in 0..Version : stream_head(w)' = stream_head(w)
        /\ stream_head(Version)' = [version |-> Version + 1,
                                    running |-> apply_events(Current, e).running]
    BY Zenon, <1>1, <2>1, AppendGrows
  <2>3. \A w \in 0..Version : w \in 0..Version' /\ Version' \in 0..Version'
    BY <1>1, <2>2
  <2>4. Replays(Current, e)
    BY Zenon, <1>1, <1>3, <1>6, RowAcceptsOnlyReplayable
  <2>5. apply_events(Current, e).running =
            CASE e.kind = "TurnStarted" -> e.turn
              [] e.kind \in TerminalEvent /\ Current.running = e.turn -> 0
              [] OTHER -> Current.running
    BY Zenon, <1>1, <1>3, <1>6, <2>4, ApplyKeepsProjection DEF JournalInv
  <2>6. heads' = [heads EXCEPT ![n] = heads'[n]] /\ heads'[n] \in {advance_head(n, v, e), heads[n]}
    BY Zenon, <1>1, <1>4, <1>6 DEF HeadsInv
  <2>7. advance_head(n, v, e) \in {heads[n], stream_head(Version)'}
    <3> SUFFICES ASSUME heads[n].version = v
                 PROVE  advance_head(n, v, e) = stream_head(Version)'
      BY Zenon DEF advance_head
    <3>1. v = Version
      BY Zenon, <1>3, <1>6
    <3>2. heads[n] # NoHead
      BY <1>1, <3>1 DEF NoHead
    <3>3. PICK w \in 0..Version : heads[n] = stream_head(w)
      BY Zenon, <1>1, <3>2 DEF HeadsInv
    <3>4. w = Version
      BY <3>1, <3>3 DEF stream_head
    <3>5. heads[n].running = Current.running
      BY <3>3, <3>4 DEF stream_head, Current
    <3>6. advance_head(n, v, e) =
             [version |-> Version + 1,
              running |-> CASE e.kind = "TurnStarted" -> e.turn
                            [] e.kind \in TerminalEvent /\ heads[n].running = e.turn -> 0
                            [] OTHER -> heads[n].running]
      BY Zenon, <3>1 DEF advance_head
    <3> QED BY Zenon, <2>2, <2>5, <3>5, <3>6
  <2>8. \A m \in Engine : heads[m] = NoHead \/ \E w \in 0..Version : heads[m] = stream_head(w)'
    BY Zenon, <1>1, <2>2 DEF HeadsInv
  <2>9. \E w \in 0..Version' : stream_head(Version)' = stream_head(w)'
    BY Zenon, <2>3, <1>1
  <2> QED BY <1>1, <2>3, <2>6, <2>7, <2>8, <2>9 DEF HeadsInv
<1> QED BY Zenon, <1>5, <1>6

\* A commit, whether it applies, conflicts, is refused or finds a duplicate, and however
\* it is answered, keeps the invariant.
LEMMA CommitMoves ==
    ASSUME LoopInv, NEW a \in Actor, Commit(a)
    PROVE  LoopInv'
<1> DEFINE me == actor[a]
           e == actor[a].event
           v == actor[a].seen
           d == Disposition(v, e)
<1>1. a \in DOMAIN actor /\ me.pc = "commit"
  BY Zenon DEF Commit, At
<1>2. EngineOf(a) \in Engine
  BY Zenon, EngineAssumption DEF EngineOf, Home
<1>3. PICK how \in Answer :
        /\ commit_pending(EngineOf(a), v, e, how)
        /\ LET ok == CommitOk(v, e, how)
               next == IF ok THEN me.ok ELSE me.err
           IN  actor' = [actor EXCEPT ![a] =
                  IF next = "idle" THEN Idle
                  ELSE [me EXCEPT !.pc = next, !.event = NoEvent, !.seen = 0,
                                 !.ok = "idle", !.err = "idle",
                                 !.rev = IF ok /\ me.event.kind = "AcceptResume"
                                         THEN me.event.rev + 1 ELSE me.rev]]
  BY Zenon DEF Commit
<1>4. HeadsInv'
  BY Zenon, <1>1, <1>2, <1>3, CommitMovesHeads
<1>5. append_with_disposition(d, e)
  BY Zenon, <1>3 DEF commit_pending
<1> DEFINE ok == CommitOk(v, e, how)
           next == IF ok THEN me.ok ELSE me.err
           x == [me EXCEPT !.pc = next, !.event = NoEvent, !.seen = 0, !.ok = "idle",
                           !.err = "idle",
                           !.rev = IF ok /\ me.event.kind = "AcceptResume"
                                   THEN me.event.rev + 1 ELSE me.rev]
<1>b. next \in {me.ok, me.err}
  BY Zenon
<1>6. actor' = [actor EXCEPT ![a] = IF next = "idle" THEN Idle ELSE x]
  BY <1>3, Zenon
<1>a. DOMAIN x = ActorFields /\ x.pc = next /\ x.turn = me.turn
  BY Zenon, <1>1 DEF LoopInv, ActorsInv, ActorOK, ActorFields
<1> HIDE DEF ok, next, x
<1>7. /\ DOMAIN actor' = DOMAIN actor /\ actor' = [b \in DOMAIN actor' |-> actor'[b]]
      /\ \A b \in DOMAIN actor \ {a} : actor'[b] = actor[b]
      /\ actor'[a] = Idle \/ (/\ next # "idle"
                              /\ DOMAIN actor'[a] = ActorFields
                              /\ actor'[a].pc = next /\ actor'[a].turn = me.turn)
  BY Zenon, <1>1, <1>6, <1>a DEF LoopInv, ActorsInv
<1>8. /\ next # "commit"
      /\ a = Sweeper => next = "idle"
      /\ a \in Engine => me.turn \in Nat /\ me.turn > 0
  BY Zenon, <1>1, <1>b DEF LoopInv, ActorsInv, ActorOK
<1>9. (ActorOK(a, actor[a]))'
  <2>1. CASE actor'[a] = Idle
    BY <2>1 DEF ActorOK, Idle, ActorFields
  <2>2. CASE actor'[a] # Idle
    BY <1>7, <1>8, <2>2 DEF ActorOK
  <2> QED BY Zenon, <2>1, <2>2
<1> HIDE DEF d
<1>10. CASE d # "Applied"
  <2>1. UNCHANGED <<journal, row>>
    BY Zenon, <1>5, <1>10 DEF append_with_disposition
  <2>2. JournalInv' /\ SweptTurns' /\ Version' = Version /\ Current' = Current
    BY Zenon, <2>1, SameJournal DEF LoopInv
  <2>3. \A b \in DOMAIN actor \ {a} : ActorOK(b, actor[b])'
    BY <1>7, <2>1, <2>2 DEF LoopInv, ActorsInv, ActorOK
  <2> QED BY Zenon, <1>4, <1>7, <1>9, <2>2, <2>3 DEF LoopInv, ActorsInv
<1>11. CASE d = "Applied"
  <2>1. v = Version /\ ChangeAccepted(row, e)
    BY Zenon, <1>11 DEF d, Disposition
  <2>2. JournalInv' /\ SweptTurns'
    BY Zenon, <1>1, <1>5, <1>11, <2>1, AppendMoves
  <2>3. journal' = Append(journal, [event |-> e, after |-> apply_events(Current, e)])
    BY Zenon, <1>5, <1>11 DEF append_with_disposition
  <2>4. /\ Version \in Nat /\ Version' = Version + 1
        /\ \A i \in 1..Version : journal'[i] = journal[i]
        /\ journal'[Version + 1].event = e
    BY Zenon, <2>3, AppendGrows DEF LoopInv
  <2>5. ASSUME NEW b \in DOMAIN actor, b # a PROVE ActorOK(b, actor[b])'
    <3>1. ActorOK(b, actor[b]) /\ actor'[b] = actor[b]
      BY Zenon, <1>7, <2>5 DEF LoopInv, ActorsInv
    <3>2. actor[b].seen \in 0..Version => actor[b].seen \in 0..Version' /\ actor[b].seen # Version'
      BY <2>4
    <3>3. b = Sweeper => e.by # "sweep"
      BY Zenon, <1>1, <2>5 DEF LoopInv, ActorsInv, ActorOK
    <3>4. ASSUME b = Sweeper, NEW i \in 1..Version', journal'[i].event.by = "sweep"
          PROVE  journal'[i].event = journal[i].event /\ i \in 1..Version
      BY <2>4, <3>3, <3>4
    <3> QED BY Zenon, <3>1, <3>2, <3>4 DEF ActorOK
  <2> QED BY Zenon, <1>4, <1>7, <1>9, <2>2, <2>5 DEF LoopInv, ActorsInv
<1> QED BY Zenon, <1>10, <1>11

(***************************************************************************)
(* The steps of a worker.                                                  *)
(***************************************************************************)
\* What a step that appends nothing has to keep.
Quiet == UNCHANGED <<journal, row>> /\ HeadsInv' /\ ActorsInv'

\* Such a step keeps the invariant.
LEMMA QuietKeeps == LoopInv /\ Quiet => LoopInv'
  BY Zenon, SameJournal DEF LoopInv, Quiet

\* Go is quiet.
LEMMA QuietGo ==
    ASSUME LoopInv, NEW a \in DOMAIN actor, a # Sweeper, actor[a].pc # "idle",
           NEW pc, pc # "commit", Go(a, pc), UNCHANGED journalVars
    PROVE  Quiet
<1>1. UNCHANGED <<journal, row, heads>>
  BY Zenon DEF journalVars
<1> QED BY Zenon, <1>1, GoMoves, HeadsUnchanged DEF Quiet, LoopInv

\* So is the preparation of an event at the current version.
LEMMA QuietPrepare ==
    ASSUME LoopInv, NEW a \in DOMAIN actor, a # Sweeper, actor[a].pc # "idle",
           NEW e, Fits(Current, e), e.by # "sweep", NEW ok, NEW err, ok # "commit",
           err # "commit", Prepare(a, Version, e, ok, err), UNCHANGED journalVars
    PROVE  Quiet
<1>1. UNCHANGED <<journal, row, heads>>
  BY Zenon DEF journalVars
<1>2. Version \in 0..Version
  BY VersionNatural DEF LoopInv
<1> QED BY Zenon, <1>1, <1>2, PrepareMoves, HeadsUnchanged DEF Quiet, LoopInv

\* So is the preparation of an event at the cached head.
LEMMA QuietAppendAtHead ==
    ASSUME LoopInv, NEW a \in DOMAIN actor, a \in Engine, actor[a].pc # "idle", NEW e,
           e.kind \in ItemEvent \cup {"TurnFinished"}, e.by # "sweep",
           NEW ok, NEW err, ok # "commit", err # "commit", AppendAtHead(a, e, ok, err)
    PROVE  Quiet
  BY Zenon, AppendAtHeadMoves DEF Quiet, LoopInv

\* A Turn starts, and an interrupted or waiting one is resumed.
LEMMA QuietEntry ==
    ASSUME LoopInv, NEW n \in Engine, StartTurn(n) \/ ResumeWait(n) \/ ResumeApproval(n)
    PROVE  Quiet
<1>1. n \in DOMAIN actor /\ n # Sweeper
  BY Zenon, EngineAssumption DEF StartTurn, ResumeWait, ResumeApproval, At, Sweeper
<1>2. LoadThread(n)
  BY Zenon DEF StartTurn, ResumeWait, ResumeApproval
<1>3. HeadsInv' /\ UNCHANGED <<journal, row>>
  BY Zenon, <1>2, LoadMoves DEF LoopInv
<1>4. Current.turns \in Nat /\ Current.running \in Nat /\ Version \in 0..Version
  BY VersionNatural DEF LoopInv, JournalInv, ProjectionOK
<1>5. CASE StartTurn(n)
  <2> DEFINE t == Current.turns + 1
             x == [Idle EXCEPT !.pc = "commit", !.turn = t, !.seen = Version, !.ok = "agent",
                               !.event = Event("TurnStarted", t, 0, 0, "none", "none")]
  <2>1. actor' = [actor EXCEPT ![n] = x] /\ Current.running = 0
    BY Zenon, <1>5 DEF StartTurn
  <2>2. Fits(Current, Event("TurnStarted", t, 0, 0, "none", "none"))
    BY <1>4, <2>1 DEF Fits, Event, ItemEvent
  <2>3. /\ DOMAIN x = ActorFields /\ x.turn \in Nat /\ x.turn > 0 /\ x.pc = "commit"
        /\ x.seen = Version /\ x.event = Event("TurnStarted", t, 0, 0, "none", "none")
        /\ x.ok = "agent" /\ x.err = "idle"
    BY <1>4 DEF Idle, ActorFields
  <2>4. Event("TurnStarted", t, 0, 0, "none", "none").by = "none"
    BY Zenon DEF Event
  <2> HIDE DEF t, x
  <2>5. ActorsInv'
    BY Zenon, <1>1, <1>3, <1>4, <2>1, <2>2, <2>3, <2>4, BeginMoves DEF LoopInv
  <2> QED BY Zenon, <1>3, <2>5 DEF Quiet
<1>6. CASE ResumeWait(n)
  <2>1. PICK cancelled \in BOOLEAN :
          actor' = [actor EXCEPT ![n] =
             [Idle EXCEPT !.pc = ResumeEntry(Current, cancelled), !.turn = Current.running,
                          !.wait = Current.wait, !.rev = Current.rev]]
    BY Zenon, <1>6 DEF ResumeWait
  <2> DEFINE x == [Idle EXCEPT !.pc = ResumeEntry(Current, cancelled), !.turn = Current.running,
                               !.wait = Current.wait, !.rev = Current.rev]
  <2>2. ResumeEntry(Current, cancelled) # "commit"
    BY Zenon DEF ResumeEntry
  <2>3. Current.running > 0
    BY Zenon, <1>6 DEF ResumeWait
  <2>4. DOMAIN x = ActorFields /\ x.pc # "commit" /\ x.turn = Current.running
    BY Zenon, <2>2 DEF Idle, ActorFields
  <2> HIDE DEF x
  <2>5. ActorsInv'
    BY Zenon, <1>1, <1>3, <1>4, <2>1, <2>3, <2>4, BeginMoves DEF LoopInv, x
  <2> QED BY Zenon, <1>3, <2>5 DEF Quiet
<1>7. CASE ResumeApproval(n)
  <2> DEFINE x == [Idle EXCEPT !.pc = "decide", !.turn = Current.running,
                               !.wait = Current.asked, !.resumed = TRUE]
  <2>1. actor' = [actor EXCEPT ![n] = x] /\ Current.running > 0
    BY Zenon, <1>7 DEF ResumeApproval
  <2>2. DOMAIN x = ActorFields /\ x.pc # "commit" /\ x.turn = Current.running
    BY Zenon DEF Idle, ActorFields
  <2> HIDE DEF x
  <2>3. ActorsInv'
    BY Zenon, <1>1, <1>3, <1>4, <2>1, <2>2, BeginMoves DEF LoopInv
  <2> QED BY Zenon, <1>3, <2>3 DEF Quiet
<1> QED BY Zenon, <1>5, <1>6, <1>7

\* Steps that only move the worker on.
LEMMA QuietMove ==
    ASSUME LoopInv, NEW n \in Engine,
           \/ WaitNotStarted(n) \/ Submit(n) \/ Read(n) \/ Revalidate(n) \/ ExecuteTool(n)
           \/ Decide(n) \/ RecordTombstone(n) \/ Abandon(n)
    PROVE  Quiet
<1>1. n \in DOMAIN actor /\ n # Sweeper /\ actor[n].pc # "idle" /\ UNCHANGED journalVars
  BY Zenon, EngineAssumption DEF WaitNotStarted, Submit, Read, Revalidate, ExecuteTool, Decide,
        RecordTombstone, Abandon, At, Sweeper
<1>2. \E pc : pc # "commit" /\ Go(n, pc)
  <2>1. CASE WaitNotStarted(n)
    BY Zenon, <2>1 DEF WaitNotStarted
  <2>2. CASE Submit(n)
    BY Zenon, <2>2 DEF Submit
  <2>3. CASE Read(n)
    BY Zenon, <2>3 DEF Read
  <2>4. CASE Revalidate(n)
    <3>1. (IF actor[n].rev = 1 THEN "accept" ELSE "claim") # "commit"
      BY Zenon
    <3> QED BY Zenon, <2>4, <3>1 DEF Revalidate
  <2>5. CASE ExecuteTool(n)
    BY Zenon, <2>5 DEF ExecuteTool
  <2>6. CASE Decide(n)
    BY Zenon, <2>6 DEF Decide
  <2>7. CASE RecordTombstone(n)
    BY Zenon, <2>7 DEF RecordTombstone
  <2>8. CASE Abandon(n)
    BY Zenon, <2>8 DEF Abandon
  <2> QED BY Zenon, <2>1, <2>2, <2>3, <2>4, <2>5, <2>6, <2>7, <2>8
<1> QED BY Zenon, <1>1, <1>2, QuietGo

\* Steps that append an item, or the end of the Turn, at the cached head.
LEMMA QuietItem ==
    ASSUME LoopInv, NEW n \in Engine,
           SettleError(n) \/ FinishTurn(n) \/ RecordResult(n) \/ RequestApproval(n)
           \/ RecordDecision(n)
    PROVE  Quiet
<1>1. n \in DOMAIN actor /\ n # Sweeper /\ actor[n].pc # "idle"
  BY Zenon, EngineAssumption DEF SettleError, FinishTurn, RecordResult, RequestApproval,
        RecordDecision, At, Sweeper
<1>2. \A kind, turn, wait, rev, what, by :
         /\ Event(kind, turn, wait, rev, what, by).kind = kind
         /\ Event(kind, turn, wait, rev, what, by).by = by
  BY Zenon DEF Event
<1>3. CASE SettleError(n)
  BY <1>1, <1>2, <1>3, QuietAppendAtHead DEF SettleError, ItemEvent
<1>4. CASE RecordResult(n)
  BY <1>1, <1>2, <1>4, QuietAppendAtHead DEF RecordResult, ItemEvent
<1>5. CASE RequestApproval(n)
  BY <1>1, <1>2, <1>5, QuietAppendAtHead DEF RequestApproval, ItemEvent
<1>6. CASE RecordDecision(n)
  <2>1. (IF inbox[actor[n].wait] = "Approve" THEN "tool" ELSE "erring") # "commit"
    BY Zenon
  <2> QED BY <1>1, <1>2, <1>6, <2>1, QuietAppendAtHead DEF RecordDecision, ItemEvent
<1>7. CASE FinishTurn(n)
  <2>1. CASE At(n, "finish") /\ LoadThread(n)
             /\ Go(n, IF Current.running = actor[n].turn /\ Current.exec \in {"Waiting", "Ready"}
                      THEN "idle" ELSE "finishing")
    <3>1. HeadsInv' /\ UNCHANGED <<journal, row>>
      BY Zenon, <2>1, LoadMoves DEF LoopInv
    <3>2. (IF Current.running = actor[n].turn /\ Current.exec \in {"Waiting", "Ready"}
           THEN "idle" ELSE "finishing") # "commit"
      BY Zenon
    <3>3. ActorsInv'
      BY Zenon, <1>1, <2>1, <3>1, <3>2, GoMoves DEF LoopInv
    <3> QED BY Zenon, <3>1, <3>3 DEF Quiet
  <2>2. CASE AppendAtHead(n, Event("TurnFinished", actor[n].turn, 0, 0, "Failed", "none"),
                          "idle", "idle")
    BY <1>1, <1>2, <2>2, QuietAppendAtHead
  <2> QED BY Zenon, <1>7, <2>1, <2>2 DEF FinishTurn
<1> QED BY Zenon, <1>3, <1>4, <1>5, <1>6, <1>7

\* Steps that check the projection and prepare an event at its version.
LEMMA QuietChecked ==
    ASSUME LoopInv, NEW n \in Engine,
           \/ Agent(n) \/ StartWait(n) \/ DenyWait(n) \/ CloseWait(n) \/ AcceptResume(n)
           \/ ClaimReady(n)
    PROVE  Quiet
<1>1. n \in DOMAIN actor /\ n # Sweeper /\ actor[n].pc # "idle" /\ n # "sweep"
      /\ actor[n].turn \in Nat /\ actor[n].turn > 0
  BY Zenon, EngineAssumption DEF Agent, StartWait, DenyWait, CloseWait, AcceptResume, ClaimReady, At,
        Sweeper, LoopInv, ActorsInv, ActorOK
<1>2. \A kind, turn, wait, rev, what, by :
         /\ Event(kind, turn, wait, rev, what, by).kind = kind
         /\ Event(kind, turn, wait, rev, what, by).turn = turn
         /\ Event(kind, turn, wait, rev, what, by).by = by
  BY DEF Event
<1>3. \A e : e.kind \in {"AcceptResume", "ClaimReady", "WaitClosed", "DenyWait"} => Fits(Current, e)
  BY Zenon DEF Fits, ItemEvent
<1>4. ASSUME NEW pc, pc # "commit", Go(n, pc), UNCHANGED journalVars PROVE Quiet
  BY Zenon, <1>1, <1>4, QuietGo
<1>5. CASE Agent(n)
  <2>1. ASSUME NEW k,
               AppendAtHead(n, Event("ToolCall", actor[n].turn, k, 0, "none", "none"),
                            "ask", "finish")
        PROVE  Quiet
    BY <1>1, <1>2, <2>1, QuietAppendAtHead DEF ItemEvent
  <2>2. CASE /\ Completable(Current, actor[n].turn)
             /\ Prepare(n, Version, Event("TurnCompleted", actor[n].turn, 0, 0, "none", "none"),
                        "idle", "erring")
             /\ UNCHANGED journalVars
    <3>1. Fits(Current, Event("TurnCompleted", actor[n].turn, 0, 0, "none", "none"))
      BY <1>2, <2>2 DEF Fits, Completable, ItemEvent
    <3> QED BY <1>1, <1>2, <2>2, <3>1, QuietPrepare
  <2>3. CASE Go(n, "erring") /\ UNCHANGED journalVars
    BY Zenon, <1>4, <2>3
  <2> QED BY Zenon, <1>5, <2>1, <2>2, <2>3 DEF Agent
<1>6. CASE StartWait(n)
  <2> DEFINE e == Event("WaitStarted", actor[n].turn, actor[n].wait, 0, "none", n)
  <2>1. UNCHANGED journalVars
    BY Zenon, <1>6 DEF StartWait
  <2>2. CASE WaitStartable(Current, actor[n].turn)
             /\ Prepare(n, Version, e, "submit", "unstarted")
    <3>1. Fits(Current, e)
      BY <1>1, <1>2, <2>2 DEF Fits, WaitStartable, ItemEvent
    <3> QED BY <1>1, <1>2, <2>1, <2>2, <3>1, QuietPrepare
  <2>3. CASE Go(n, "erring") \/ Go(n, "unstarted")
    BY Zenon, <1>4, <2>1, <2>3
  <2> QED BY Zenon, <1>6, <2>2, <2>3 DEF StartWait
<1>7. CASE DenyWait(n)
  <2> DEFINE e == Event("DenyWait", actor[n].turn, actor[n].wait, actor[n].rev, "Deny", "runtime")
  <2>1. UNCHANGED journalVars /\ (Prepare(n, Version, e, "idle", "idle") \/ Go(n, "idle"))
    BY Zenon, <1>7 DEF DenyWait
  <2>2. Fits(Current, e) /\ e.by # "sweep"
    BY <1>2, <1>3
  <2> HIDE DEF e
  <2> QED BY Zenon, <1>1, <1>4, <2>1, <2>2, QuietPrepare
<1>8. CASE CloseWait(n)
  <2>1. PICK status \in {"Cancelled", "TimedOut"} :
          \/ Prepare(n, Version, Event("WaitClosed", actor[n].turn, actor[n].wait, actor[n].rev,
                                       status, n), "abandon", "idle")
          \/ Go(n, "idle")
    BY Zenon, <1>8 DEF CloseWait
  <2> DEFINE e == Event("WaitClosed", actor[n].turn, actor[n].wait, actor[n].rev, status, n)
  <2>2. UNCHANGED journalVars
    BY Zenon, <1>8 DEF CloseWait
  <2>3. Fits(Current, e) /\ e.by # "sweep"
    BY <1>1, <1>2, <1>3
  <2> HIDE DEF e
  <2> QED BY Zenon, <1>1, <1>4, <2>1, <2>2, <2>3, QuietPrepare DEF e
<1>9. CASE AcceptResume(n)
  <2> DEFINE e == Event("AcceptResume", actor[n].turn, actor[n].wait, actor[n].rev, "Approve",
                        "runtime")
             x == [actor[n] EXCEPT !.pc = "claim", !.rev = e.rev + 1]
  <2>1. /\ UNCHANGED journalVars
        /\ \/ Prepare(n, Version, e, "claim", "idle")
           \/ Go(n, "idle") \/ Go(n, "close")
           \/ actor' = [actor EXCEPT ![n] = x]
    BY Zenon, <1>9 DEF AcceptResume, accept_resume_as
  <2>2. Fits(Current, e) /\ e.by # "sweep"
    BY <1>2, <1>3
  <2>3. DOMAIN x = ActorFields /\ x.pc # "commit" /\ x.turn = actor[n].turn
    BY Zenon, <1>1 DEF LoopInv, ActorsInv, ActorOK, ActorFields
  <2> HIDE DEF e, x
  <2>4. CASE actor' = [actor EXCEPT ![n] = x]
    <3>1. UNCHANGED <<journal, row, heads>>
      BY Zenon, <2>1 DEF journalVars
    <3>2. ActorsInv'
      BY Zenon, <1>1, <2>3, <2>4, <3>1, BeginMoves DEF LoopInv
    <3> QED BY Zenon, <3>1, <3>2, HeadsUnchanged DEF Quiet, LoopInv
  <2>5. CASE Prepare(n, Version, e, "claim", "idle")
    BY Zenon, <1>1, <2>1, <2>2, <2>5, QuietPrepare
  <2> QED BY Zenon, <1>4, <2>1, <2>4, <2>5
<1>10. CASE ClaimReady(n)
  <2> DEFINE e == Event("ClaimReady", actor[n].turn, actor[n].wait, actor[n].rev, "none", n)
  <2>1. /\ UNCHANGED journalVars
        /\ Prepare(n, Version, e, "tool", "idle") \/ Go(n, "idle") \/ Go(n, "close")
    BY Zenon, <1>10 DEF ClaimReady, claim_ready_as
  <2>2. Fits(Current, e) /\ e.by # "sweep"
    BY <1>1, <1>2, <1>3
  <2> HIDE DEF e
  <2>3. CASE Prepare(n, Version, e, "tool", "idle")
    BY Zenon, <1>1, <2>1, <2>2, <2>3, QuietPrepare
  <2> QED BY Zenon, <1>4, <2>1, <2>3
<1> QED BY Zenon, <1>5, <1>6, <1>7, <1>8, <1>9, <1>10

\* A crash forgets: its actors are idle and its heads gone.
LEMMA QuietCrash ==
    ASSUME LoopInv, NEW n \in Engine, Crash(n)
    PROVE  Quiet
<1>1. /\ UNCHANGED <<journal, row>>
      /\ actor' = [a \in DOMAIN actor |-> IF EngineOf(a) = n THEN Idle ELSE actor[a]]
      /\ heads' = [heads EXCEPT ![n] = NoHead]
  BY Zenon DEF Crash
<1>2. Version' = Version /\ Current' = Current /\ \A w : stream_head(w)' = stream_head(w)
  BY Zenon, <1>1 DEF Version, Current, stream_head, After
<1>3. HeadsInv'
  BY Zenon, <1>1, <1>2 DEF LoopInv, HeadsInv
<1>4. ASSUME NEW a \in DOMAIN actor PROVE ActorOK(a, actor'[a])
  BY Zenon, <1>1, IdleOK DEF LoopInv, ActorsInv
<1>5. ASSUME NEW a \in DOMAIN actor PROVE ActorOK(a, actor[a])'
  BY Zenon, <1>1, <1>2, <1>4 DEF ActorOK
<1>6. DOMAIN actor' = DOMAIN actor /\ actor' = [a \in DOMAIN actor' |-> actor'[a]]
  BY Zenon, <1>1
<1> QED BY Zenon, <1>1, <1>3, <1>5, <1>6 DEF Quiet, ActorsInv

(***************************************************************************)
(* The steps of the sweep and of the host.                                 *)
(***************************************************************************)
\* The sweep takes up a wait of the running Turn, whose waits it has not settled.
LEMMA QuietSweep ==
    ASSUME LoopInv, ScanDue \/ SettleDue
    PROVE  Quiet
<1>1. Sweeper \in DOMAIN actor /\ UNCHANGED <<journal, row, heads>> /\ Sweeper \notin Engine
  BY Zenon, EngineAssumption DEF ScanDue, SettleDue, At, journalVars, Sweeper
<1>2. HeadsInv'
  BY Zenon, <1>1, HeadsUnchanged DEF LoopInv
<1>3. CASE ScanDue
  <2> DEFINE x == [Idle EXCEPT !.pc = "due", !.turn = row.turn, !.wait = row.wait,
                               !.rev = row.revision, !.seen = Version, !.ok = row.phase]
  <2>1. actor' = [actor EXCEPT ![Sweeper] = x] /\ Due(row)
    BY Zenon, <1>3 DEF ScanDue
  <2>2. row # NoRow
    BY <2>1 DEF Due, NoRow
  <2>3. row.turn = Current.running
    BY Zenon, <2>2 DEF LoopInv, JournalInv, RowMatchesJournal
  <2>4. \A i \in 1..Version : journal[i].event.by = "sweep" => journal[i].event.turn # row.turn
    BY Zenon, <2>3 DEF LoopInv, SweptTurns
  <2>5. DOMAIN x = ActorFields /\ x.pc = "due" /\ x.turn = row.turn /\ x.seen = Version
    BY Zenon DEF Idle, ActorFields
  <2>6. Version \in 0..Version
    BY VersionNatural DEF LoopInv
  <2> HIDE DEF x
  <2>7. ActorOK(Sweeper, x)
    BY Zenon, <1>1, <2>4, <2>5, <2>6 DEF ActorOK
  <2> QED BY Zenon, <1>1, <1>2, <2>1, <2>7, ActorMoves DEF Quiet, LoopInv
<1>4. CASE SettleDue
  <2> DEFINE me == actor[Sweeper]
             e == IF me.ok = "ReadyDeny"
                  THEN Event("DenyWait", me.turn, me.wait, me.rev, "Deny", "sweep")
                  ELSE Event("WaitClosed", me.turn, me.wait, me.rev, "TimedOut", "sweep")
             x == [me EXCEPT !.pc = "commit", !.wait = e.wait, !.seen = me.seen, !.event = e,
                             !.ok = "idle", !.err = "idle"]
  <2>1. \/ actor' = [actor EXCEPT ![Sweeper] = x]
        \/ actor' = [actor EXCEPT ![Sweeper] = Idle]
    BY Zenon, <1>4 DEF SettleDue, Prepare, Go
  <2>2. me.pc = "due"
    BY Zenon, <1>4 DEF SettleDue, At
  <2>3. DOMAIN me = ActorFields /\ me.seen \in 0..Version
        /\ \A i \in 1..Version : journal[i].event.by = "sweep" => journal[i].event.turn # me.turn
    BY Zenon, <1>1, <2>2 DEF LoopInv, ActorsInv, ActorOK
  <2>4. e.by = "sweep" /\ e.turn = me.turn /\ e.kind \in {"WaitClosed", "DenyWait"}
    BY Zenon DEF Event
  <2>5. Fits(Current, e)
    BY Zenon, <2>4 DEF Fits, ItemEvent
  <2> HIDE DEF e
  <2>6. DOMAIN x = ActorFields /\ x.pc = "commit" /\ x.seen = me.seen /\ x.event = e
        /\ x.ok = "idle" /\ x.err = "idle" /\ x.turn = me.turn
    BY Zenon, <2>3 DEF ActorFields
  <2> HIDE DEF x, me
  <2>7. ActorOK(Sweeper, x)
    BY Zenon, <1>1, <2>3, <2>4, <2>5, <2>6 DEF ActorOK
  <2>8. ActorsInv'
    BY Zenon, <1>1, <2>1, <2>7, IdleOK, ActorMoves DEF LoopInv
  <2> QED BY Zenon, <1>1, <1>2, <2>8 DEF Quiet
<1> QED BY Zenon, <1>3, <1>4

\* A call of the host replaces what it does by a prepared event, or by cleaning up.
LEMMA QuietHost ==
    ASSUME LoopInv, CancelWait \/ RecoverThread \/ AcceptSettled \/ Checkpoint \/ Abandon(Host)
    PROVE  Quiet
<1>1. Host \in DOMAIN actor /\ Host # Sweeper /\ Host \notin Engine /\ Home \in Engine
  BY Zenon, EngineAssumption DEF CancelWait, RecoverThread, AcceptSettled, Checkpoint, Abandon, At,
        Host, Sweeper, Home
<1>2. Version \in 0..Version /\ Current.running \in Nat
  BY VersionNatural DEF LoopInv, JournalInv, ProjectionOK
<1>3. \A kind, turn, wait, rev, what, by :
         /\ Event(kind, turn, wait, rev, what, by).kind = kind
         /\ Event(kind, turn, wait, rev, what, by).turn = turn
         /\ Event(kind, turn, wait, rev, what, by).by = by
  BY DEF Event
<1>4. CASE CancelWait
  <2>1. HeadsInv' /\ UNCHANGED <<journal, row>>
    BY Zenon, <1>1, <1>4, LoadMoves DEF CancelWait, LoopInv
  <2>2. PICK x : /\ actor' = [actor EXCEPT ![Host] = x]
                 /\ DOMAIN x = ActorFields
                 /\ x.pc = "commit" => /\ x.seen = Version /\ x.ok = "abandon" /\ x.err = "idle"
                                       /\ x.event.kind = "WaitClosed" /\ x.event.by = "cancel"
    <3> DEFINE e == Event("WaitClosed", Current.running, Current.wait, Current.rev, "Cancelled",
                          "cancel")
               y == [Idle EXCEPT !.pc = "commit", !.turn = Current.running, !.wait = Current.wait,
                                 !.seen = Version, !.event = e, !.ok = "abandon"]
               z(t) == [Idle EXCEPT !.pc = "abandon", !.turn = t]
    <3>1. \/ actor' = [actor EXCEPT ![Host] = y]
          \/ \E t : actor' = [actor EXCEPT ![Host] = z(t)]
      BY Zenon, <1>4 DEF CancelWait
    <3>2. e.kind = "WaitClosed" /\ e.by = "cancel"
      BY <1>3
    <3> HIDE DEF e
    <3>3. DOMAIN y = ActorFields /\ y.seen = Version /\ y.event = e /\ y.ok = "abandon"
          /\ y.err = "idle"
      BY Zenon DEF Idle, ActorFields
    <3>4. \A t : DOMAIN z(t) = ActorFields /\ z(t).pc = "abandon"
      BY Zenon DEF Idle, ActorFields
    <3> HIDE DEF y, z
    <3> QED BY Zenon, <3>1, <3>2, <3>3, <3>4
  <2>3. x.pc = "commit" => Fits(Current, x.event)
    BY Zenon, <2>2 DEF Fits, ItemEvent
  <2>4. ActorsInv'
    BY Zenon, <1>1, <1>2, <2>1, <2>2, <2>3, BeginMoves DEF LoopInv
  <2> QED BY Zenon, <2>1, <2>4 DEF Quiet
<1>5. CASE RecoverThread
  <2>1. UNCHANGED <<journal, row, heads>> /\ HeadsInv'
    BY Zenon, <1>5, HeadsUnchanged DEF RecoverThread, journalVars, LoopInv
  <2> DEFINE e == Event("TurnFinished", Current.running, 0, 0, "Interrupted", "none")
             x == [Idle EXCEPT !.pc = "commit", !.turn = Current.running, !.seen = Version,
                               !.ok = "interrupted", !.event = e]
  <2>2. \/ actor' = [actor EXCEPT ![Host] = x]
        \/ actor[Host].pc # "idle" /\ Go(Host, "idle")
        \/ actor' = actor
    BY Zenon, <1>5 DEF RecoverThread, At
  <2>3. Fits(Current, e) /\ e.by # "sweep"
    BY <1>3 DEF Fits, ItemEvent
  <2> HIDE DEF e
  <2>4. DOMAIN x = ActorFields /\ x.pc = "commit" /\ x.seen = Version /\ x.event = e
        /\ x.ok = "interrupted" /\ x.err = "idle"
    BY Zenon DEF Idle, ActorFields
  <2> HIDE DEF x
  <2>5. CASE actor' = [actor EXCEPT ![Host] = x]
    BY Zenon, <1>1, <1>2, <2>1, <2>3, <2>4, <2>5, BeginMoves DEF Quiet, LoopInv
  <2>6. CASE actor[Host].pc # "idle" /\ Go(Host, "idle")
    BY Zenon, <1>1, <2>1, <2>6, GoMoves DEF Quiet, LoopInv
  <2>7. CASE actor' = actor
    <3>1. actor' = [actor EXCEPT ![Host] = actor[Host]] /\ ActorOK(Host, actor[Host])
      BY Zenon, <1>1, <2>7 DEF LoopInv, ActorsInv
    <3> QED BY Zenon, <1>1, <2>1, <3>1, ActorMoves DEF Quiet, LoopInv
  <2> QED BY Zenon, <2>2, <2>5, <2>6, <2>7
<1>6. CASE AcceptSettled
  <2>1. UNCHANGED <<journal, row, heads>> /\ HeadsInv'
    BY Zenon, <1>6, HeadsUnchanged DEF AcceptSettled, journalVars, LoopInv
  <2> DEFINE e == Event("AcceptResume", Current.running, Current.wait, Current.rev,
                        inbox[Current.wait], Host)
             x == [Idle EXCEPT !.pc = "commit", !.turn = Current.running, !.wait = Current.wait,
                               !.seen = Version, !.event = e]
  <2>2. actor' = [actor EXCEPT ![Host] = x]
    BY Zenon, <1>6 DEF AcceptSettled
  <2>3. Fits(Current, e) /\ e.by # "sweep"
    BY <1>3 DEF Fits, ItemEvent, Host
  <2> HIDE DEF e
  <2>4. DOMAIN x = ActorFields /\ x.pc = "commit" /\ x.seen = Version /\ x.event = e
        /\ x.ok = "idle" /\ x.err = "idle"
    BY Zenon DEF Idle, ActorFields
  <2> HIDE DEF x
  <2> QED BY Zenon, <1>1, <1>2, <2>1, <2>2, <2>3, <2>4, BeginMoves DEF Quiet, LoopInv
<1>7. CASE Checkpoint
  <2> DEFINE h == require_stream_head(Home)
             e == Event("Checkpoint", 0, 0, 0, "none", "none")
             x == [Idle EXCEPT !.pc = "commit", !.seen = h.version, !.event = e]
  <2>1. /\ UNCHANGED <<journal, row>>
        /\ heads' = [heads EXCEPT ![Home] = cache_head(Home, h)]
        /\ actor' = [actor EXCEPT ![Host] = x]
    BY Zenon, <1>7 DEF Checkpoint
  <2>2. PICK v \in 0..Version : h = stream_head(v)
    BY Zenon, <1>1, HeadIsOfStream DEF LoopInv
  <2>a. h.version = v
    BY <2>2 DEF stream_head
  <2>3. HeadsInv'
    BY Zenon, <1>1, <2>1, <2>2, CacheKeepsHeads DEF LoopInv
  <2>4. Fits(Current, e) /\ e.by # "sweep"
    BY <1>3 DEF Fits, ItemEvent
  <2> HIDE DEF h, e
  <2>5. DOMAIN x = ActorFields /\ x.pc = "commit" /\ x.seen = v /\ x.event = e
        /\ x.ok = "idle" /\ x.err = "idle"
    BY Zenon, <2>a DEF Idle, ActorFields
  <2> HIDE DEF x
  <2> QED BY Zenon, <1>1, <2>1, <2>3, <2>4, <2>5, BeginMoves DEF Quiet, LoopInv
<1>8. CASE Abandon(Host)
  <2>1. UNCHANGED journalVars /\ actor[Host].pc # "idle" /\ Go(Host, "idle")
    BY Zenon, <1>8 DEF Abandon, At
  <2> QED BY Zenon, <1>1, <2>1, QuietGo
<1> QED BY Zenon, <1>4, <1>5, <1>6, <1>7, <1>8

\* Every step keeps the invariant.
LEMMA LoopStep == LoopInv /\ [Next]_vars => LoopInv'
<1> SUFFICES ASSUME LoopInv, [Next]_vars PROVE LoopInv'
  BY Zenon
<1>1. ASSUME NEW n \in Engine, Worker(n) PROVE LoopInv'
  BY Zenon, <1>1, QuietEntry, QuietMove, QuietItem, QuietChecked, QuietCrash, QuietKeeps DEF Worker
<1>2. ASSUME NEW a \in Actor, Commit(a) PROVE LoopInv'
  BY Zenon, <1>2, CommitMoves
<1>3. ASSUME NEW a \in Engine \cup {Host}, Abandon(a) PROVE LoopInv'
  BY Zenon, <1>3, QuietMove, QuietHost, QuietKeeps
<1>4. CASE ScanDue \/ SettleDue
  BY Zenon, <1>4, QuietSweep, QuietKeeps
<1>5. CASE CancelWait \/ RecoverThread \/ AcceptSettled \/ Checkpoint
  BY Zenon, <1>5, QuietHost, QuietKeeps
<1>6. CASE UNCHANGED <<actor, journalVars>>
  <2>1. UNCHANGED <<journal, row, heads, actor>>
    BY Zenon, <1>6 DEF journalVars
  <2>2. JournalInv' /\ SweptTurns' /\ Version' = Version /\ Current' = Current /\ HeadsInv'
    BY Zenon, <2>1, SameJournal, HeadsUnchanged DEF LoopInv
  <2>3. ActorsInv'
    BY <2>1, <2>2 DEF LoopInv, ActorsInv, ActorOK
  <2> QED BY Zenon, <2>2, <2>3 DEF LoopInv
<1>7. ASSUME NEW k \in Wait, settle_as(k) PROVE LoopInv'
  BY Zenon, <1>6, <1>7 DEF settle_as
<1>8. CASE Expire
  BY Zenon, <1>6, <1>8 DEF Expire
<1>9. CASE UNCHANGED vars
  BY Zenon, <1>6, <1>9 DEF vars
<1> QED BY Zenon, <1>1, <1>2, <1>3, <1>4, <1>5, <1>7, <1>8, <1>9 DEF Next

\* The invariant holds throughout.
LEMMA LoopInvAlways == Spec => []LoopInv
  BY LoopInit, LoopStep, PTL DEF Spec

\* Whatever any number of processes, the sweep and a host append, however often they crash
\* and whichever answers they lose, apply_events accepts the stream: the version compared
\* in append_classified and the row compared in projection_change are enough, although the
\* operations check a projection, or a cached head, some time before they append.
THEOREM JournalReplaysAlways == Spec => []JournalReplays
<1>1. LoopInv => JournalReplays
  BY Zenon DEF LoopInv, JournalInv, ProjectionOK, JournalReplays
<1> QED BY <1>1, LoopInvAlways, PTL

\* The live wait row that projection_change maintains always says of the wait what replay
\* of the journal says.
THEOREM RowMatchesJournalAlways == Spec => []RowMatchesJournal
<1>1. LoopInv => RowMatchesJournal
  BY Zenon DEF LoopInv, JournalInv
<1> QED BY <1>1, LoopInvAlways, PTL

\* Every head a process caches is the head its stream had at that version (advance_head,
\* invalidate_head, cache_head), also when an append of another process, of the host or of
\* the sweep came between.
THEOREM HeadsTrueAlways == Spec => []HeadsTrue
<1>1. LoopInv => HeadsTrue
  <2> SUFFICES ASSUME LoopInv, NEW n \in Engine, heads[n] # NoHead
               PROVE  heads[n].version <= Version /\ heads[n] = stream_head(heads[n].version)
    BY Zenon DEF HeadsTrue
  <2>1. PICK v \in 0..Version : heads[n] = stream_head(v)
    BY Zenon DEF LoopInv, HeadsInv
  <2>2. heads[n].version = v /\ v <= Version
    BY <2>1, VersionNatural DEF stream_head, LoopInv
  <2> QED BY Zenon, <2>1, <2>2
<1> QED BY <1>1, LoopInvAlways, PTL

(***************************************************************************)
(* What an append does to the execution of a Turn.                         *)
(***************************************************************************)
\* What appending e adds to what is seen.
LEMMA SeenGrows ==
    ASSUME NEW E, NEW e, NEW kinds, NEW k
    PROVE  Seen(E \cup {e}, kinds, k) <=> Seen(E, kinds, k) \/ (e.kind \in kinds /\ e.wait = k)
  BY Zenon DEF Seen

\* The waits of a longer journal.
LEMMA WaitsGrow ==
    ASSUME NEW E, NEW e
    PROVE  /\ WaitsOf(E) \subseteq WaitsOf(E \cup {e})
           /\ e.wait # 0 => e.wait \in WaitsOf(E \cup {e})
           /\ e.wait = 0 \/ e.wait \in WaitsOf(E) => WaitsOf(E \cup {e}) = WaitsOf(E)
           /\ e.wait # 0 => WaitsOf(E \cup {e}) = WaitsOf(E) \cup {e.wait}
  BY Zenon DEF WaitsOf

\* A wait stays its Turn's: an event names a new wait, or one of its own Turn.
LEMMA OwnKept ==
    ASSUME NEW E, NEW e, NEW k, NEW t, Own(E, k, t),
           e.wait \notin WaitsOf(E) \/ Own(E, e.wait, e.turn)
    PROVE  Own(E \cup {e}, k, t)
<1>1. PICK f \in E : f.wait = k /\ k # 0
  BY Zenon DEF Own, WaitsOf
<1>2. e.wait = k => e.turn = t
  BY Zenon, <1>1 DEF Own
<1> QED BY Zenon, <1>2, WaitsGrow DEF Own

\* The projection q that event e leads to from p, field by field.
Applied(p, e, q) ==
    /\ e.kind = "TurnStarted" =>
          /\ q.turns = e.turn /\ q.running = e.turn /\ q.exec = "none" /\ q.last = "none"
          /\ e.turn \in Nat /\ e.turn > p.turns /\ p.running = 0
    /\ e.kind \in ItemEvent =>
          /\ q.turns = p.turns /\ q.running = p.running /\ q.exec = p.exec
          /\ q.wait = p.wait /\ q.rev = p.rev /\ q.decision = p.decision
          /\ q.last = e.kind /\ q.asked = e.wait /\ p.running = e.turn
    /\ e.kind = "WaitStarted" =>
          /\ q.turns = p.turns /\ q.running = p.running /\ q.exec = "Waiting"
          /\ q.wait = e.wait /\ q.rev = 1 /\ q.last = e.kind /\ p.running = e.turn
    /\ e.kind = "AcceptResume" =>
          /\ q.turns = p.turns /\ q.running = p.running /\ q.exec = "Ready"
          /\ q.wait = p.wait /\ q.rev = p.rev + 1 /\ q.decision = e.what /\ q.last = e.kind
          /\ p.running = e.turn /\ p.wait = e.wait /\ p.exec = "Waiting"
    /\ e.kind = "ClaimReady" =>
          /\ q.turns = p.turns /\ q.running = p.running /\ q.exec = "Executing"
          /\ q.wait = p.wait /\ q.last = e.kind
          /\ p.running = e.turn /\ p.wait = e.wait /\ p.exec = "Ready"
    /\ e.kind \in TerminalEvent =>
          q.turns = p.turns /\ q.running = 0 /\ q.exec = "none" /\ p.running = e.turn
    /\ e.kind \in {"WaitClosed", "DenyWait"} =>
          p.wait = e.wait /\ p.exec \in {"Waiting", "Ready"}
    /\ e.kind = "Checkpoint" => q = p

\* An event that replay accepts has these effects on the projection.
LEMMA AppliedFields ==
    ASSUME NEW p, ProjectionOK(p), NEW e, Replays(p, e), Fits(p, e), NEW q,
           q = apply_events(p, e)
    PROVE  Applied(p, e, q)
<1> USE DEF ProjectionOK, ProjectionFields, Applied
<1>1. CASE e.kind = "TurnStarted"
  <2>1. q = [NewThread EXCEPT !.ok = p.ok, !.turns = e.turn, !.running = e.turn]
    BY Zenon, <1>1 DEF apply_events, ItemEvent, TerminalEvent
  <2>2. e.turn \in Nat /\ e.turn > p.turns /\ p.running = 0
    BY Zenon, <1>1 DEF Fits, ItemEvent
  <2> QED BY Zenon, <1>1, <2>1, <2>2 DEF NewThread, ItemEvent, TerminalEvent
<1>2. CASE e.kind \in ItemEvent
  <2>1. q = [p EXCEPT !.last = e.kind, !.asked = e.wait, !.result = @ \/ e.kind = "ToolResult"]
    BY Zenon, <1>2 DEF apply_events, ItemEvent, TerminalEvent
  <2>2. p.running = e.turn
    BY Zenon, <1>2 DEF Replays, ItemEvent
  <2> QED BY Zenon, <1>2, <2>1, <2>2 DEF ItemEvent, TerminalEvent
<1>3. CASE e.kind = "WaitStarted"
  <2>1. q = [p EXCEPT !.exec = "Waiting", !.wait = e.wait, !.rev = 1,
                      !.decision = "none", !.result = FALSE, !.last = e.kind]
    BY Zenon, <1>3 DEF apply_events, ItemEvent, TerminalEvent
  <2>2. p.running = e.turn
    BY Zenon, <1>3 DEF Replays, ItemEvent
  <2> QED BY Zenon, <1>3, <2>1, <2>2 DEF ItemEvent, TerminalEvent
<1>4. CASE e.kind = "AcceptResume"
  <2>1. q = [p EXCEPT !.exec = "Ready", !.rev = e.rev + 1, !.decision = e.what, !.last = e.kind]
    BY Zenon, <1>4 DEF apply_events, ItemEvent, TerminalEvent
  <2>2. p.running = e.turn /\ p.wait = e.wait /\ p.rev = e.rev /\ p.exec = "Waiting"
    BY Zenon, <1>4 DEF Replays, ItemEvent, AtRevision
  <2> QED BY <1>4, <2>1, <2>2 DEF ItemEvent, TerminalEvent
<1>5. CASE e.kind = "ClaimReady"
  <2>1. q = [p EXCEPT !.exec = "Executing", !.rev = e.rev + 1, !.result = FALSE, !.last = e.kind]
    BY Zenon, <1>5 DEF apply_events, ItemEvent, TerminalEvent
  <2>2. p.running = e.turn /\ p.wait = e.wait /\ p.exec = "Ready"
    BY Zenon, <1>5 DEF Replays, ItemEvent, AtRevision
  <2> QED BY Zenon, <1>5, <2>1, <2>2 DEF ItemEvent, TerminalEvent
<1>6. CASE e.kind \in TerminalEvent
  <2>1. q = [p EXCEPT !.running = 0, !.exec = "none", !.last = e.kind]
    BY Zenon, <1>6 DEF apply_events, ItemEvent, TerminalEvent
  <2>2. p.running = e.turn
    BY Zenon, <1>6 DEF Replays, AtRevision, TerminalEvent, ItemEvent
  <2>3. e.kind \in {"WaitClosed", "DenyWait"} => p.wait = e.wait /\ p.exec \in {"Waiting", "Ready"}
    BY Zenon, <1>6 DEF Replays, AtRevision, ItemEvent
  <2>4. q.turns = p.turns /\ q.running = 0 /\ q.exec = "none"
    BY Zenon, <2>1
  <2>5. e.kind \notin ItemEvent \cup {"TurnStarted", "WaitStarted", "AcceptResume", "ClaimReady", "Checkpoint"}
    BY Zenon, <1>6 DEF ItemEvent, TerminalEvent
  <2> QED BY Zenon, <2>2, <2>3, <2>4, <2>5
<1>7. CASE e.kind = "Checkpoint"
  BY Zenon, <1>7 DEF apply_events, ItemEvent, TerminalEvent
<1> QED BY Zenon, <1>1, <1>2, <1>3, <1>4, <1>5, <1>6, <1>7 DEF TerminalEvent

\* Actor a, in state x, appends its event at projection p.
Appends(E, p, v, most, mode, box, ent, a, x) ==
    /\ ProjectionOK(p) /\ Replays(p, x.event) /\ Fits(p, x.event)
    /\ x.pc = "commit" /\ x.seen = v /\ most \in Nat
    /\ a \in Engine => x.turn \in Nat /\ x.turn > 0
    /\ MemberOK(E, p, v, most, mode, box, ent, a, x)
    /\ EventsOK(E, p, mode) /\ ExecutionOK(E, p, box)

EventKind == {"TurnStarted", "ToolCall", "ToolResult", "ApprovalRequested", "ApprovalDecision",
              "RuntimeError", "WaitStarted", "AcceptResume", "ClaimReady", "WaitClosed",
              "DenyWait", "TurnFinished", "TurnCompleted", "Checkpoint"}

\* What is known of the event e of actor a, whoever that is.
Known(E, most, mode, a, x, e) ==
    /\ e.kind \in EventKind
    /\ e.kind \notin HostEvent => a \in Engine /\ e.turn = x.turn /\ e.wait = x.wait
    /\ e.kind = "ToolCall" => /\ e.wait \in 1..most /\ WaitsOf(E) = 1..(e.wait - 1)
                              /\ e.wait \notin WaitsOf(E) /\ e.wait # 0
    /\ e.kind # "ToolCall" => e.wait = 0 \/ Own(E, e.wait, e.turn)
    /\ e.wait \notin WaitsOf(E) \/ Own(E, e.wait, e.turn)
    /\ e.kind \in LifecycleEvent => mode = "durable" /\ Own(E, e.wait, e.turn)
    /\ e.kind \in {"ApprovalRequested", "ApprovalDecision"} => mode = "blocking"

\* The event that is appended is one the actor prepared for the journal as it stands.
LEMMA AppendedEvent ==
    ASSUME NEW E, NEW p, NEW v, NEW most, NEW mode, NEW box, NEW ent, NEW a, NEW x,
           Appends(E, p, v, most, mode, box, ent, a, x)
    PROVE  Known(E, most, mode, a, x, x.event)
<1> DEFINE e == x.event
<1>1. PreparedOK(E, v, most, mode, box, a, x) /\ x.seen = v /\ most \in Nat
  BY Zenon DEF Appends, MemberOK
<1>2. e.kind \in EventKind
  BY Zenon, <1>1 DEF PreparedOK, ShapeOK, HostEvent, EventKind
<1>3. e.kind = "ToolCall" => e.wait \in 1..most /\ WaitsOf(E) = 1..(e.wait - 1)
  BY Zenon, <1>1 DEF PreparedOK
<1>4. e.kind = "ToolCall" => e.wait \notin WaitsOf(E) /\ e.wait # 0
  BY <1>1, <1>3
<1>5. 0 \notin WaitsOf(E)
  BY Zenon DEF WaitsOf
<1>6. LifecycleEvent \cap {"ToolCall"} = {}
  BY Zenon DEF LifecycleEvent
<1>7. e.kind \notin HostEvent => a \in Engine /\ e.turn = x.turn /\ e.wait = x.wait
  BY Zenon, <1>1 DEF PreparedOK
<1> QED BY Zenon, <1>1, <1>2, <1>3, <1>4, <1>5, <1>6, <1>7 DEF PreparedOK, Known

\* The journal after the append: waits began before they were decided, and the two ways
\* of waiting do not meet.
LEMMA EventsKept ==
    ASSUME NEW E, NEW p, NEW v, NEW most, NEW mode, NEW box, NEW ent, NEW a, NEW x,
           Appends(E, p, v, most, mode, box, ent, a, x), NEW q, q = apply_events(p, x.event)
    PROVE  EventsOK(E \cup {x.event}, q, mode) /\ q.turns \in Nat /\ q.turns >= p.turns
<1> DEFINE e == x.event
<1>1. ProjectionOK(p) /\ Replays(p, e) /\ Fits(p, e) /\ EventsOK(E, p, mode) /\ ExecutionOK(E, p, box)
      /\ PreparedOK(E, v, most, mode, box, a, x)
  BY Zenon DEF Appends, MemberOK
<1>2. q.turns \in Nat /\ q.turns >= p.turns /\ p.turns \in Nat /\ p.running \in Nat /\ p.running <= p.turns
  BY Zenon, <1>1, ApplyKeepsProjection DEF ProjectionOK
<1>k. Known(E, most, mode, a, x, e)
  BY Zenon, AppendedEvent
<1>3. e.kind \in EventKind /\ (e.kind \in LifecycleEvent => mode = "durable" /\ Own(E, e.wait, e.turn))
      /\ (e.kind = "ApprovalDecision" => mode = "blocking")
  BY Zenon, <1>k DEF Known
<1>f. Applied(p, e, q)
  BY Zenon, <1>1, AppliedFields
<1>4. e.turn \in Nat /\ e.turn <= q.turns
  <2>1. CASE e.kind = "Checkpoint"
    BY <1>1, <1>2, <2>1 DEF PreparedOK
  <2>2. CASE e.kind = "TurnStarted"
    BY <2>2, <1>f DEF Applied
  <2>3. CASE e.kind \notin {"Checkpoint", "TurnStarted"}
    <3>1. e.turn = p.running /\ q.turns >= p.turns
      BY Zenon, <1>2, <1>3, <1>f, <2>3 DEF Applied, EventKind, ItemEvent, TerminalEvent
    <3> HIDE DEF e
    <3> QED BY <1>2, <3>1
  <2> QED BY Zenon, <2>1, <2>2, <2>3
<1>5. e.kind \in LifecycleEvent => Seen(E \cup {e}, {"WaitStarted"}, e.wait)
  <2>1. CASE e.kind = "WaitStarted"
    BY Zenon, <2>1, SeenGrows
  <2>2. CASE e.kind \in {"AcceptResume", "ClaimReady", "WaitClosed", "DenyWait"}
    <3>1. p.running = e.turn /\ p.wait = e.wait /\ p.exec # "none"
      BY Zenon, <1>f, <2>2 DEF Applied, TerminalEvent
    <3>3. Seen(E, {"WaitStarted"}, p.wait)
      BY Zenon, <1>1, <3>1 DEF ExecutionOK, RunningOK
    <3> QED BY Zenon, <3>1, <3>3, SeenGrows
  <2> QED BY Zenon, <2>1, <2>2 DEF LifecycleEvent
<1>6. ASSUME NEW f \in E PROVE f.turn \in Nat /\ f.turn <= q.turns
  BY <1>1, <1>2 DEF EventsOK
<1>7. ASSUME NEW f \in E, f.kind \in LifecycleEvent
      PROVE  mode = "durable" /\ Seen(E \cup {e}, {"WaitStarted"}, f.wait)
  BY Zenon, <1>1, <1>7, SeenGrows DEF EventsOK
<1> HIDE DEF e
<1>8. EventsOK(E \cup {e}, q, mode)
  BY Zenon, <1>1, <1>3, <1>4, <1>5, <1>6, <1>7 DEF EventsOK
<1> QED BY Zenon, <1>2, <1>8 DEF e

\* The execution after the append.
LEMMA ExecutionKept ==
    ASSUME NEW E, NEW p, NEW v, NEW most, NEW mode, NEW box, NEW ent, NEW a, NEW x,
           Appends(E, p, v, most, mode, box, ent, a, x), NEW q, q = apply_events(p, x.event)
    PROVE  ExecutionOK(E \cup {x.event}, q, box)
<1> DEFINE e == x.event
           F == E \cup {e}
<1> SUFFICES ExecutionOK(F, q, box)
  BY Zenon
<1>1. ProjectionOK(p) /\ Replays(p, e) /\ Fits(p, e) /\ EventsOK(E, p, mode) /\ ExecutionOK(E, p, box)
      /\ PreparedOK(E, v, most, mode, box, a, x) /\ x.pc = "commit"
  BY Zenon DEF Appends, MemberOK
<1>k. Known(E, most, mode, a, x, e)
  BY Zenon, AppendedEvent
<1>2. /\ e.kind \in EventKind
      /\ e.kind # "ToolCall" => e.wait = 0 \/ Own(E, e.wait, e.turn)
      /\ e.wait \notin WaitsOf(E) \/ Own(E, e.wait, e.turn)
      /\ e.kind \in LifecycleEvent => mode = "durable" /\ Own(E, e.wait, e.turn)
      /\ e.kind \in {"ApprovalRequested", "ApprovalDecision"} => mode = "blocking"
      /\ e.kind \notin HostEvent => a \in Engine /\ e.turn = x.turn /\ e.wait = x.wait
  BY Zenon, <1>k DEF Known
<1>f. Applied(p, e, q)
  BY Zenon, <1>1, AppliedFields
<1>3. p.running \in Nat
  BY Zenon, <1>1 DEF ProjectionOK
<1>4. /\ \A k, t : Own(E, k, t) => Own(F, k, t)
      /\ \A kinds, k : Seen(F, kinds, k) <=> Seen(E, kinds, k) \/ (e.kind \in kinds /\ e.wait = k)
      /\ \A f \in F : f \in E \/ f = e
  BY Zenon, <1>2, OwnKept, SeenGrows
<1> HIDE DEF F
\* A Tool call that is asked about is neither waited for nor decided.
<1>5. e.kind \in {"WaitStarted", "ApprovalRequested", "ApprovalDecision"} =>
         /\ ~Seen(E, {"WaitStarted", "ApprovalDecision"}, e.wait)
         /\ Own(E, e.wait, e.turn)
  <2> SUFFICES ASSUME e.kind \in {"WaitStarted", "ApprovalRequested", "ApprovalDecision"}
               PROVE  /\ ~Seen(E, {"WaitStarted", "ApprovalDecision"}, e.wait)
                      /\ Own(E, e.wait, e.turn)
    BY Zenon
  <2>1. a \in Engine /\ e.turn = x.turn /\ e.wait = x.wait
    BY Zenon, <1>2 DEF HostEvent
  <2>2. PlacedOK(E, p, mode, box, ent, x)
    BY Zenon, <2>1 DEF Appends, MemberOK
  <2>3. Undecided(x)
    BY Zenon, <1>1 DEF Undecided, Preparing
  <2>4. p.running = e.turn
    BY Zenon, <1>f DEF Applied, ItemEvent
  <2> HIDE DEF e
  <2> QED BY Zenon, <2>1, <2>2, <2>3, <2>4 DEF PlacedOK
<1>6. CASE e.kind \in TerminalEvent
  <2>1. q.running = 0 /\ q.exec = "none"
    BY Zenon, <1>f, <1>6 DEF Applied
  <2>2. ~(q.running > 0)
    BY <2>1
  <2> QED BY Zenon, <2>1, <2>2 DEF ExecutionOK
<1>7. CASE e.kind = "TurnStarted"
  <2>1. q.running = e.turn /\ q.exec = "none" /\ q.last = "none" /\ e.turn \in Nat /\ e.turn > p.turns
    BY Zenon, <1>f, <1>7 DEF Applied
  <2>2. p.turns \in Nat
    BY Zenon, <1>1 DEF ProjectionOK
  <2>3. \A f \in F : f.kind = "WaitStarted" => f.turn # q.running
    BY <1>1, <1>4, <1>7, <2>1, <2>2 DEF EventsOK
  <2> QED BY Zenon, <2>1, <2>3 DEF ExecutionOK, RunningOK
<1>8. CASE e.kind = "Checkpoint"
  <2>1. q = p
    BY Zenon, <1>f, <1>8 DEF Applied
  <2>2. \A kinds, k : "Checkpoint" \notin kinds => (Seen(F, kinds, k) <=> Seen(E, kinds, k))
    BY Zenon, <1>4, <1>8
  <2>3. \A f \in F : f.kind = "WaitStarted" => f \in E
    BY Zenon, <1>4, <1>8
  <2>4. "Checkpoint" \notin {"ClaimReady", "WaitClosed", "DenyWait"} /\ "Checkpoint" \notin {"WaitStarted"}
        /\ "Checkpoint" \notin {"ApprovalDecision"}
    BY Zenon
  <2> QED BY Zenon, <1>1, <1>4, <2>1, <2>2, <2>3, <2>4 DEF ExecutionOK, RunningOK
<1>9. CASE e.kind = "WaitStarted"
  <2>1. q.running = p.running /\ q.exec = "Waiting" /\ q.wait = e.wait /\ q.rev = 1
        /\ q.last = "WaitStarted" /\ p.running = e.turn
    BY Zenon, <1>f, <1>9 DEF Applied
  <2>2. Own(F, e.wait, e.turn) /\ ~Seen(E, {"WaitStarted", "ApprovalDecision"}, e.wait)
    BY Zenon, <1>4, <1>5, <1>9
  <2>3. ~Seen(F, {"ClaimReady", "WaitClosed", "DenyWait"}, e.wait)
    <3> SUFFICES ASSUME Seen(E, {"ClaimReady", "WaitClosed", "DenyWait"}, e.wait) PROVE FALSE
      BY <1>4, <1>9
    <3>1. PICK f \in E : f.kind \in {"ClaimReady", "WaitClosed", "DenyWait"} /\ f.wait = e.wait
      BY Zenon DEF Seen
    <3>2. Seen(E, {"WaitStarted"}, e.wait)
      BY Zenon, <1>1, <3>1 DEF EventsOK, LifecycleEvent
    <3> QED BY Zenon, <2>2, <3>2 DEF Seen
  <2>4. Seen(F, {"WaitStarted"}, e.wait)
    BY Zenon, <1>4, <1>9
  <2>5. a \in Engine /\ e.turn = x.turn
    BY Zenon, <1>2, <1>9 DEF HostEvent
  <2>6. q.running > 0
    BY Zenon, <2>1, <2>5 DEF Appends
  <2> HIDE DEF e
  <2> QED BY Zenon, <2>1, <2>2, <2>3, <2>4, <2>6 DEF ExecutionOK, RunningOK
<1>10. CASE e.kind = "AcceptResume"
  <2>1. /\ q.running = p.running /\ q.exec = "Ready" /\ q.wait = p.wait /\ q.rev = p.rev + 1
        /\ q.decision = e.what /\ q.last = "AcceptResume"
        /\ p.running = e.turn /\ p.wait = e.wait /\ p.exec = "Waiting"
    BY Zenon, <1>f, <1>10 DEF Applied
  <2>2. RunningOK(E, p, box) /\ p.running > 0
    BY Zenon, <1>1, <2>1 DEF ExecutionOK
  <2>3. /\ p.rev = 1 /\ Seen(E, {"WaitStarted"}, p.wait) /\ Own(E, p.wait, p.running)
        /\ ~Seen(E, {"ClaimReady", "WaitClosed", "DenyWait"}, p.wait)
    BY Zenon, <2>1, <2>2 DEF RunningOK
  <2>4. q.decision # "Deny" => box[q.wait] = "Approve"
    BY Zenon, <1>1, <1>10, <2>1 DEF PreparedOK
  <2>5. /\ Seen(F, {"WaitStarted"}, p.wait) /\ Own(F, p.wait, p.running)
        /\ ~Seen(F, {"ClaimReady", "WaitClosed", "DenyWait"}, p.wait)
    BY Zenon, <1>4, <1>10, <2>3
  <2> HIDE DEF e
  <2>6. q.rev = 2
    BY <2>1, <2>3
  <2> QED BY Zenon, <2>1, <2>2, <2>4, <2>5, <2>6 DEF ExecutionOK, RunningOK
<1>11. CASE e.kind = "ClaimReady"
  <2>1. /\ q.running = p.running /\ q.exec = "Executing" /\ q.wait = p.wait /\ q.last = "ClaimReady"
        /\ p.exec = "Ready"
    BY Zenon, <1>f, <1>11 DEF Applied
  <2>2. RunningOK(E, p, box) /\ p.running > 0
    BY Zenon, <1>1, <2>1 DEF ExecutionOK
  <2>3. Seen(F, {"WaitStarted"}, p.wait) /\ Own(F, p.wait, p.running)
    BY Zenon, <1>4, <2>1, <2>2 DEF RunningOK
  <2> HIDE DEF e
  <2> QED BY Zenon, <2>1, <2>2, <2>3 DEF ExecutionOK, RunningOK
<1>12. CASE e.kind \in ItemEvent
  <2>1. /\ q.running = p.running /\ q.exec = p.exec /\ q.wait = p.wait /\ q.rev = p.rev
        /\ q.decision = p.decision /\ q.last = e.kind /\ q.asked = e.wait /\ p.running = e.turn
    BY Zenon, <1>f, <1>12 DEF Applied
  <2>2. a \in Engine /\ e.turn = x.turn
    BY Zenon, <1>2, <1>12 DEF HostEvent, ItemEvent
  <2>3. p.running > 0 /\ RunningOK(E, p, box)
    BY Zenon, <1>1, <2>1, <2>2 DEF Appends, ExecutionOK
  <2>4. \A k : /\ Seen(F, {"WaitStarted"}, k) <=> Seen(E, {"WaitStarted"}, k)
               /\ Seen(F, {"ClaimReady", "WaitClosed", "DenyWait"}, k)
                     <=> Seen(E, {"ClaimReady", "WaitClosed", "DenyWait"}, k)
    BY <1>4, <1>12 DEF ItemEvent
  <2>5. \A f \in F : f.kind = "WaitStarted" => f \in E
    BY Zenon, <1>4, <1>12 DEF ItemEvent
  <2>6. e.kind = "ApprovalRequested" =>
           /\ p.exec = "none" /\ Own(F, e.wait, e.turn) /\ ~Seen(F, {"ApprovalDecision"}, e.wait)
    <3> SUFFICES ASSUME e.kind = "ApprovalRequested"
                 PROVE  /\ p.exec = "none" /\ Own(F, e.wait, e.turn)
                        /\ ~Seen(F, {"ApprovalDecision"}, e.wait)
      BY Zenon
    <3>1. Own(F, e.wait, e.turn) /\ ~Seen(E, {"WaitStarted", "ApprovalDecision"}, e.wait)
      BY Zenon, <1>4, <1>5
    <3>2. ~Seen(E, {"ApprovalDecision"}, e.wait)
      BY Zenon, <3>1 DEF Seen
    <3>3. ~Seen(F, {"ApprovalDecision"}, e.wait)
      BY <1>4, <3>2
    <3>4. mode = "blocking"
      BY Zenon, <1>2
    <3>5. p.exec = "none"
      <4>1. ASSUME Seen(E, {"WaitStarted"}, p.wait) PROVE FALSE
        BY Zenon, <1>1, <3>4, <4>1 DEF Seen, EventsOK, LifecycleEvent
      <4> QED BY Zenon, <2>3, <4>1 DEF RunningOK
    <3> QED BY Zenon, <3>1, <3>3, <3>5
  <2> HIDE DEF e
  <2> QED BY Zenon, <1>4, <2>1, <2>3, <2>4, <2>5, <2>6 DEF ExecutionOK, RunningOK
<1> QED BY Zenon, <1>2, <1>6, <1>7, <1>8, <1>9, <1>10, <1>11, <1>12 DEF EventKind, ItemEvent, TerminalEvent

\* A worker with an undecided call holds its Turn, which has been started.
LEMMA UndecidedHolds ==
    ASSUME NEW E, NEW x, Undecided(x)
    PROVE  Holds(E, x) /\ x.pc # "idle" /\ ~Preparing(x, {"TurnStarted"})
  BY Zenon DEF Undecided, Holds, Carrying, Preparing, ItemEvent

\* The Turn that runs after event e.
RunsAfter(p, e, q) ==
    /\ e.kind = "TurnStarted" => q.running > p.turns
    /\ e.kind \in TerminalEvent => q.running = 0
    /\ e.kind \notin TerminalEvent \cup {"TurnStarted"} => q.running = p.running

\* The Turn that runs after the append.
LEMMA RunningAfter ==
    ASSUME NEW E, NEW p, NEW v, NEW most, NEW mode, NEW box, NEW ent, NEW a, NEW x,
           Appends(E, p, v, most, mode, box, ent, a, x), NEW q, q = apply_events(p, x.event)
    PROVE  RunsAfter(p, x.event, q)
<1>1. ProjectionOK(p) /\ Replays(p, x.event) /\ Fits(p, x.event)
  BY Zenon DEF Appends
<1>2. Known(E, most, mode, a, x, x.event)
  BY Zenon, AppendedEvent
<1>3. Applied(p, x.event, q)
  BY Zenon, <1>1, AppliedFields
<1>4. x.event.kind = "TurnStarted" => q.running > p.turns
  BY Zenon, <1>3 DEF Applied
<1> QED BY Zenon, <1>2, <1>3, <1>4 DEF RunsAfter, Applied, Known, EventKind, TerminalEvent, ItemEvent

\* A wait that is closed or denied has not been claimed or decided.
LEMMA ClosedUnclaimed ==
    ASSUME NEW E, NEW p, NEW v, NEW most, NEW mode, NEW box, NEW ent, NEW a, NEW x,
           Appends(E, p, v, most, mode, box, ent, a, x),
           x.event.kind \in {"ClaimReady", "WaitClosed", "DenyWait"}
    PROVE  /\ ~Seen(E, {"ClaimReady", "ApprovalDecision"}, x.event.wait)
           /\ ~Seen(E, {"WaitClosed", "DenyWait"}, x.event.wait)
<1> DEFINE e == x.event
<1>1. ProjectionOK(p) /\ Replays(p, e) /\ Fits(p, e) /\ EventsOK(E, p, mode) /\ ExecutionOK(E, p, box)
  BY Zenon DEF Appends
<1>f. Applied(p, e, apply_events(p, e))
  BY Zenon, <1>1, AppliedFields
<1>2. p.wait = e.wait /\ p.exec \in {"Waiting", "Ready"}
  BY Zenon, <1>f DEF Applied, TerminalEvent
<1>k. Known(E, most, mode, a, x, e)
  BY Zenon, AppendedEvent
<1>3. mode = "durable"
  BY Zenon, <1>k DEF Known, LifecycleEvent
<1>4. RunningOK(E, p, box)
  BY Zenon, <1>1, <1>2 DEF ExecutionOK
<1>5. ~Seen(E, {"ClaimReady", "WaitClosed", "DenyWait"}, e.wait)
  BY Zenon, <1>2, <1>4 DEF RunningOK
<1>6. \A f \in E : f.kind # "ApprovalDecision"
  BY Zenon, <1>1, <1>3 DEF EventsOK
<1> QED BY Zenon, <1>5, <1>6 DEF Seen

\* What another actor b, in state y, knows is still true after the append by a.
LEMMA PlacedKept ==
    ASSUME NEW E, NEW p, NEW v, NEW most, NEW mode, NEW box, NEW ent, NEW a, NEW x,
           Appends(E, p, v, most, mode, box, ent, a, x), NEW q, q = apply_events(p, x.event),
           NEW y, PlacedOK(E, p, mode, box, ent, y),
           y.pc # "idle" => y.turn \in Nat /\ y.turn > 0,
           a \in Engine /\ Holds(E, x) /\ Holds(E, y) /\ x.turn = p.running => y.turn # p.running
    PROVE  PlacedOK(E \cup {x.event}, q, mode, box, ent, y)
<1> DEFINE e == x.event
           F == E \cup {e}
<1> SUFFICES PlacedOK(F, q, mode, box, ent, y)
  BY Zenon
<1>k. Known(E, most, mode, a, x, e)
  BY Zenon, AppendedEvent
<1>1. /\ e.kind \in EventKind
      /\ e.wait \notin WaitsOf(E) \/ Own(E, e.wait, e.turn)
      /\ e.kind \notin HostEvent => a \in Engine /\ e.turn = x.turn
  BY Zenon, <1>k DEF Known
<1>f. Applied(p, e, q)
  BY Zenon, AppliedFields DEF Appends
<1>2. /\ \A k, t : Own(E, k, t) => Own(F, k, t)
      /\ \A kinds, k : Seen(F, kinds, k) <=> Seen(E, kinds, k) \/ (e.kind \in kinds /\ e.wait = k)
  BY Zenon, <1>1, OwnKept, SeenGrows
<1>3. q.turns \in Nat /\ q.turns >= p.turns /\ p.turns \in Nat
  BY Zenon, EventsKept DEF Appends, ProjectionOK
<1> HIDE DEF F
<1>4. y.pc # "idle" /\ ~Preparing(y, {"TurnStarted"}) => y.turn <= q.turns
  BY <1>3 DEF PlacedOK
<1>5. ASSUME Undecided(y), y.turn = q.running
      PROVE  ~Seen(F, {"WaitStarted", "ApprovalDecision"}, y.wait)
  <2>1. Holds(E, y) /\ y.turn \in Nat /\ y.turn > 0 /\ y.turn <= p.turns
    BY Zenon, <1>5, UndecidedHolds DEF PlacedOK
  <2>2. q.running = p.running
    <3>1. RunsAfter(p, e, q)
      BY Zenon, RunningAfter
    <3>2. q.running # 0 /\ ~(q.running > p.turns)
      BY <1>3, <1>5, <2>1
    <3> QED BY Zenon, <3>1, <3>2 DEF RunsAfter
  <2>3. ~Seen(E, {"WaitStarted", "ApprovalDecision"}, y.wait)
    BY Zenon, <1>5, <2>2 DEF PlacedOK
  <2>4. ASSUME e.kind \in {"WaitStarted", "ApprovalDecision"} PROVE FALSE
    <3>1. a \in Engine /\ e.turn = x.turn
      BY Zenon, <1>1, <2>4 DEF HostEvent
    <3>2. p.running = e.turn
      BY Zenon, <1>f, <2>4 DEF Applied, ItemEvent
    <3>3. Holds(E, x)
      BY Zenon, <2>4 DEF Appends, Holds, Preparing, ItemEvent
    <3> HIDE DEF e
    <3> QED BY Zenon, <1>5, <2>1, <2>2, <3>1, <3>2, <3>3
  <2> QED BY Zenon, <1>2, <2>3, <2>4
<1>6. ASSUME y.pc = "tool" PROVE MayEnter(F, box, ent, y.wait)
  <2>1. MayEnter(E, box, ent, y.wait)
    BY Zenon, <1>6 DEF PlacedOK
  <2>2. ASSUME e.kind \in {"WaitClosed", "DenyWait"} PROVE e.wait # y.wait
    BY Zenon, <2>1, <2>2, ClosedUnclaimed DEF MayEnter
  <2> HIDE DEF e
  <2> QED BY Zenon, <1>2, <2>1, <2>2 DEF MayEnter
<1> HIDE DEF e
<1> QED BY Zenon, <1>2, <1>4, <1>5, <1>6 DEF PlacedOK

LEMMA PreparedKept ==
    ASSUME NEW E, NEW p, NEW v, NEW most, NEW mode, NEW box, NEW ent, NEW a, NEW x,
           Appends(E, p, v, most, mode, box, ent, a, x), v \in Nat,
           NEW b, b # a, NEW y, y.seen \in 0..v, PreparedOK(E, v, most, mode, box, b, y)
    PROVE  PreparedOK(E \cup {x.event}, v + 1, most, mode, box, b, y)
<1> DEFINE e == x.event
           F == E \cup {e}
<1> SUFFICES PreparedOK(F, v + 1, most, mode, box, b, y)
  BY Zenon
<1>k. Known(E, most, mode, a, x, e)
  BY Zenon, AppendedEvent
<1>1. /\ e.wait \notin WaitsOf(E) \/ Own(E, e.wait, e.turn)
      /\ e.kind \notin HostEvent => a \in Engine
  BY Zenon, <1>k DEF Known
<1>2. \A k, t : Own(E, k, t) => Own(F, k, t)
  BY Zenon, <1>1, OwnKept
<1>3. y.seen # v + 1
  OBVIOUS
<1>4. ASSUME b \in Engine, ShapeOK(E, box, b, y) PROVE ShapeOK(F, box, b, y)
  <2>1. ASSUME y.event.kind = "ClaimReady", y.event.by = b PROVE y.event # e
    <3>1. ASSUME e.kind = "ClaimReady" PROVE e.by = a
      <4>1. PreparedOK(E, v, most, mode, box, a, x) /\ a \in Engine
        BY Zenon, <1>1, <3>1 DEF Appends, MemberOK, HostEvent
      <4> QED BY Zenon, <3>1, <4>1 DEF PreparedOK, ShapeOK
    <3> QED BY Zenon, <2>1, <3>1
  <2>2. CASE y.event.kind = "ClaimReady"
    <3>1. /\ y.ok = "tool" /\ y.err = "idle" /\ y.event.by = b /\ y.event \notin E
          /\ box[y.event.wait] = "Approve"
      BY Zenon, <1>4, <2>2 DEF ShapeOK
    <3>2. y.event \notin F
      BY Zenon, <2>1, <2>2, <3>1
    <3> HIDE DEF F
    <3> QED BY Zenon, <2>2, <3>1, <3>2 DEF ShapeOK
  <2>3. CASE y.event.kind # "ClaimReady"
    <3> HIDE DEF F
    <3> QED BY Zenon, <1>4, <2>3 DEF ShapeOK
  <2> QED BY Zenon, <2>2, <2>3
<1> HIDE DEF F
<1> QED BY Zenon, <1>2, <1>3, <1>4 DEF PreparedOK

\* The state y that worker a continues in, after the append of the event it had in x.
Continues(x, y) ==
    /\ y.pc \in {x.ok, x.err}
    /\ y.pc # "idle" => y.turn = x.turn /\ y.wait = x.wait

\* A worker that is sent to its Tool is the first: the wait was not claimed, decided,
\* closed or denied before.
LEMMA FirstToEnter ==
    ASSUME NEW E, NEW p, NEW v, NEW most, NEW mode, NEW box, NEW ent, NEW a \in Engine, NEW x,
           Appends(E, p, v, most, mode, box, ent, a, x), "tool" \in {x.ok, x.err}
    PROVE  /\ x.event.kind \in {"ClaimReady", "ApprovalDecision"}
           /\ Own(E, x.event.wait, x.event.turn) /\ box[x.event.wait] = "Approve"
           /\ ~Seen(E, {"ClaimReady", "ApprovalDecision"}, x.event.wait)
           /\ ~Seen(E, {"WaitClosed", "DenyWait"}, x.event.wait)
<1> DEFINE e == x.event
<1>1. PreparedOK(E, v, most, mode, box, a, x) /\ EventsOK(E, p, mode) /\ PlacedOK(E, p, mode, box, ent, x)
      /\ x.pc = "commit"
  BY Zenon DEF Appends, MemberOK
<1>2. e.kind \in {"ClaimReady", "ApprovalDecision"} /\ box[e.wait] = "Approve"
  BY Zenon, <1>1 DEF PreparedOK, ShapeOK
<1>k. Known(E, most, mode, a, x, e)
  BY Zenon, AppendedEvent
<1>3. /\ e.kind # "ToolCall" => e.wait = 0 \/ Own(E, e.wait, e.turn)
      /\ e.kind \in LifecycleEvent => Own(E, e.wait, e.turn)
      /\ e.kind = "ApprovalDecision" => mode = "blocking"
      /\ e.turn = x.turn /\ e.wait = x.wait
  BY Zenon, <1>2, <1>k DEF Known, HostEvent
<1>f. Applied(p, e, apply_events(p, e))
  BY Zenon, AppliedFields DEF Appends
<1>4. CASE e.kind = "ClaimReady"
  BY Zenon, <1>2, <1>3, <1>4, ClosedUnclaimed DEF LifecycleEvent
<1>5. CASE e.kind = "ApprovalDecision"
  <2>1. Undecided(x)
    BY Zenon, <1>1, <1>5 DEF Undecided, Preparing
  <2>2. p.running = e.turn
    BY Zenon, <1>5, <1>f DEF Applied, ItemEvent
  <2>3. Own(E, e.wait, e.turn) /\ ~Seen(E, {"WaitStarted", "ApprovalDecision"}, e.wait)
    BY Zenon, <1>1, <1>3, <2>1, <2>2 DEF PlacedOK
  <2>4. \A f \in E : f.kind \notin LifecycleEvent
    BY Zenon, <1>1, <1>3, <1>5 DEF EventsOK
  <2>5. \A f \in E : f.kind \notin {"ClaimReady", "WaitClosed", "DenyWait"}
    BY Zenon, <2>4 DEF LifecycleEvent
  <2> QED BY Zenon, <1>2, <2>3, <2>5 DEF Seen
<1> QED BY Zenon, <1>2, <1>4, <1>5

\* What the worker knows where it continues.
LEMMA ContinuerPlaced ==
    ASSUME NEW E, NEW p, NEW v, NEW most, NEW mode, NEW box, NEW ent, NEW a \in Engine, NEW x,
           Appends(E, p, v, most, mode, box, ent, a, x), NEW q, q = apply_events(p, x.event),
           WaitsOf(E) \subseteq 1..most,
           \A k \in 1..most : ent[k] \in Nat /\ OnceApproved(E, box, ent, k),
           NEW y, Continues(x, y)
    PROVE  y.pc # "commit" /\ PlacedOK(E \cup {x.event}, q, mode, box, ent, y)
<1> DEFINE e == x.event
           F == E \cup {e}
<1>1. PreparedOK(E, v, most, mode, box, a, x) /\ PlacedOK(E, p, mode, box, ent, x) /\ x.pc = "commit"
  BY Zenon DEF Appends, MemberOK
<1>2. ShapeOK(E, box, a, x) /\ e.turn = x.turn /\ e.wait = x.wait
  BY Zenon, <1>1 DEF PreparedOK
<1>k. Known(E, most, mode, a, x, e)
  BY Zenon, AppendedEvent
<1>3. /\ e.wait \notin WaitsOf(E) \/ Own(E, e.wait, e.turn)
      /\ e.kind = "ToolCall" => e.wait \notin WaitsOf(E) /\ e.wait # 0
      /\ e.kind \in LifecycleEvent => Own(E, e.wait, e.turn)
      /\ e.kind \in {"ApprovalRequested", "ApprovalDecision"} => mode = "blocking"
  BY Zenon, <1>k DEF Known
<1>f. Applied(p, e, q)
  BY Zenon, AppliedFields DEF Appends
<1>4. /\ \A k, t : Own(E, k, t) => Own(F, k, t)
      /\ \A kinds, k : Seen(F, kinds, k) <=> Seen(E, kinds, k) \/ (e.kind \in kinds /\ e.wait = k)
  BY Zenon, <1>3, OwnKept, SeenGrows
<1>5. q.turns \in Nat /\ q.turns >= p.turns /\ p.turns \in Nat
  BY Zenon, EventsKept DEF Appends, ProjectionOK
<1>6. y.pc # "idle" => y.turn = e.turn /\ y.wait = e.wait
  BY Zenon, <1>2 DEF Continues
<1>7. y.pc # "idle" => y.turn <= q.turns
  <2> SUFFICES ASSUME y.pc # "idle" PROVE e.turn <= q.turns
    BY Zenon, <1>6
  <2>1. CASE e.kind = "TurnStarted"
    <3>1. e.turn = q.turns
      BY Zenon, <1>f, <2>1 DEF Applied
    <3> HIDE DEF e
    <3> QED BY <1>5, <3>1
  <2>2. CASE e.kind # "TurnStarted"
    <3>1. e.turn <= p.turns
      BY Zenon, <1>1, <1>2, <2>2 DEF PlacedOK, Preparing
    <3>2. e.turn \in Nat
      BY Zenon, <1>2 DEF Appends
    <3> HIDE DEF e
    <3> QED BY <1>5, <3>1, <3>2
  <2> QED BY Zenon, <2>1, <2>2
\* Where a worker continues says what it appended.
<1>8. /\ y.pc \in {"idle", "agent", "ask", "finish", "decide", "erring", "tool", "submit",
                   "unstarted", "claim", "abandon"}
      /\ y.pc = "ask" => e.kind = "ToolCall"
      /\ y.pc = "decide" => e.kind = "ApprovalRequested"
      /\ y.pc \in {"submit", "unstarted", "claim"} => e.kind \in LifecycleEvent
  BY Zenon, <1>2 DEF ShapeOK, Continues, LifecycleEvent
<1>9. y.pc = "ask" => Own(F, e.wait, e.turn) /\ ~Seen(F, {"WaitStarted", "ApprovalDecision"}, e.wait)
  <2> SUFFICES ASSUME e.kind = "ToolCall"
               PROVE  Own(F, e.wait, e.turn) /\ ~Seen(F, {"WaitStarted", "ApprovalDecision"}, e.wait)
    BY Zenon, <1>8
  <2>1. \A f \in E : f.wait # e.wait
    BY Zenon, <1>3 DEF WaitsOf
  <2> QED BY Zenon, <1>3, <2>1 DEF Own, WaitsOf, Seen
<1>10. y.pc = "decide" =>
          /\ Own(F, e.wait, e.turn) /\ mode = "blocking"
          /\ y.turn = q.running => ~Seen(F, {"WaitStarted", "ApprovalDecision"}, e.wait)
  <2> SUFFICES ASSUME e.kind = "ApprovalRequested"
               PROVE  /\ Own(F, e.wait, e.turn) /\ mode = "blocking"
                      /\ ~Seen(F, {"WaitStarted", "ApprovalDecision"}, e.wait)
    BY Zenon, <1>8
  <2>1. p.running = e.turn /\ Undecided(x)
    BY Zenon, <1>1, <1>f DEF Applied, Undecided, Preparing, ItemEvent
  <2>2. Own(E, e.wait, e.turn) /\ ~Seen(E, {"WaitStarted", "ApprovalDecision"}, e.wait)
    BY Zenon, <1>1, <1>2, <2>1 DEF PlacedOK
  <2> QED BY Zenon, <1>3, <1>4, <2>2
<1>11. y.pc = "tool" => MayEnter(F, box, ent, e.wait) /\ Own(F, e.wait, e.turn)
  <2> SUFFICES ASSUME y.pc = "tool" PROVE MayEnter(F, box, ent, e.wait) /\ Own(F, e.wait, e.turn)
    BY Zenon
  <2>1. /\ e.kind \in {"ClaimReady", "ApprovalDecision"}
        /\ Own(E, e.wait, e.turn) /\ box[e.wait] = "Approve"
        /\ ~Seen(E, {"ClaimReady", "ApprovalDecision"}, e.wait)
        /\ ~Seen(E, {"WaitClosed", "DenyWait"}, e.wait)
    BY Zenon, FirstToEnter DEF Continues
  <2>2. ent[e.wait] \in Nat /\ OnceApproved(E, box, ent, e.wait)
    BY Zenon, <2>1 DEF Own
  <2>3. ent[e.wait] = 0
    BY <2>1, <2>2 DEF OnceApproved
  <2> QED BY Zenon, <1>4, <2>1, <2>3 DEF MayEnter
<1>12. y.pc \in {"submit", "unstarted", "claim"} => Own(F, e.wait, e.turn)
  BY Zenon, <1>3, <1>4, <1>8
<1> HIDE DEF e, F
<1>13. y.pc # "commit" /\ (Undecided(y) => y.pc \in {"ask", "decide"})
       /\ y.pc \notin {"poll", "tombstone", "decision", "accept", "evidence", "resubmit", "read",
                       "close", "deny", "result"}
  BY Zenon, <1>8 DEF Undecided, Preparing
<1>14. y.pc \in {"ask", "decide", "submit", "unstarted", "claim", "tool"} =>
          y.pc # "idle" /\ Own(F, y.wait, y.turn)
  BY Zenon, <1>6, <1>9, <1>10, <1>11, <1>12
<1>15. Undecided(y) /\ y.turn = q.running => ~Seen(F, {"WaitStarted", "ApprovalDecision"}, y.wait)
  BY Zenon, <1>6, <1>9, <1>10, <1>13
<1>16. PlacedOK(F, q, mode, box, ent, y)
  <2>1. y.pc = "tool" => MayEnter(F, box, ent, y.wait)
    BY Zenon, <1>6, <1>11
  <2>2. Undecided(y) \/ y.pc \in {"submit", "resubmit", "read", "evidence", "accept", "claim",
                                  "close", "deny", "tool", "result", "unstarted"}
          => Own(F, y.wait, y.turn)
    BY Zenon, <1>13, <1>14
  <2>3. y.pc \in {"decide", "poll", "tombstone", "decision"} => mode = "blocking"
    BY Zenon, <1>10, <1>13
  <2> QED BY Zenon, <1>7, <1>13, <1>15, <2>1, <2>2, <2>3 DEF PlacedOK
<1> QED BY Zenon, <1>13, <1>16 DEF e, F

\* A worker that holds a Turn holds one that was started.
LEMMA HolderStarted ==
    ASSUME NEW E, NEW x, Holds(E, x)
    PROVE  x.pc # "idle" /\ ~Preparing(x, {"TurnStarted"})
  BY Zenon DEF Holds, Carrying, Preparing, ItemEvent

\* State y of a worker continues the hold it had in state x, or the one it has just taken.
Continued(E, x, y) ==
    /\ Holds(E, x) \/ x.event.kind \in {"TurnStarted", "ClaimReady"}
    /\ x.event.kind # "WaitStarted" /\ y.turn = x.turn

\* Who holds the running Turn after the append: a worker that held it, or the one that
\* has started the Turn or claimed its wait.
LEMMA ContinuerHolds ==
    ASSUME NEW E, NEW p, NEW v, NEW most, NEW mode, NEW box, NEW ent, NEW a \in Engine, NEW x,
           Appends(E, p, v, most, mode, box, ent, a, x), NEW y, Continues(x, y),
           Holds(E \cup {x.event}, y)
    PROVE  Continued(E, x, y)
<1> DEFINE e == x.event
           F == E \cup {e}
<1>1. PreparedOK(E, v, most, mode, box, a, x) /\ x.pc = "commit"
  BY Zenon DEF Appends, MemberOK
<1>2. ShapeOK(E, box, a, x) /\ e.wait = x.wait
  BY Zenon, <1>1 DEF PreparedOK
<1>3. y.pc # "idle" /\ y.turn = x.turn /\ y.wait = x.wait
  BY Zenon, HolderStarted DEF Continues
<1>4. e.kind = "WaitStarted" => Seen(F, {"WaitStarted"}, y.wait)
  BY Zenon, <1>2, <1>3, SeenGrows
<1>5. ASSUME e.kind = "WaitStarted" PROVE FALSE
  <2>1. y.pc \in {"submit", "unstarted"}
    BY Zenon, <1>2, <1>5 DEF ShapeOK, Continues
  <2> QED BY Zenon, <1>4, <1>5, <2>1 DEF Holds, Carrying, Preparing
<1>6. e.kind \in {"AcceptResume", "WaitClosed", "DenyWait"} => y.pc \in {"idle", "claim", "abandon"}
  BY Zenon, <1>2 DEF ShapeOK, Continues
<1>7. e.kind \notin {"AcceptResume", "WaitClosed", "DenyWait"}
  BY Zenon, <1>6 DEF Holds, Carrying, Preparing
<1>8. e.kind \in EventKind /\ e.kind # "Checkpoint"
  BY Zenon, <1>2 DEF ShapeOK, EventKind
<1>9. Holds(E, x) \/ e.kind \in {"TurnStarted", "ClaimReady"}
  BY Zenon, <1>1, <1>7, <1>8 DEF Holds, Preparing, EventKind, ItemEvent
<1> QED BY Zenon, <1>3, <1>5, <1>9 DEF Continued

\* After an append too, no two workers hold the running Turn, none while it waits.
LEMMA PairsKept ==
    ASSUME NEW E, NEW p, NEW v, NEW most, NEW mode, NEW box, NEW ent, NEW act,
           NEW a \in DOMAIN act, Appends(E, p, v, most, mode, box, ent, a, act[a]),
           NEW q, q = apply_events(p, act[a].event), PairsOK(E, p, act),
           \A b \in Engine \cap DOMAIN act :
              /\ PlacedOK(E, p, mode, box, ent, act[b])
              /\ act[b].pc # "idle" => act[b].turn \in Nat /\ act[b].turn > 0,
           NEW new, DOMAIN new = DOMAIN act, \A b \in DOMAIN act \ {a} : new[b] = act[b],
           a \in Engine => Continues(act[a], new[a])
    PROVE  PairsOK(E \cup {act[a].event}, q, new)
<1> DEFINE x == act[a]
           e == x.event
           F == E \cup {e}
           W == Engine \cap DOMAIN act
           OldHolder(n) == Holds(E, act[n]) /\ act[n].turn = p.running
           Holder(n) == Holds(F, new[n]) /\ new[n].turn = q.running
<1>c. /\ e.kind \in EventKind /\ x.pc = "commit"
      /\ e.kind \notin HostEvent => a \in Engine /\ e.turn = x.turn /\ e.wait = x.wait
  <2>1. Appends(E, p, v, most, mode, box, ent, a, x)
    BY Zenon
  <2>2. x.pc = "commit"
    BY Zenon DEF Appends
  <2> HIDE DEF x
  <2>3. /\ e.kind \in EventKind
        /\ e.kind \notin HostEvent => a \in Engine /\ e.turn = x.turn /\ e.wait = x.wait
    <3>1. Known(E, most, mode, a, x, e)
      BY Zenon, <2>1, AppendedEvent
    <3> QED BY Zenon, <3>1 DEF Known
  <2> QED BY Zenon, <2>2, <2>3
<1>1. /\ e.kind = "TurnStarted" => q.running > p.turns /\ q.exec = "none"
      /\ e.kind \in TerminalEvent => q.running = 0
      /\ e.kind \notin TerminalEvent \cup {"TurnStarted"} => q.running = p.running
      /\ e.kind = "ClaimReady" => p.exec = "Ready" /\ q.exec = "Executing" /\ e.kind \notin TerminalEvent
      /\ p.exec \notin {"Waiting", "Ready"} /\ q.exec \in {"Waiting", "Ready"} =>
            e.kind = "WaitStarted" /\ p.running = e.turn
  <2>a. Appends(E, p, v, most, mode, box, ent, a, x) /\ q = apply_events(p, e)
    BY Zenon
  <2> HIDE DEF x
  <2>1. Applied(p, e, q)
    BY Zenon, <2>a, AppliedFields DEF Appends
  <2>2. /\ e.kind = "TurnStarted" => q.running > p.turns
        /\ e.kind \in TerminalEvent => q.running = 0
        /\ e.kind \notin TerminalEvent \cup {"TurnStarted"} => q.running = p.running
    <3>1. RunsAfter(p, e, q)
      BY Zenon, <2>a, RunningAfter
    <3> QED BY Zenon, <3>1 DEF RunsAfter
  <2>3. e.kind = "ClaimReady" =>
           p.exec = "Ready" /\ q.exec = "Executing" /\ e.kind \notin TerminalEvent
    BY Zenon, <2>1 DEF Applied, TerminalEvent
  <2>4. p.exec \notin {"Waiting", "Ready"} /\ q.exec \in {"Waiting", "Ready"} =>
           e.kind = "WaitStarted" /\ p.running = e.turn
    BY Zenon, <1>c, <2>1 DEF Applied, EventKind, ItemEvent, TerminalEvent
  <2> QED BY Zenon, <2>1, <2>2, <2>3, <2>4 DEF Applied
<1>2. p.turns \in Nat /\ p.running \in Nat /\ p.running <= p.turns
  BY Zenon DEF Appends, ProjectionOK
<1>3. ASSUME NEW n \in W, n # a, Holds(F, new[n])
      PROVE  Holds(E, act[n]) /\ new[n].turn = act[n].turn /\ act[n].turn \in Nat
             /\ act[n].turn > 0 /\ act[n].turn <= p.turns
  <2>1. new[n] = act[n]
    BY Zenon, <1>3
  <2>2. Holds(E, act[n])
    BY Zenon, <1>3, <2>1, SeenGrows DEF Holds
  <2>3. act[n].pc # "idle" /\ ~Preparing(act[n], {"TurnStarted"})
    BY Zenon, <2>2, HolderStarted
  <2> QED BY Zenon, <2>1, <2>2, <2>3 DEF PlacedOK
<1>4. ASSUME a \in Engine, Holds(F, new[a])
      PROVE  /\ Holds(E, x) \/ e.kind \in {"TurnStarted", "ClaimReady"}
             /\ e.kind # "WaitStarted" /\ new[a].turn = x.turn /\ x.turn \in Nat /\ x.turn > 0
  <2>1. Continues(x, new[a]) /\ x.turn \in Nat /\ x.turn > 0
        /\ Appends(E, p, v, most, mode, box, ent, a, x)
    BY Zenon, <1>4 DEF Appends
  <2> HIDE DEF x
  <2>2. Holds(E \cup {x.event}, new[a])
    BY Zenon, <1>4
  <2>3. Continued(E, x, new[a])
    BY Zenon, <1>4, <2>1, <2>2, ContinuerHolds
  <2> QED BY Zenon, <2>1, <2>3 DEF Continued
<1>a. a \in Engine => x.turn \in Nat /\ x.turn > 0
  BY Zenon DEF Appends
<1>b. /\ \A n, m \in W : n # m /\ OldHolder(n) => ~OldHolder(m)
      /\ p.running > 0 /\ p.exec \in {"Waiting", "Ready"} => \A n \in W : ~OldHolder(n)
      /\ \A n, m \in W : n # m /\ act[n].pc = "tool" /\ act[m].pc = "tool" => act[n].wait # act[m].wait
  BY Zenon DEF PairsOK
<1> HIDE DEF F
<1>5. ASSUME NEW n \in W, Holder(n)
      PROVE  /\ e.kind \notin TerminalEvent
             /\ e.kind = "TurnStarted" => n = a
             /\ e.kind # "TurnStarted" => q.running = p.running /\ p.running > 0
             /\ n # a => OldHolder(n)
             /\ n = a /\ e.kind # "TurnStarted" => OldHolder(a) \/ e.kind = "ClaimReady"
             /\ n = a => e.kind # "WaitStarted"
  <2>1. CASE n = a
    <3>1. e.kind \notin TerminalEvent
      <4>1. x.turn \in Nat /\ x.turn > 0 /\ x.turn = q.running
        BY Zenon, <1>4, <1>5, <2>1
      <4>2. q.running # 0
        BY <4>1
      <4> QED BY Zenon, <1>1, <4>2
    <3> QED BY Zenon, <1>1, <1>4, <1>5, <2>1, <3>1
  <2>2. CASE n # a
    <3>1. new[n].turn = act[n].turn /\ act[n].turn \in Nat
          /\ act[n].turn > 0 /\ act[n].turn <= p.turns /\ Holds(E, act[n])
      BY Zenon, <1>3, <1>5, <2>2
    <3>2. e.kind \notin TerminalEvent \cup {"TurnStarted"}
      <4>1. act[n].turn = q.running
        BY Zenon, <1>5, <3>1
      <4> HIDE DEF e, x
      <4>2. q.running # 0 /\ ~(q.running > p.turns)
        BY <1>2, <3>1, <4>1
      <4> QED BY Zenon, <1>1, <4>2
    <3> QED BY Zenon, <1>1, <1>5, <2>2, <3>1, <3>2
  <2> QED BY Zenon, <2>1, <2>2
<1> HIDE DEF Holder, OldHolder, e
<1>6. ASSUME NEW n \in W, NEW m \in W, n # m, Holder(n), Holder(m) PROVE FALSE
  <2>1. e.kind # "TurnStarted" /\ p.running > 0
    BY Zenon, <1>5, <1>6
  <2>2. CASE n # a /\ m # a
    BY Zenon, <1>5, <1>6, <1>b, <2>2
  <2>3. CASE e.kind = "ClaimReady"
    BY Zenon, <1>1, <1>5, <1>6, <1>b, <2>1, <2>3
  <2>4. CASE e.kind # "ClaimReady"
    BY Zenon, <1>5, <1>6, <1>b, <2>1, <2>4
  <2> QED BY Zenon, <2>3, <2>4
<1>7. ASSUME q.exec \in {"Waiting", "Ready"}, NEW n \in W, Holder(n) PROVE FALSE
  <2>1. e.kind \notin {"TurnStarted", "ClaimReady"} /\ p.running > 0
    BY Zenon, <1>1, <1>5, <1>7
  <2>2. OldHolder(n)
    BY Zenon, <1>5, <1>7, <2>1
  <2>3. p.exec \notin {"Waiting", "Ready"}
    BY Zenon, <1>b, <2>1, <2>2
  <2>4. e.kind = "WaitStarted" /\ p.running = e.turn
    BY Zenon, <1>1, <1>7, <2>3
  <2>5. n # a
    BY Zenon, <1>5, <1>7, <2>4
  <2>6. a \in Engine /\ e.turn = x.turn /\ x.pc = "commit"
    BY Zenon, <1>c, <2>4 DEF HostEvent
  <2>7. OldHolder(a)
    BY Zenon, <2>4, <2>6 DEF OldHolder, Holds, Preparing, e
  <2> QED BY Zenon, <1>b, <2>2, <2>5, <2>6, <2>7
<1>8. ASSUME NEW n \in W, NEW m \in W, n # m, new[n].pc = "tool", new[m].pc = "tool"
      PROVE  new[n].wait # new[m].wait
  <2>1. ASSUME a \in Engine, new[a].pc = "tool", NEW b \in W, b # a, new[b].pc = "tool"
        PROVE  new[a].wait # new[b].wait
    <3>1. "tool" \in {x.ok, x.err} /\ new[a].wait = x.wait
      BY Zenon, <2>1 DEF Continues
    <3>2. /\ e.kind \in {"ClaimReady", "ApprovalDecision"}
          /\ ~Seen(E, {"ClaimReady", "ApprovalDecision"}, e.wait)
      BY Zenon, <2>1, <3>1, FirstToEnter DEF e
    <3>3. e.wait = x.wait
      BY Zenon, <1>c, <3>2 DEF HostEvent
    <3>4. new[b] = act[b] /\ act[b].pc = "tool" /\ PlacedOK(E, p, mode, box, ent, act[b])
      BY Zenon, <2>1
    <3>5. Seen(E, {"ClaimReady", "ApprovalDecision"}, act[b].wait)
      BY Zenon, <3>4 DEF PlacedOK, MayEnter
    <3> QED BY Zenon, <3>1, <3>2, <3>3, <3>4, <3>5
  <2>2. CASE n # a /\ m # a
    BY Zenon, <1>8, <1>b, <2>2
  <2> QED BY Zenon, <1>8, <2>1, <2>2
<1>9. PairsOK(F, q, new)
  BY Zenon, <1>6, <1>7, <1>8 DEF PairsOK, Holder
<1> QED BY Zenon, <1>9 DEF F, e

\* The events after an append.
LEMMA EventsGrow ==
    ASSUME JournalInv, NEW e,
           journal' = Append(journal, [event |-> e, after |-> apply_events(Current, e)])
    PROVE  Events' = Events \cup {e}
<1>1. /\ Version \in Nat /\ Version' = Version + 1
      /\ \A i \in 1..Version : journal'[i] = journal[i]
      /\ journal'[Version + 1].event = e
  BY Zenon, AppendGrows
<1>2. 1..Version' = 1..Version \cup {Version + 1}
  BY <1>1
<1>3. Events' = {journal'[i].event : i \in 1..Version'}
  BY Zenon DEF Events
<1> QED BY Zenon, <1>1, <1>2, <1>3 DEF Events

\* The waits of a longer journal are numbered without gaps.
LEMMA WaitsNumbered ==
    ASSUME NEW E, NEW p, NEW v, NEW most, NEW mode, NEW box, NEW ent, NEW a, NEW x,
           Appends(E, p, v, most, mode, box, ent, a, x),
           \E c \in 0..most : WaitsOf(E) = 1..c
    PROVE  /\ \E c \in 0..most : WaitsOf(E \cup {x.event}) = 1..c
           /\ WaitsOf(E) \subseteq 1..most
<1> DEFINE e == x.event
<1>1. PICK c \in 0..most : WaitsOf(E) = 1..c
  BY Zenon
<1>2. most \in Nat
  BY Zenon DEF Appends
<1>3. /\ e.kind = "ToolCall" => e.wait \in 1..most /\ WaitsOf(E) = 1..(e.wait - 1) /\ e.wait # 0
      /\ e.kind # "ToolCall" => e.wait = 0 \/ e.wait \in WaitsOf(E)
  <2>1. Known(E, most, mode, a, x, e)
    BY Zenon, AppendedEvent
  <2> QED BY Zenon, <2>1 DEF Known, Own
<1>4. /\ e.wait = 0 \/ e.wait \in WaitsOf(E) => WaitsOf(E \cup {e}) = WaitsOf(E)
      /\ e.wait # 0 => WaitsOf(E \cup {e}) = WaitsOf(E) \cup {e.wait}
  BY Zenon, WaitsGrow
<1> HIDE DEF e
<1>5. WaitsOf(E) \subseteq 1..most
  BY <1>1, <1>2
<1>6. CASE e.kind = "ToolCall"
  <2>1. e.wait \in 1..most /\ WaitsOf(E \cup {e}) = 1..(e.wait - 1) \cup {e.wait}
    BY Zenon, <1>3, <1>4, <1>6
  <2>2. \A w \in Nat : w > 0 => 1..(w - 1) \cup {w} = 1..w
    OBVIOUS
  <2>3. e.wait \in Nat /\ e.wait > 0 /\ e.wait \in 0..most
    BY <1>2, <2>1
  <2> QED BY Zenon, <1>5, <2>1, <2>2, <2>3 DEF e
<1>7. CASE e.kind # "ToolCall"
  BY Zenon, <1>1, <1>3, <1>4, <1>5, <1>7 DEF e
<1> QED BY Zenon, <1>6, <1>7
=============================================================================
