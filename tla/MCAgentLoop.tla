---------------------------- MODULE MCAgentLoop ----------------------------
(***************************************************************************)
(* Scenarios of the Agent Loop's waits for TLC: two processes "p" and "q", *)
(* the host and the sweep in "p".                                          *)
(***************************************************************************)
EXTENDS AgentLoop

Of(mode, cast, turns, waits, marks, failures) ==
    [mode |-> mode, cast |-> cast, turns |-> turns, waits |-> waits,
     checkpoints |-> marks, crashes |-> failures]

MCScenario ==
    { \* two workers race for one wait, against the sweep
      Of("durable", {"p", "q", "sweeper"}, 1, 1, 0, 1),
      \* one worker has two waits, in one Turn or in two
      Of("durable", {"q", "sweeper"}, 2, 2, 0, 1),
      \* the host acts on the wait of a worker of its own process, or of the other one
      Of("durable", {"p", "host", "sweeper"}, 1, 1, 1, 1),
      Of("durable", {"q", "host"}, 2, 1, 0, 0),
      \* the older path
      Of("blocking", {"p", "q"}, 2, 1, 0, 1),
      Of("blocking", {"q", "host"}, 1, 2, 1, 1) }

BlockingScenario == { s \in MCScenario : s.mode = "blocking" }

=============================================================================
