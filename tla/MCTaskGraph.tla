----------------------------- MODULE MCTaskGraph -----------------------------
(***************************************************************************)
(* The instance of TaskGraph: three Tasks in every acyclic arrangement, or *)
(* three Tasks that exchange messages and do nothing else.                 *)
(***************************************************************************)
EXTENDS TaskGraph

CONSTANTS w1, gpu, nobody

MCOneOwner == {w1}
MCCapabilities == {gpu}

\* The last Task comes first, and only a worker with a gpu runs the second.
MCPriority == [t \in Tasks |-> IF t = NTasks THEN 1 ELSE 0]
MCRequired == [t \in Tasks |-> IF t = 2 THEN MCCapabilities ELSE {}]

\* Mail and the rest of the graph share no variable, so they are explored apart;
\* inboxes do not depend on who sends.
MCMailApart ==
    messages' # << >> =>
        /\ \A t \in Tasks : deps[t] = {} /\ status'[t] = "Pending" /\ attempts'[t] = 0
        /\ \A i \in DOMAIN messages' : messages'[i].from = 1
MCSpec == Init /\ [][Next /\ MCMailApart]_vars
=============================================================================
