---------------------------- MODULE MCTaskRunner ----------------------------
(***************************************************************************)
(* Instances of TaskRunner.  Times are in units in which the cleanup budget *)
(* of five seconds is two: one for a preparation's drain, one for a release. *)
(***************************************************************************)
EXTENDS TaskRunner

CONSTANTS o1, o2, nobody

MCOwners == {o1, o2}
MCOneOwner == {o1}
MCPriority == [t \in Tasks |-> 0]
MCRequired == [t \in Tasks |-> {}]
MCUngoverned == [o \in Owners |-> FALSE]
MCOneGoverned == [o \in Owners |-> o = o1]
MCCapabilities == [o \in Owners |-> {}]
MCNone == {}
MCTasks == Tasks
=============================================================================
