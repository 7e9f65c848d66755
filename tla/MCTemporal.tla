----------------------------- MODULE MCTemporal -----------------------------
(***************************************************************************)
(* Instances of TemporalDriver, explored side by side: one Run or one case  *)
(* that receives every command; two Runs or two cases that only become due, *)
(* scanned by pages of one, the Runs by two drivers; and one of each.       *)
(***************************************************************************)
EXTENDS TemporalDriver

MCDeployment(workflow, handoff, drivers) ==
    [workflow |-> workflow, handoff |-> handoff, drivers |-> drivers]
MCDeployments == {MCDeployment({1}, {}, {"d"}), MCDeployment({2, 3}, {}, {"d"}),
                  MCDeployment({}, {1}, {"d"}), MCDeployment({}, {2, 3}, {"d"}),
                  MCDeployment({3}, {3}, {"d"}), MCDeployment({3}, {}, {"d", "e"})}
MCDefinitions == {<< 1, "a" >>, << 2, "b" >>}
MCRunMenu == [r \in RunIds |->
    CASE r = 1 -> (CommandKinds \cup {"Create"}) \ {"ScheduleRetry", "Fail"}
      [] r = 2 -> {"Create", "ScheduleRetry", "Fail"}
      [] r = 3 -> {"Create", "WaitUntil"}]
MCCaseMenu == [h \in CaseIds |->
    IF h = 1 THEN {"Create", "Claim", "RenewClaim", "ReleaseClaim", "Resolve", "Cancel"}
    ELSE {"Create", "Claim"}]
MCStaff == [h \in CaseIds |-> IF h = 1 THEN Operators ELSE {"o"}]
=============================================================================
