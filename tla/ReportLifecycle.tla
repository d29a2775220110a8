-------------------------- MODULE ReportLifecycle --------------------------
(***************************************************************************)
(* What a research run promises about its report row, without saying how:  *)
(* the row appears as running, and at most once turns into a failed report *)
(* or into a complete one.  A complete report carries the last verdict of  *)
(* the critic; it carries a blocking one only when the run was out of      *)
(* revisions or out of money.  Module ResearchRun implements this.         *)
(***************************************************************************)
EXTENDS Naturals

CONSTANTS MaxRevisions,  \* settings.max_revisions
          MaxCost        \* settings.max_cost_usd, in cost units

VARIABLE report

NoBody   == [revisions |-> 0, blocked |-> FALSE, cost |-> 0]
Statuses == {"none", "running", "complete", "failed"}

Publishable(body) ==
    /\ body.revisions \in 0 .. MaxRevisions
    /\ body.cost \in Nat
    /\ body.blocked \in BOOLEAN
    /\ body.blocked => body.revisions = MaxRevisions \/ body.cost >= MaxCost

Init == report = [status |-> "none", body |-> NoBody]

Create == /\ report.status = "none"
          /\ report' = [status |-> "running", body |-> NoBody]

Publish == /\ report.status = "running"
           /\ report'.status = "complete"
           /\ report' = [status |-> "complete", body |-> report'.body]
           /\ Publishable(report'.body)

Fail == /\ report.status = "running"
        /\ report' = [status |-> "failed", body |-> NoBody]

Next == Create \/ Publish \/ Fail

Spec == Init /\ [][Next]_report
=============================================================================
