---------------------------- MODULE ScanCommand -----------------------------
(***************************************************************************)
(* What a scan command promises about the database: the report of each     *)
(* deployment is written once, as a whole, with some of its machines, and  *)
(* never changes; the command succeeds only when every report is written,  *)
(* and it may fail at any time, keeping the reports written so far.        *)
(***************************************************************************)
EXTENDS Sequences

CONSTANTS
    Deployment,  \* the deployments asked for
    VMsOf        \* VMsOf[d]: the machines of deployment d

VARIABLES
    report,      \* report[d]: the reports written for d, each a set of machines
    status       \* "running", "succeeded" or "failed"

vars == <<report, status>>

Init == report = [d \in Deployment |-> <<>>] /\ status = "running"

Save(d) ==
    /\ status = "running"
    /\ report[d] = <<>>
    /\ \E hosts \in SUBSET VMsOf[d] : report' = [report EXCEPT ![d] = <<hosts>>]
    /\ UNCHANGED status

Succeed ==
    /\ status = "running"
    /\ \A d \in Deployment : report[d] # <<>>
    /\ status' = "succeeded"
    /\ UNCHANGED report

Fail ==
    /\ status = "running"
    /\ status' = "failed"
    /\ UNCHANGED report

Next == (\E d \in Deployment : Save(d)) \/ Succeed \/ Fail

Spec == Init /\ [][Next]_vars
=============================================================================
