------------------------------ MODULE MCAlerts ------------------------------
(* Model-checking instances of Alerts: the bounds of each run.             *)
EXTENDS Alerts, TLC

NoEvents == [e \in Events |-> 0]

PushReports == [e \in Events |-> IF e = "toggle" THEN 0 ELSE 1]
Rounds      == [NoEvents EXCEPT !["toggle"] = 1]
Restart     == [NoEvents EXCEPT !["crash"] = 1]
Newcomer    == [NoEvents EXCEPT !["create"] = 1]

(* Reporters are interchangeable in the safety runs.                       *)
Interchangeable == Permutations(Reporters)

=============================================================================
