------------------------------ MODULE MCAdmins ------------------------------
(* Model-checking instances of Admins: the bounds of each run.             *)
EXTENDS Admins, TLC

Requests  == [e \in Events |-> IF e = "request" THEN 3 ELSE 1]
NoStop    == [e \in Events |-> IF e = "request" THEN 3 ELSE 0]

TwoSeeds  == <<TRUE, TRUE>>

Interchangeable == Permutations(Workers)

=============================================================================
