----------------------------- MODULE MCTraffic -----------------------------
(* Model-checking instances of Traffic: the bounds of each run.            *)
EXTENDS Traffic, TLC

Cycles   == [e \in Happenings |-> IF e = "fail" \/ e = "loss" \/ e = "push" THEN 1
                                  ELSE IF e = "user" THEN 3 ELSE 2]
Newcomer == [e \in Happenings |-> IF e \in {"carry", "user", "poll"} THEN 1 ELSE 0]

Interchangeable == Permutations(Nodes) \cup Permutations(Ids) \cup Permutations(Names)

=============================================================================
