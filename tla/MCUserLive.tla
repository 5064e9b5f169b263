------------------------------ MODULE MCUserLive ------------------------------
(* Model-checking instances of UserLive: the bounds of each run.           *)
EXTENDS UserLive, TLC

Interchangeable == Permutations(Procs)

NoEvents == [e \in Events |-> 0]

Mode(together, requests, limit) ==
    [together |-> together, requests |-> requests, limit |-> limit @@ NoEvents]

InTurn    == Mode(FALSE, AllRequests \ {"renew"},
                  [request |-> 3, dial |-> 1, restart |-> 1])
AtOnce    == Mode(TRUE, {"create", "delete", "toggle", "sync"},
                  [request |-> 3, rpc |-> 1, dial |-> 1])
Expiry    == Mode(FALSE, {"create", "toggle", "renew", "sync", "edit"},
                  [request |-> 2, expire |-> 1, node |-> 1, restart |-> 1, crash |-> 1])
Tolerated == Mode(FALSE, {"create", "delete"}, [request |-> 1, rpc |-> 1])
Overtaken == Mode(TRUE, {"create", "edit"}, [request |-> 2])
Renewal   == Mode(TRUE, {"renew"}, [request |-> 1, expire |-> 1])
TwoFailures == Mode(FALSE, {"create", "toggle"}, [request |-> 4, dial |-> 2])
ResetLate == Mode(FALSE, {"reset", "renew"}, [request |-> 2, expire |-> 1])

LiveRequests == {InTurn, AtOnce}
OnlyExpiry    == {Expiry}
OnlyTolerated == {Tolerated}
OnlyOvertaken == {Overtaken}
OnlyRenewal   == {Renewal}
OnlyTwoFailures == {TwoFailures}
OnlyResetLate == {ResetLate}

=============================================================================
