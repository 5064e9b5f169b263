---------------------------- MODULE MCNodeInstall ----------------------------
(* Model-checking instances of NodeInstall: the bounds of each run.        *)
EXTENDS NodeInstall, TLC

NoEvents == [e \in Events |-> 0]
OneEach  == [e \in Events |-> 1]
OneCrash == [NoEvents EXCEPT !["crash"] = 1]
OneDelete == [NoEvents EXCEPT !["delete"] = 1]

(* Calls and addresses are interchangeable.                                *)
Interchangeable == Permutations(Calls) \cup Permutations(Sources)

=============================================================================
