---------------------------- MODULE MCConfigSync ----------------------------
(* Model-checking instances of ConfigSync: the bounds of each run.         *)
EXTENDS ConfigSync, TLC

NoEvents == [k \in Kinds |-> 0]

Pushes    == [k \in Kinds |-> IF k = "edit" THEN 2 ELSE 1]
Detection == [NoEvents EXCEPT !["edit"] = 1, !["tamper"] = 1, !["crash"] = 1]

(* Workers and configurations are interchangeable in the safety runs.      *)
Interchangeable == Permutations(Workers) \cup Permutations(Config)

=============================================================================
