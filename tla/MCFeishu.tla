------------------------------ MODULE MCFeishu ------------------------------
(* Model-checking instances of Feishu: the bounds of each run.             *)
EXTENDS Feishu, TLC

Chats == [e \in Counted |-> IF e \in {"bind"} THEN 2 ELSE 1]
Reset == [e \in Counted |-> IF e \in {"bind", "reset"} THEN 1 ELSE 0]

Welcome == {TRUE} \X (Persons \cup {Nobody})

Interchangeable == Permutations(Users) \cup Permutations(Persons)
                     \cup Permutations(Workers)

=============================================================================
