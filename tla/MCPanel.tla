------------------------------ MODULE MCPanel -------------------------------
(* Small instances of the panel: one user, two groups, two nodes, of which *)
(* the first has an IP and a domain, and two administrators.  A behaviour  *)
(* spends one of the budgets below, each made for one of the questions.    *)
EXTENDS Panel, TLC

CONSTANTS u1, g1, g2, n1, n2, ip1, dom1, ip2

MCUsers == {u1}
MCGroups == {g1, g2}
MCNodes == {n1, n2}
MCAddrs == {ip1, dom1, ip2}
MCOdd == {ip2}
MCIp == (n1 :> ip1) @@ (n2 :> ip2)
MCConnectAddr == (n1 :> dom1) @@ (n2 :> ip2)

MCEvents == {"user", "group", "node", "push", "dial", "rekey", "tick", "backup",
             "delete", "restart"}
Nothing == [e \in MCEvents |-> 0]
With(b) == b @@ Nothing

OnTheTables == {
    With([user |-> 3, push |-> 1]),
    With([group |-> 2, push |-> 2]),
    With([user |-> 1, group |-> 1, push |-> 2]),
    With([user |-> 1, group |-> 1, node |-> 1]),
    With([group |-> 1, node |-> 1, push |-> 1]),
    With([user |-> 1, node |-> 1, push |-> 1]),
    With([user |-> 1, group |-> 1, push |-> 1, restart |-> 1]),
    With([user |-> 1, tick |-> 1, backup |-> 1, restart |-> 1])}
OnTheFiles == {
    With([node |-> 1, dial |-> 3, rekey |-> 1]),
    With([node |-> 1, dial |-> 2, rekey |-> 1, restart |-> 1]),
    With([node |-> 2, dial |-> 1, rekey |-> 1]),
    With([tick |-> 4, backup |-> 3]),
    With([tick |-> 4, backup |-> 2, delete |-> 1, restart |-> 1])}
MCBudgets == OnTheTables \cup OnTheFiles

(* The links behaviours start with: few, as requests make the others; one  *)
(* choice of them where the files are what matters.                        *)
MCPanelInit ==
    /\ PanelInit
    /\ group[g1] = "there" /\ user[u1].legacy # {g2}
    /\ userGroups \in {{}, {<<u1, g1>>}}
    /\ groupNodes = {<<g1, n1>>} \cup ({g2} \X {n2} \cap ExistingGroups \X Nodes)
    /\ budget \in OnTheFiles => /\ userGroups = {<<u1, g1>>} /\ user[u1].legacy = {}
                              /\ group[g2] = "none"

MCPanelSpec == MCPanelInit /\ [][PanelNext]_panelVars
Symmetric == Permutations(Admins) \cup Permutations(Conns)
=============================================================================
