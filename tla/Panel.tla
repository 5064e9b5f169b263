------------------------------- MODULE Panel --------------------------------
(***************************************************************************)
(* The panel as one process over the three stores it keeps: the tables     *)
(* (Membership), the known_hosts file (KnownHosts) and the backups         *)
(* (Backup).  They meet in three places: a request that moves or replaces  *)
(* a node removes its address from known_hosts between reading and saving  *)
(* the row; a backup holds the only connection to the database, and every  *)
(* step on the tables waits for it; a stop of the panel ends whatever is   *)
(* under way in all three.                                                 *)
(***************************************************************************)
EXTENDS Membership, KnownHosts, Backup

CONSTANTS
    Ip, ConnectAddr,  \* of each node: its IP; its domain, or else its IP
    Events,           \* what is counted: requests, connections, runs ...
    Budgets           \* bounds: how often each may happen in a behaviour

ASSUME PanelAssumption ==
    /\ Removers = Admins
    /\ Ip \in [Nodes -> Addrs] /\ ConnectAddr \in [Nodes -> Addrs]
    /\ Budgets \subseteq [Events -> Nat]

VARIABLE budget  \* what is left of the budget of this behaviour

panelVars == <<membershipVars, hostsVars, backupVars, budget>>

PanelInit ==
    /\ MembershipInit /\ HostsInit /\ BackupInit
    /\ budget \in Budgets

Spend(e) == budget[e] > 0 /\ budget' = [budget EXCEPT ![e] = @ - 1]
Free == UNCHANGED budget

OnTables == ConnectionIsFree /\ UNCHANGED <<hostsVars, backupVars>>
OnHosts  == UNCHANGED <<membershipVars, backupVars>>
OnFiles  == UNCHANGED <<membershipVars, hostsVars>>

(* What a request at "unpin" removes.  Update takes the address of the     *)
(* subscriptions: for a node with a domain not the IP that connections     *)
(* dial, and its line stays.  A replacement takes the IP.                  *)
Unpinning(r) == IF r.rows[r.n].status = "drifted" THEN ConnectAddr[r.n] ELSE Ip[r.n]

Unpin(p) ==
    /\ req[p].pc = "unpin" /\ RemoveRead(p, Unpinning(req[p]))
    /\ OnHosts /\ Free

FinishUnpin(p) ==
    /\ RemoveWrite(p) /\ Unpinned(p)
    /\ UNCHANGED backupVars /\ Free

(* The file could not be read: logged, and the request goes on.            *)
SkipUnpin(p) ==
    /\ Unpinned(p) /\ (removal.pc = "idle" \/ removal.by # p)
    /\ UNCHANGED <<hostsVars, backupVars>> /\ Free

RestartAll ==
    /\ RestartPanel /\ HostsRestart /\ BackupRestart
    /\ Spend("restart")

UserRequests(p) ==
    \/ \E u \in Users :
        \/ DeleteUser(p, u) /\ OnTables /\ Spend("user")
        \/ \E S \in SUBSET Groups : CreateUser(p, u, S) /\ OnTables /\ Spend("user")
        \/ \E next \in {"saveUser", "toggleUser"} :
               ReadUser(p, u, next) /\ OnTables /\ Spend("user")
    \/ \E S \in SUBSET Groups : RejectUser(p, S) /\ OnTables /\ Free
    \/ \E state \in {"on", "off"} :
        \/ EditUser(p, state) /\ OnTables /\ Free
        \/ \E S \in SUBSET Groups : RegroupUser(p, S, state) /\ OnTables /\ Free
    \/ ToggleUser(p) /\ OnTables /\ Free
    \/ MarkAllDrifted(p) /\ OnTables /\ Free

GroupRequests(p) ==
    \/ \E g \in Groups :
        \/ ReadGroup(p, g) /\ OnTables /\ Spend("group")
        \/ \E N \in SUBSET Nodes : CreateGroup(p, g, N) /\ OnTables /\ Spend("group")
    \/ \E naming \in BOOLEAN, N \in SUBSET Nodes :
           SaveGroup(p, naming, N) /\ OnTables /\ Free
    \/ ReplaceNodes(p) /\ OnTables /\ Free
    \/ MarkGroup(p) /\ OnTables /\ Free

NodeRequests(p) ==
    \/ \E n \in Nodes, status \in {"synced", "drifted", "pending"} :
           ReadNode(p, n, status) /\ OnTables /\ Spend("node")
    \/ Unpin(p)
    \/ FinishUnpin(p)
    \/ SkipUnpin(p)
    \/ SaveNode(p) /\ OnTables /\ Free

(* Requests that are one step on the tables.                               *)
ShortRequests ==
    \/ \E g \in Groups : DeleteGroup(g) /\ OnTables /\ Spend("group")
    \/ \E n \in Nodes :
        \/ CreateNode(n) /\ OnTables /\ Spend("node")
        \/ DeleteNode(n) /\ OnTables /\ Spend("node")
        \/ ToggleNode(n) /\ OnTables /\ Spend("node")
        \/ PushNode(n) /\ OnTables /\ Spend("push")

Connections ==
    \/ \E c \in Conns :
        \/ \E n \in Nodes : Dial(c, Ip[n]) /\ OnHosts /\ Spend("dial")
        \/ Verify(c) /\ OnHosts /\ Free
        \/ Record(c) /\ OnHosts /\ Free
    \/ RemoveCut /\ OnHosts /\ Free
    \/ \E n \in Nodes : Rekey(Ip[n]) /\ OnHosts /\ Spend("rekey")

Backups ==
    \/ Tick /\ OnFiles /\ Spend("tick")
    \/ \E m \in Makers :
        \/ Choose(m) /\ OnFiles /\ Spend("backup")
        \/ Vacuum(m) /\ OnFiles /\ Free
        \/ Finish(m) /\ OnFiles /\ Free
        \/ Fail(m) /\ OnFiles /\ Free
    \/ Clean /\ OnFiles /\ Free
    \/ \E s \in Names : DeleteBackup(s) /\ OnFiles /\ Spend("delete")

PanelNext ==
    \/ \E p \in Admins : UserRequests(p) \/ GroupRequests(p) \/ NodeRequests(p)
    \/ ShortRequests \/ Connections \/ Backups
    \/ RestartAll

PanelSpec == PanelInit /\ [][PanelNext]_panelVars
=============================================================================
