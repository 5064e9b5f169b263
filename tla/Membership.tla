----------------------------- MODULE Membership -----------------------------
(***************************************************************************)
(* Who may use which node: users belong to groups, groups own nodes, and   *)
(* the configuration of a node holds the active users who share a group    *)
(* with it.  The tables users, groups, nodes, user_groups and group_nodes  *)
(* are changed by requests of the administrators, each in several database *)
(* steps, and cleaned when the panel starts.  Live apply is off: a change  *)
(* marks nodes, and a push brings them up to date (a push and the ways it  *)
(* can fail are taken apart in ConfigSync, live apply in UserLive).        *)
(*                                                                         *)
(* A row saved by GORM takes along the associations it was read with: rows *)
(* that are missing are inserted again, links that are missing too.  Save  *)
(* inserts the row itself when there is nothing left to update.            *)
(***************************************************************************)
EXTENDS FiniteSets

CONSTANTS
    Users, Groups, Nodes,  \* ids
    Admins,                \* request goroutines
    GroupIdsReturn         \* a new group may get the id of a deleted one

(* Links of both kinds are told apart.                                     *)
ASSUME MembershipAssumption ==
    /\ Users # {} /\ Groups # {} /\ Nodes # {} /\ Users \cap Groups = {}
    /\ GroupIdsReturn \in BOOLEAN

(* users.group_id, of installations older than user_groups, is never       *)
(* cleared: at most one group.                                             *)
UserRow == [state : {"none", "on", "off"}, legacy : SUBSET Groups]
NodeRow == [exists : BOOLEAN, active : BOOLEAN,
            status : {"synced", "drifted", "pending"}]
Request == [pc : {"idle", "saveUser", "toggleUser", "markAll", "saveGroup",
                  "links", "markGroup", "unpin", "saveNode"},
            u : Users, row : UserRow, member : SUBSET Groups,
            g : Groups, ids : SUBSET Nodes,
            n : Nodes, rows : [Nodes -> NodeRow]]

VARIABLES
    user, group, node,      \* the tables of the three entities
    userGroups, groupNodes, \* the link tables
    pushed,    \* the users in the configuration each server was last pushed
    req,       \* each request: where it is, and what it has read
    revoked,   \* history: links taken away and not asked for since
    excused,   \* history: nodes whose users changed where the code marks none
    overtaken  \* history: a request saved what another had changed since

tables == <<user, group, node, userGroups, groupNodes>>
history == <<revoked, excused, overtaken>>
membershipVars == <<tables, pushed, req, history>>

NoUser == [state |-> "none", legacy |-> {}]
NoNode == [exists |-> FALSE, active |-> FALSE, status |-> "pending"]
Idle == [pc |-> "idle", u |-> CHOOSE any \in Users : TRUE, row |-> NoUser,
         member |-> {}, g |-> CHOOSE any \in Groups : TRUE, ids |-> {},
         n |-> CHOOSE any \in Nodes : TRUE, rows |-> [n \in Nodes |-> NoNode]]

ExistingUsers  == {u \in Users : user[u].state # "none"}
ExistingGroups == {g \in Groups : group[g] = "there"}
ExistingNodes  == {n \in Nodes : node[n].exists}
ActiveNodes    == {n \in ExistingNodes : node[n].active}

(* user.Groups and group.Nodes as Preload reads them: existing rows only.  *)
MemberOf(u) == {g \in ExistingGroups : <<u, g>> \in userGroups}
NodesOf(g)  == {n \in ExistingNodes : <<g, n>> \in groupNodes}

(* FindActiveUsersByNodeID joins the two link tables and never looks at    *)
(* groups: neither whether the row is there nor whether it is active.      *)
Wanted(n) == {u \in Users : /\ user[u].state = "on"
                            /\ \E g \in Groups : /\ <<u, g>> \in userGroups
                                                 /\ <<g, n>> \in groupNodes}

(* Nodes still linked to a group that was deleted.                         *)
Dangling == {n \in Nodes : \E g \in Groups \ ExistingGroups : <<g, n>> \in groupNodes}

MembershipInit ==
    /\ group \in [Groups -> {"none", "there"}]
    /\ user \in [Users -> [state : {"none", "on"}, legacy : {{}}]
                           \cup [state : {"on"}, legacy : {{g} : g \in ExistingGroups}]]
    /\ node = [n \in Nodes |-> [exists |-> TRUE, active |-> TRUE,
                                status |-> "synced"]]
    /\ userGroups \in SUBSET (ExistingUsers \X ExistingGroups)
    /\ groupNodes \in SUBSET (ExistingGroups \X Nodes)
    /\ pushed = [n \in Nodes |-> Wanted(n)]
    /\ req = [p \in Admins |-> Idle]
    /\ revoked = {} /\ excused = {} /\ overtaken = FALSE

Step(p, at, to) == /\ req[p].pc = at
                   /\ req' = [req EXCEPT ![p] = IF to = "idle" THEN Idle
                                                ELSE [req[p] EXCEPT !.pc = to]]
Start(p, r) == /\ req[p].pc = "idle"
               /\ req' = [req EXCEPT ![p] = r]

(* UPDATE nodes SET sync_status = 'drifted', for the rows of S.            *)
Marked(S) == [n \in Nodes |-> IF n \in S /\ node[n].exists
                              THEN [node[n] EXCEPT !.status = "drifted"]
                              ELSE node[n]]

(* Links of x to S replace those it had; the ones gone are revoked.        *)
Replaced(links, x, S)  == {l \in links : l[1] # x} \cup ({x} \X S)
RevokedBy(links, x, S) ==
    (revoked \cup {l \in links : l[1] = x}) \ ({x} \X S)

-----------------------------------------------------------------------------
(* UserService.                                                            *)

(* Mutant of CreateUser: the groups are added to what the id had.          *)
CreateUser_Append(p, u, S) ==
    /\ user[u].state = "none" /\ S \subseteq ExistingGroups
    /\ Start(p, [Idle EXCEPT !.pc = "markAll"])
    /\ user' = [user EXCEPT ![u] = [state |-> "on", legacy |-> {}]]
    /\ userGroups' = userGroups \cup ({u} \X S)
    /\ revoked' = revoked \ ({u} \X S)
    /\ UNCHANGED <<group, node, groupNodes, pushed, excused, overtaken>>

(* One transaction; a group that does not exist undoes it.                 *)
CreateUser(p, u, S) ==
    /\ user[u].state = "none" /\ S \subseteq ExistingGroups
    /\ Start(p, [Idle EXCEPT !.pc = "markAll"])
    /\ user' = [user EXCEPT ![u] = [state |-> "on", legacy |-> {}]]
    /\ userGroups' = Replaced(userGroups, u, S)
    /\ revoked' = RevokedBy(userGroups, u, S)
    /\ UNCHANGED <<group, node, groupNodes, pushed, excused, overtaken>>

ReadUser(p, u, next) ==
    /\ u \in ExistingUsers /\ next \in {"saveUser", "toggleUser"}
    /\ Start(p, [Idle EXCEPT !.pc = next, !.u = u, !.row = user[u],
                             !.member = MemberOf(u)])
    /\ UNCHANGED <<tables, pushed, history>>

UserOvertaken(r) == user[r.u] # r.row \/ MemberOf(r.u) # r.member

(* Update with other groups: one transaction replaces the links and saves  *)
(* the row.  Nodes are marked when the groups or the state differ from     *)
(* what was read.                                                          *)
RegroupUser(p, S, state) ==
    LET r == req[p]
    IN /\ S \subseteq ExistingGroups /\ state \in {"on", "off"}
       /\ Step(p, "saveUser", IF S # r.member \/ state # r.row.state
                              THEN "markAll" ELSE "idle")
       /\ user' = [user EXCEPT ![r.u] = [r.row EXCEPT !.state = state]]
       /\ userGroups' = Replaced(userGroups, r.u, S)
       /\ revoked' = RevokedBy(userGroups, r.u, S)
       /\ overtaken' = (overtaken \/ UserOvertaken(r))
       /\ UNCHANGED <<group, node, groupNodes, pushed, excused>>

(* Update without groups, and what the Feishu bot saves: the row goes back *)
(* with the groups it was read with.                                       *)
EditUser(p, state) ==
    LET r == req[p]
    IN /\ state \in {"on", "off"}
       /\ Step(p, "saveUser", IF state # r.row.state THEN "markAll" ELSE "idle")
       /\ user' = [user EXCEPT ![r.u] = [r.row EXCEPT !.state = state]]
       /\ group' = [g \in Groups |-> IF g \in r.member THEN "there" ELSE group[g]]
       /\ userGroups' = userGroups \cup ({r.u} \X r.member)
       /\ overtaken' = (overtaken \/ UserOvertaken(r))
       /\ UNCHANGED <<node, groupNodes, pushed, revoked, excused>>

(* A group that does not exist: the transaction is undone.                 *)
RejectUser(p, S) ==
    /\ ~(S \subseteq ExistingGroups)
    /\ Step(p, "saveUser", "idle")
    /\ UNCHANGED <<tables, pushed, history>>

(* One column; no row, no change.                                          *)
ToggleUser(p) ==
    LET r == req[p]
    IN /\ Step(p, "toggleUser", "markAll")
       /\ user' = [user EXCEPT ![r.u].state =
                     IF @ = "none" THEN @
                     ELSE IF r.row.state = "on" THEN "off" ELSE "on"]
       /\ UNCHANGED <<group, node, userGroups, groupNodes, pushed, history>>

(* The links of a deleted user stay until the next start.                  *)
DeleteUser(p, u) ==
    /\ Start(p, [Idle EXCEPT !.pc = "markAll"])
    /\ user' = [user EXCEPT ![u] = NoUser]
    /\ revoked' = RevokedBy(userGroups, u, {})
    /\ UNCHANGED <<group, node, userGroups, groupNodes, pushed, excused, overtaken>>

(* Nodes that are switched off are passed over.                            *)
MarkAllDrifted(p) ==
    /\ Step(p, "markAll", "idle")
    /\ node' = Marked(ActiveNodes)
    /\ excused' = excused \cup (Nodes \ ActiveNodes)
    /\ UNCHANGED <<user, group, userGroups, groupNodes, pushed, revoked, overtaken>>

-----------------------------------------------------------------------------
(* GroupService.                                                           *)

CreateGroup(p, g, N) ==
    /\ group[g] = "none" \/ (GroupIdsReturn /\ group[g] = "gone")
    /\ Start(p, IF N = {} THEN Idle
                ELSE [Idle EXCEPT !.pc = "links", !.g = g, !.ids = N])
    /\ group' = [group EXCEPT ![g] = "there"]
    /\ UNCHANGED <<user, node, userGroups, groupNodes, pushed, history>>

(* The group is read with its nodes, whole rows.                           *)
ReadGroup(p, g) ==
    /\ g \in ExistingGroups
    /\ Start(p, [Idle EXCEPT !.pc = "saveGroup", !.g = g,
                     !.rows = [n \in Nodes |-> IF n \in NodesOf(g) THEN node[n]
                                               ELSE NoNode]])
    /\ UNCHANGED <<tables, pushed, history>>

NodesRead(r) == {n \in Nodes : r.rows[n].exists}

(* Save: the row and, where they are missing, its nodes and links.  Then   *)
(* the nodes asked for, if the request names any set of nodes.             *)
SaveGroup(p, naming, N) ==
    LET r == req[p]
    IN /\ naming \/ N = {}
       /\ r.pc = "saveGroup"
       /\ req' = [req EXCEPT ![p] = IF naming
                        THEN [r EXCEPT !.pc = "links", !.ids = N] ELSE Idle]
       /\ group' = [group EXCEPT ![r.g] = "there"]
       /\ node' = [n \in Nodes |-> IF n \in NodesRead(r) /\ ~node[n].exists
                                   THEN r.rows[n] ELSE node[n]]
       /\ groupNodes' = groupNodes \cup ({r.g} \X NodesRead(r))
       /\ overtaken' = (overtaken \/ r.g \notin ExistingGroups
                                  \/ NodesOf(r.g) # NodesRead(r))
       /\ UNCHANGED <<user, userGroups, pushed, revoked, excused>>

(* FindByIDs, then Replace.  A change of the group's nodes since they were *)
(* read leaves nodes that nobody marks.                                    *)
ReplaceNodes(p) ==
    LET r == req[p]
        found == r.ids \cap ExistingNodes
    IN /\ Step(p, "links", "markGroup")
       /\ groupNodes' = Replaced(groupNodes, r.g, found)
       /\ revoked' = RevokedBy(groupNodes, r.g, found)
       /\ overtaken' = (overtaken \/ ~(NodesOf(r.g) \subseteq NodesRead(r) \cup r.ids))
       /\ UNCHANGED <<user, group, node, userGroups, pushed, excused>>

(* Mutant of MarkGroup: the nodes that left are not marked.                *)
MarkGroup_NewOnly(p) ==
    /\ Step(p, "markGroup", "idle")
    /\ node' = Marked(req[p].ids)
    /\ UNCHANGED <<user, group, userGroups, groupNodes, pushed, history>>

(* The nodes it had and the nodes it has, switched off or not.             *)
MarkGroup(p) ==
    /\ Step(p, "markGroup", "idle")
    /\ node' = Marked(NodesRead(req[p]) \cup req[p].ids)
    /\ UNCHANGED <<user, group, userGroups, groupNodes, pushed, history>>

(* The row alone: the links stay, and with them the users on its nodes.    *)
DeleteGroup(g) ==
    /\ group[g] = "there"
    /\ group' = [group EXCEPT ![g] = "gone"]
    /\ revoked' = revoked \cup {l \in userGroups : l[2] = g}
                          \cup {l \in groupNodes : l[1] = g}
    /\ UNCHANGED <<user, node, userGroups, groupNodes, pushed, req, excused, overtaken>>

-----------------------------------------------------------------------------
(* NodeService, and the node an installation registers or replaces.        *)

CreateNode(n) ==
    /\ ~node[n].exists
    /\ node' = [node EXCEPT ![n] = [exists |-> TRUE, active |-> TRUE,
                                    status |-> "pending"]]
    /\ UNCHANGED <<user, group, userGroups, groupNodes, pushed, req, history>>

(* The row as it will be saved; a change of address cleans known_hosts     *)
(* first.                                                                  *)
ReadNode(p, n, status) ==
    /\ n \in ExistingNodes /\ status \in {node[n].status, "drifted", "pending"}
    /\ Start(p, [Idle EXCEPT !.pc = IF status = node[n].status THEN "saveNode"
                                    ELSE "unpin",
                             !.n = n, !.rows[n] = [node[n] EXCEPT !.status = status]])
    /\ UNCHANGED <<tables, pushed, history>>

Unpinned(p) ==
    /\ Step(p, "unpin", "saveNode")
    /\ UNCHANGED <<tables, pushed, history>>

(* The whole row: status and active as they were read.  Without a change   *)
(* of address that undoes a mark made since.                               *)
SaveNode(p) ==
    LET r == req[p]
        row == r.rows[r.n]
    IN /\ Step(p, "saveNode", "idle")
       /\ node' = [node EXCEPT ![r.n] = row]
       /\ overtaken' = \/ overtaken \/ ~node[r.n].exists
                       \/ row.active # node[r.n].active
                       \/ (row.status = "synced" /\ node[r.n].status # "synced")
       /\ UNCHANGED <<user, group, userGroups, groupNodes, pushed, revoked, excused>>

(* One transaction takes the links with the row.                           *)
DeleteNode(n) ==
    /\ n \in ExistingNodes
    /\ node' = [node EXCEPT ![n] = NoNode]
    /\ groupNodes' = {l \in groupNodes : l[2] # n}
    /\ revoked' = revoked \cup {l \in groupNodes : l[2] = n}
    /\ UNCHANGED <<user, group, userGroups, pushed, req, excused, overtaken>>

ToggleNode(n) ==
    /\ n \in ExistingNodes
    /\ node' = [node EXCEPT ![n].active = ~@]
    /\ UNCHANGED <<user, group, userGroups, groupNodes, pushed, req, history>>

(* A push that succeeds, in one step.                                      *)
PushNode(n) ==
    /\ n \in ActiveNodes
    /\ node' = [node EXCEPT ![n].status = "synced"]
    /\ pushed' = [pushed EXCEPT ![n] = Wanted(n)]
    /\ excused' = excused \ {n}
    /\ UNCHANGED <<user, group, userGroups, groupNodes, req, revoked, overtaken>>

-----------------------------------------------------------------------------
(* The panel stops and starts: requests are gone wherever they were;       *)
(* migrateLegacyUserGroups links every user who has a group_id with that   *)
(* group, again at every start; cleanupOrphanRelations drops links of rows *)
(* that do not exist.  Nobody marks the nodes this changes.                *)
LegacyLinks == {l \in Users \X Groups : l[2] \in user[l[1]].legacy}

RestartPanel ==
    /\ req' = [p \in Admins |-> Idle]
    /\ userGroups' = (userGroups \cup LegacyLinks) \cap (ExistingUsers \X ExistingGroups)
    /\ groupNodes' = groupNodes \cap (ExistingGroups \X ExistingNodes)
    /\ UNCHANGED <<user, group, node, pushed, revoked, overtaken>>
    /\ excused' = IF \E p \in Admins : req[p].pc \in {"markAll", "markGroup"}
                  THEN Nodes
                  ELSE excused \cup Dangling \cup {n \in Nodes : Wanted(n)' # Wanted(n)}

RequestStep(p) ==
    \/ \E u \in Users : \/ DeleteUser(p, u)
                        \/ \E S \in SUBSET Groups : CreateUser(p, u, S)
                        \/ \E next \in {"saveUser", "toggleUser"} : ReadUser(p, u, next)
    \/ \E S \in SUBSET Groups : RejectUser(p, S)
    \/ \E state \in {"on", "off"} : \/ EditUser(p, state)
                                    \/ \E S \in SUBSET Groups : RegroupUser(p, S, state)
    \/ ToggleUser(p) \/ MarkAllDrifted(p)
    \/ \E g \in Groups : \/ ReadGroup(p, g)
                         \/ \E N \in SUBSET Nodes : CreateGroup(p, g, N)
    \/ \E naming \in BOOLEAN, N \in SUBSET Nodes : SaveGroup(p, naming, N)
    \/ ReplaceNodes(p) \/ MarkGroup(p)
    \/ \E n \in Nodes, status \in {"synced", "drifted", "pending"} : ReadNode(p, n, status)
    \/ Unpinned(p) \/ SaveNode(p)

MembershipNext ==
    \/ \E p \in Admins : RequestStep(p)
    \/ \E g \in Groups : DeleteGroup(g)
    \/ \E n \in Nodes : CreateNode(n) \/ DeleteNode(n) \/ ToggleNode(n) \/ PushNode(n)
    \/ RestartPanel

MembershipSpec == MembershipInit /\ [][MembershipNext]_membershipVars

-----------------------------------------------------------------------------
(* Properties.                                                             *)

(* Every variable keeps to its domain.                                     *)
MembershipTypeOK ==
    /\ user \in [Users -> UserRow] /\ group \in [Groups -> {"none", "there", "gone"}]
    /\ node \in [Nodes -> NodeRow]
    /\ userGroups \subseteq Users \X Groups /\ groupNodes \subseteq Groups \X Nodes
    /\ pushed \in [Nodes -> SUBSET Users] /\ req \in [Admins -> Request]
    /\ revoked \subseteq (Users \X Groups) \cup (Groups \X Nodes)
    /\ excused \subseteq Nodes /\ overtaken \in BOOLEAN

NobodyWillMark == \A p \in Admins : req[p].pc \notin {"markAll", "markGroup"}

(* user.go, group.go: every request that changes who belongs on a node     *)
(* marks that node, so one that shows synced was pushed with exactly the   *)
(* users it should have - unless a request saved over another's change, a  *)
(* start changed the links, the node was off while users changed, or it is *)
(* still linked to a deleted group (which no list shows: leaving it marks  *)
(* nothing).                                                               *)
SyncedMeansCurrent ==
    ~overtaken /\ NobodyWillMark =>
        \A n \in ActiveNodes \ (excused \cup Dangling) :
            node[n].status = "synced" => pushed[n] = Wanted(n)

(* node.go:138-145 and v0.4.3: whoever gets the id of a deleted user or    *)
(* node inherits nothing, and a link that was taken away is there again    *)
(* only once asked for - unless a request saved what it had read before,   *)
(* or the link is the one of users.group_id.                               *)
RevokedStaysRevoked ==
    ~overtaken =>
        /\ \A l \in userGroups \cap revoked :
                \/ l[1] \notin ExistingUsers
                \/ l[2] \notin ExistingGroups
                \/ l[2] \in user[l[1]].legacy
        /\ \A l \in groupNodes \cap revoked : l[1] \notin ExistingGroups

=============================================================================
