------------------------------- MODULE UserLive -------------------------------
(***************************************************************************)
(* User changes that take effect without restarting xray: UserService      *)
(* writes the database, then LiveSyncService uploads a fresh configuration *)
(* to every node concerned and tells the running xray, over gRPC, to add   *)
(* or remove the one user.  Beside it run the full pushes that restart     *)
(* xray, changes that need such a push, the sweep of expired users and the *)
(* drift check (push and check are taken apart in ConfigSync).             *)
(*                                                                         *)
(* A configuration is a set of accounts <<user, uuid>> and the version of  *)
(* everything else in it; a user's groups are the set of nodes they reach. *)
(* The inbounds of a node are taken as one.                                *)
(***************************************************************************)
EXTENDS Naturals, FiniteSets, Sequences

CONSTANTS
    Users, Nodes,
    Procs,     \* request goroutines
    Sweeper,   \* the scheduler's expired_user_sweep
    Nobody,    \* nobody holds the node lock
    Modes      \* instances: kinds of request, whether requests, sweeps and
               \* drift checks overlap or take turns, bounds on the events

AllRequests == {"create", "delete", "toggle", "reset", "regroup", "renew",
                "sync", "edit"}
Events == {"request", "node", "expire", "dial", "rpc", "restart", "crash"}

ASSUME UserLiveAssumption ==
    /\ Users # {} /\ Nodes # {}
    /\ Sweeper \notin Procs /\ Nobody \notin Procs \cup {Sweeper}
    /\ Modes \subseteq [requests : SUBSET AllRequests, together : BOOLEAN,
                       limit : [Events -> Nat]]

Workers  == Procs \cup {Sweeper}
Uuids    == Nat
Versions == Nat
Accounts == Users \X Uuids
Config   == [base : Versions, users : SUBSET Accounts]
User     == [state : {"none", "there", "gone"}, active : BOOLEAN, swept : BOOLEAN,
             uuid : Uuids, expiry : {"never", "ahead", "past"}, on : SUBSET Nodes]
Row      == [active : BOOLEAN, status : {"synced", "drifted", "failed"},
             hash : Config]
Pass     == [verb : {"add", "remove", "replace"}, uuid : Uuids, on : SUBSET Nodes]
Job      == [pc : {"idle", "write", "plan", "rows", "next", "upload", "grpc",
                   "record", "mark", "push", "pushed", "editMark", "sweep"},
             kind : AllRequests \cup {"sweep"}, u : Users, seen : User,
             old : SUBSET Nodes, passes : Seq(Pass), rows : SUBSET Nodes,
             todo : SUBSET Nodes, at : Nodes, cfg : Config,
             fresh : Uuids,
             sweep : SUBSET (Users \X User)]

VARIABLES
    user,   \* users
    base,   \* everything else that configurations are generated from
    node,   \* nodes: active, sync status, hash of the last push recorded
    disk,   \* config.json on each server
    run,    \* what each server's xray is running with
    lock,   \* nodeLocks
    job,    \* each worker: where it is, and what it has read and planned
    used,   \* bounded events so far
    mode    \* the instance a behaviour belongs to

vars == <<user, base, node, disk, run, lock, job, used, mode>>

AnyUser == CHOOSE u \in Users : TRUE
AnyNode == CHOOSE n \in Nodes : TRUE
Absent  == [state |-> "none", active |-> FALSE, swept |-> FALSE, uuid |-> 0,
            expiry |-> "never", on |-> {}]
Gone    == [Absent EXCEPT !.state = "gone"]    \* its id does not return
Member  == [state |-> "there", active |-> TRUE, swept |-> FALSE, uuid |-> 0,
            expiry |-> "ahead", on |-> Nodes]
NoConfig == [base |-> 0, users |-> {}]
Idle == [pc |-> "idle", kind |-> "sync", u |-> AnyUser, seen |-> Absent,
         old |-> {}, passes |-> <<>>, rows |-> {}, todo |-> {}, at |-> AnyNode,
         cfg |-> NoConfig, fresh |-> 0, sweep |-> {}]

(* EffectiveActive: switched on and not expired.                           *)
There(r)     == r.state = "there"
Effective(r) == There(r) /\ r.active /\ r.expiry # "past"

(* What buildConfig generates for a node now.                              *)
Desired(n) ==
    [base |-> base,
     users |-> {<<u, user[u].uuid>> :
                    u \in {v \in Users : Effective(user[v]) /\ n \in user[v].on}}]

(* Every node has been pushed to, and some users exist.                    *)
Init ==
    /\ user \in [Users -> {Absent, Member}]
    /\ base = 0
    /\ node = [n \in Nodes |-> [active |-> TRUE, status |-> "synced",
                                hash |-> Desired(n)]]
    /\ disk = [n \in Nodes |-> Desired(n)]
    /\ run = disk
    /\ lock = [n \in Nodes |-> Nobody]
    /\ job = [p \in Workers |-> Idle]
    /\ used = [e \in Events |-> 0]
    /\ mode \in Modes

Spend(e) == /\ used[e] < mode.limit[e]
            /\ used' = [used EXCEPT ![e] = @ + 1]

Set(p, j)  == job' = [job EXCEPT ![p] = j]
Goto(p, l) == Set(p, [job[p] EXCEPT !.pc = l])
At(p)      == job[p].at
Quiet   == \A p \in Workers : job[p].pc = "idle"
MyTurn  == mode.together \/ Quiet
ActiveNodes == {n \in Nodes : node[n].active}

hosts  == <<disk, run>>
tables == <<user, base, node>>

-----------------------------------------------------------------------------
(* UserService: read, write, and plan the passes over nodes.               *)

(* Create writes at once; the others read the user first, and the nodes    *)
(* its groups reach now.                                                   *)
Create(p, u, S) ==
    /\ "create" \in mode.requests /\ job[p].pc = "idle" /\ MyTurn /\ Spend("request")
    /\ user[u].state = "none"
    /\ user' = [user EXCEPT ![u] = [Member EXCEPT !.uuid = used'["request"],
                                                  !.on = S]]
    /\ Set(p, [Idle EXCEPT !.pc = "plan", !.kind = "create", !.u = u])
    /\ UNCHANGED <<mode, base, node, hosts, lock>>

Read(p, kind, u) ==
    /\ kind \in mode.requests /\ job[p].pc = "idle" /\ MyTurn /\ Spend("request")
    /\ There(user[u])
    /\ Set(p, [Idle EXCEPT !.pc = "write", !.kind = kind, !.u = u,
                           !.seen = user[u], !.old = user[u].on \cap ActiveNodes,
                           !.fresh = used'["request"]])
    /\ UNCHANGED <<mode, tables, hosts, lock>>

Write(p, row) ==
    /\ job[p].pc = "write"
    /\ user' = [user EXCEPT ![job[p].u] = row]
    /\ UNCHANGED <<mode, base, node, hosts, lock, used>>

Delete(p) ==
    /\ job[p].kind = "delete" /\ Write(p, Gone)
    /\ Goto(p, "plan")

(* UpdateActive and UpdateUUID touch one column.                           *)
ToggleActive(p) ==
    LET u == job[p].u
    IN /\ job[p].kind = "toggle"
       /\ Write(p, IF There(user[u])
                   THEN [user[u] EXCEPT !.active = ~job[p].seen.active] ELSE user[u])
       /\ Goto(p, "plan")

ResetUUID(p) ==
    LET u == job[p].u
    IN /\ job[p].kind = "reset"
       /\ Write(p, IF There(user[u])
                   THEN [user[u] EXCEPT !.uuid = job[p].fresh] ELSE user[u])
       /\ Set(p, [job[p] EXCEPT !.pc = "plan", !.seen.uuid = job[p].fresh])

(* Update saves the row it read as a whole, with the change: other groups, *)
(* or a later expiry, which clears the swept mark.  The expiry it read may *)
(* have passed meanwhile.                                                  *)
Lapsed(seen, now) == \/ seen.expiry = "past"
                     \/ seen.expiry = "ahead" /\ now.expiry = "past"

Regroup(p, S) ==
    LET j == job[p]
    IN /\ j.kind = "regroup"
       /\ Write(p, [j.seen EXCEPT !.on = S,
                        !.expiry = IF Lapsed(j.seen, user[j.u]) THEN "past" ELSE @])
       /\ Goto(p, "plan")
(* Mutant of Renew: the swept mark stays.                                  *)
Renew_KeepMark(p) ==
    /\ job[p].kind = "renew"
    /\ Write(p, [job[p].seen EXCEPT !.expiry = "ahead",
                                    !.on = @ \cup user[job[p].u].on])
    /\ Goto(p, "plan")
Renew(p) ==
    /\ job[p].kind = "renew"
    /\ Write(p, [job[p].seen EXCEPT !.expiry = "ahead", !.swept = FALSE,
                                    !.on = @ \cup user[job[p].u].on])
    /\ Goto(p, "plan")

(* A pass over no nodes is left out.                                       *)
Over(verb, uuid, S) ==
    IF S = {} THEN <<>> ELSE <<[verb |-> verb, uuid |-> uuid, on |-> S]>>

(* The nodes each kind of request goes to; an update adds where the user   *)
(* has become active and then removes where it no longer is.  (now: the    *)
(* row as it is after the write; A: the nodes that are active.)            *)
PassesOf(j, now, A) ==
    LET seenNodes == j.seen.on \cap A
        before == IF Effective(j.seen) THEN j.old ELSE {}
        after == IF Effective(now) THEN now.on \cap A ELSE {}
    IN CASE j.kind = "create" -> Over("add", now.uuid, after)
         [] j.kind = "delete" -> Over("remove", 0, j.old)
         [] j.kind = "toggle" /\ j.seen.active -> Over("remove", 0, seenNodes)
         [] j.kind = "toggle" /\ ~j.seen.active ->
                Over("add", j.seen.uuid, IF Lapsed(j.seen, now) THEN {} ELSE seenNodes)
         [] j.kind = "reset" ->
                Over("replace", j.seen.uuid,
                     IF j.seen.active /\ ~Lapsed(j.seen, now) THEN seenNodes ELSE {})
         [] OTHER -> Over("add", now.uuid, after \ before)
                       \o Over("remove", 0, before \ after)

Plan(p) ==
    /\ job[p].pc = "plan"
    /\ Set(p, [job[p] EXCEPT !.pc = "rows",
                        !.passes = PassesOf(job[p], user[job[p].u], ActiveNodes)])
    /\ UNCHANGED <<mode, tables, hosts, lock, used>>

-----------------------------------------------------------------------------
(* LiveSyncService: applyOverNodes and applyOnNode.                        *)

(* FindByIDs: the node rows, and with them the status each had, are read   *)
(* once, before any lock.                                                  *)
ReadRows(p) ==
    /\ job[p].pc = "rows"
    /\ IF job[p].passes = <<>>
       THEN IF p = Sweeper THEN Goto(p, "sweep") ELSE Set(p, Idle)
       ELSE Set(p, [job[p] EXCEPT !.pc = "next", !.todo = Head(job[p].passes).on,
                        !.rows = {n \in Nodes : node[n].status = "synced"}])
    /\ UNCHANGED <<mode, tables, hosts, lock, used>>

PassDone(p) ==
    /\ job[p].pc = "next" /\ job[p].todo = {}
    /\ Set(p, [job[p] EXCEPT !.pc = "rows", !.passes = Tail(@)])
    /\ UNCHANGED <<mode, tables, hosts, lock, used>>

(* Mutant of LockAndBuild: lockNode is not called.                         *)
LockAndBuild_NoLock(p, n) ==
    /\ job[p].pc = "next" /\ n \in job[p].todo
    /\ Set(p, [job[p] EXCEPT !.pc = "upload", !.todo = @ \ {n}, !.at = n,
                             !.cfg = Desired(n)])
    /\ UNCHANGED <<mode, tables, hosts, lock, used>>

(* lockNode, then buildConfig from the tables as they are now.             *)
LockAndBuild(p, n) ==
    /\ job[p].pc = "next" /\ n \in job[p].todo /\ lock[n] = Nobody
    /\ lock' = [lock EXCEPT ![n] = p]
    /\ Set(p, [job[p] EXCEPT !.pc = "upload", !.todo = @ \ {n}, !.at = n,
                             !.cfg = Desired(n)])
    /\ UNCHANGED <<mode, tables, hosts, used>>

Unlock(p) == lock' = [lock EXCEPT ![At(p)] = Nobody]

Upload(p) ==
    /\ job[p].pc = "upload"
    /\ \/ /\ disk' = [disk EXCEPT ![At(p)] = job[p].cfg]
          /\ Goto(p, "grpc") /\ UNCHANGED <<lock, used>>
       \/ /\ Spend("dial") /\ Unlock(p)
          /\ Goto(p, "mark") /\ UNCHANGED disk
    /\ UNCHANGED <<mode, tables, run>>

(* What xray does: no second account under one email.                      *)
Without(accounts, u) == {a \in accounts : a[1] # u}
Applied(accounts, verb, u, id) ==
    CASE verb = "remove"  -> Without(accounts, u)
      [] verb = "replace" -> Without(accounts, u) \cup {<<u, id>>}
      [] OTHER -> IF \E a \in accounts : a[1] = u THEN accounts
                  ELSE accounts \cup {<<u, id>>}

(* DialGRPC may fail, which is an error; an AlterInbound that fails is     *)
(* logged and tolerated, and may leave a replacement half done.            *)
Grpc(p) ==
    LET pass == Head(job[p].passes)
        accounts == run[At(p)].users
        Alter(after) == run' = [run EXCEPT ![At(p)].users = after]
    IN /\ job[p].pc = "grpc"
       /\ \/ /\ Alter(Applied(accounts, pass.verb, job[p].u, pass.uuid))
             /\ Goto(p, "record") /\ UNCHANGED <<lock, used>>
          \/ /\ Spend("rpc") /\ Goto(p, "record") /\ UNCHANGED lock
             /\ \/ UNCHANGED run
                \/ pass.verb = "replace" /\ Alter(Without(accounts, job[p].u))
          \/ /\ Spend("dial") /\ Unlock(p)
             /\ Goto(p, "mark") /\ UNCHANGED run
       /\ UNCHANGED <<mode, tables, disk>>

UpdateLastSync(n, c) ==
    node' = [node EXCEPT ![n].status = "synced", ![n].hash = c]

(* Mutant of Record: written back whatever the status was.                 *)
Record_Always(p) ==
    /\ job[p].pc = "record"
    /\ UpdateLastSync(At(p), job[p].cfg)
    /\ Unlock(p) /\ Goto(p, "next")
    /\ UNCHANGED <<mode, user, base, hosts, used>>

(* Only a node that was synced when its row was read is written back.      *)
Record(p) ==
    /\ job[p].pc = "record"
    /\ IF At(p) \in job[p].rows THEN UpdateLastSync(At(p), job[p].cfg)
       ELSE UNCHANGED node
    /\ Unlock(p) /\ Goto(p, "next")
    /\ UNCHANGED <<mode, user, base, hosts, used>>

(* A node that failed is marked, after its lock was released.              *)
MarkDrifted(p) ==
    /\ job[p].pc = "mark"
    /\ node' = [node EXCEPT ![At(p)].status = "drifted"]
    /\ Goto(p, "next")
    /\ UNCHANGED <<mode, user, base, hosts, lock, used>>

-----------------------------------------------------------------------------
(* SweepExpired.                                                           *)

Expired(r) == There(r) /\ r.active /\ r.expiry = "past"

RemovalFrom(S) == Over("remove", 0, S \cap ActiveNodes)

(* Mutant of SweepStart: the rows come without their groups.               *)
SweepStart_NoGroups ==
    /\ job[Sweeper].pc = "idle" /\ MyTurn
    /\ LET due == {u \in Users : Expired(user[u]) /\ ~user[u].swept}
       IN \E u \in due :
            Set(Sweeper, [Idle EXCEPT !.pc = "rows", !.kind = "sweep", !.u = u,
                    !.sweep = {<<v, user[v]>> : v \in due \ {u}}])
    /\ UNCHANGED <<mode, tables, hosts, lock, used>>

(* FindExpiredUnswept: the rows are read once for the whole sweep.         *)
SweepStart ==
    /\ job[Sweeper].pc = "idle" /\ MyTurn
    /\ LET due == {u \in Users : Expired(user[u]) /\ ~user[u].swept}
       IN \E u \in due :
            Set(Sweeper, [Idle EXCEPT !.pc = "rows", !.kind = "sweep", !.u = u,
                    !.sweep = {<<v, user[v]>> : v \in due \ {u}},
                    !.passes = RemovalFrom(user[u].on)])
    /\ UNCHANGED <<mode, tables, hosts, lock, used>>

(* MarkExpiredSwept, then the next user of the list.                       *)
SweepMark ==
    LET j == job[Sweeper]
    IN /\ j.pc = "sweep"
       /\ user' = [user EXCEPT ![j.u].swept = There(user[j.u])]
       /\ IF j.sweep = {} THEN Set(Sweeper, Idle)
          ELSE \E s \in j.sweep :
                Set(Sweeper, [j EXCEPT !.pc = "rows", !.u = s[1],
                        !.sweep = @ \ {s}, !.passes = RemovalFrom(s[2].on)])
       /\ UNCHANGED <<mode, base, node, hosts, lock, used>>

-----------------------------------------------------------------------------
(* Pushes that restart xray, changes that need one, and the drift check.   *)

SyncBuild(p, n) ==
    /\ "sync" \in mode.requests /\ job[p].pc = "idle" /\ lock[n] = Nobody
    /\ MyTurn /\ Spend("request")
    /\ lock' = [lock EXCEPT ![n] = p]
    /\ Set(p, [Idle EXCEPT !.pc = "push", !.at = n, !.cfg = Desired(n)])
    /\ UNCHANGED <<mode, tables, hosts>>

SyncPush(p) ==
    /\ job[p].pc = "push"
    /\ \/ /\ disk' = [disk EXCEPT ![At(p)] = job[p].cfg]
          /\ run' = [run EXCEPT ![At(p)] = job[p].cfg]
          /\ Goto(p, "pushed") /\ UNCHANGED <<node, lock, used>>
       \/ /\ Spend("dial") /\ Unlock(p)
          /\ node' = [node EXCEPT ![At(p)].status = "failed"]
          /\ Set(p, Idle) /\ UNCHANGED hosts
    /\ UNCHANGED <<mode, user, base>>

SyncRecord(p) ==
    /\ job[p].pc = "pushed"
    /\ UpdateLastSync(At(p), job[p].cfg)
    /\ Unlock(p) /\ Set(p, Idle)
    /\ UNCHANGED <<mode, user, base, hosts, used>>

(* A profile, key or setting changes; then the active nodes are marked.    *)
Edit(p) ==
    /\ "edit" \in mode.requests /\ job[p].pc = "idle" /\ MyTurn /\ Spend("request")
    /\ base' = used'["request"]
    /\ Set(p, [Idle EXCEPT !.pc = "editMark"])
    /\ UNCHANGED <<mode, user, node, hosts, lock>>

MarkAllDrifted(p) ==
    /\ job[p].pc = "editMark"
    /\ node' = [n \in Nodes |-> IF node[n].active
                    THEN [node[n] EXCEPT !.status = "drifted"] ELSE node[n]]
    /\ Set(p, Idle)
    /\ UNCHANGED <<mode, user, base, hosts, lock, used>>

(* The drift check, in one step (its races are ConfigSync's subject).      *)
CheckDrift(n) ==
    /\ node[n].active /\ MyTurn
    /\ node' = [node EXCEPT ![n].status =
                    IF Desired(n) = node[n].hash /\ Desired(n) = disk[n]
                    THEN "synced" ELSE "drifted"]
    /\ UNCHANGED <<mode, user, base, hosts, lock, job, used>>

-----------------------------------------------------------------------------
(* The rest.                                                               *)

ToggleNode(n) ==
    /\ Spend("node") /\ node' = [node EXCEPT ![n].active = ~@]
    /\ UNCHANGED <<mode, user, base, hosts, lock, job>>
(* Time passes a user's expiry.                                            *)
Expire(u) ==
    /\ There(user[u]) /\ user[u].expiry = "ahead" /\ Spend("expire")
    /\ user' = [user EXCEPT ![u].expiry = "past"]
    /\ UNCHANGED <<mode, base, node, hosts, lock, job>>
(* A server restarts: its xray reads config.json.                          *)
RestartXray(n) ==
    /\ Spend("restart") /\ run' = [run EXCEPT ![n] = disk[n]]
    /\ UNCHANGED <<mode, tables, disk, lock, job>>
Crash ==
    /\ Spend("crash")
    /\ job' = [p \in Workers |-> Idle]
    /\ lock' = [n \in Nodes |-> Nobody]
    /\ UNCHANGED <<mode, tables, hosts>>

Begin(p) == \/ \E u \in Users, S \in SUBSET Nodes : Create(p, u, S)
            \/ \E u \in Users, kind \in {"delete", "toggle", "reset", "regroup",
                                         "renew"} : Read(p, kind, u)
            \/ \E n \in Nodes : SyncBuild(p, n)
            \/ Edit(p)
Proceed(p) == \/ Delete(p) \/ ToggleActive(p) \/ ResetUUID(p) \/ Renew(p)
              \/ \E S \in SUBSET Nodes : Regroup(p, S)
              \/ Plan(p) \/ SyncPush(p) \/ SyncRecord(p) \/ MarkAllDrifted(p)
Live(p) == \/ ReadRows(p) \/ PassDone(p) \/ Upload(p) \/ Grpc(p) \/ Record(p)
           \/ MarkDrifted(p) \/ \E n \in Nodes : LockAndBuild(p, n)
Sweep == SweepStart \/ SweepMark \/ Live(Sweeper)

Next ==
    \/ \E p \in Procs : Begin(p) \/ Proceed(p) \/ Live(p)
    \/ Sweep \/ Crash
    \/ \E n \in Nodes : CheckDrift(n) \/ ToggleNode(n) \/ RestartXray(n)
    \/ \E u \in Users : Expire(u)

Spec == Init /\ [][Next]_vars

(* The scheduler's loops run on, requests proceed, and a node lock that is *)
(* free again and again is got.                                            *)
Fairness == /\ \A n \in Nodes : WF_vars(CheckDrift(n))
            /\ SF_vars(Sweep)
            /\ \A p \in Procs : WF_vars(Proceed(p)) /\ SF_vars(Live(p))
FairSpec == Spec /\ Fairness

-----------------------------------------------------------------------------
(* Properties.                                                             *)

(* Every variable keeps to its domain.                                     *)
TypeOK == /\ user \in [Users -> User] /\ base \in Versions
          /\ node \in [Nodes -> Row] /\ disk \in [Nodes -> Config]
          /\ run \in [Nodes -> Config] /\ lock \in [Nodes -> Workers \cup {Nobody}]
          /\ job \in [Workers -> Job] /\ used \in [Events -> Nat]

NeverCrashed == used["crash"] = 0

(* Accounts of users whose expiry has passed and who wait for the sweep.   *)
Leaving(n) == {a \in run[n].users : /\ Expired(user[a[1]]) /\ ~user[a[1]].swept
                                    /\ n \in user[a[1]].on}

ServedAsRecorded(n) ==
    /\ run[n].base = base
    /\ Desired(n).users \subseteq run[n].users
    /\ run[n].users \subseteq Desired(n).users \cup Leaving(n)

(* What livesync.go promises (17-25, 173-178): a node that shows synced,   *)
(* and whose recorded hash is what would be generated now - so that        *)
(* neither SyncDrifted nor the drift check will ever touch it - runs with  *)
(* exactly the users it should; where requests take turns and one call to  *)
(* a server fails at most (after two, the drift check may unmark a node    *)
(* whose xray missed a change).                                            *)
Served ==
    Quiet /\ NeverCrashed => \A n \in Nodes :
        node[n].active /\ node[n].status = "synced" /\ node[n].hash = Desired(n)
            => ServedAsRecorded(n)
SyncedMeansServed == ~mode.together /\ used["dial"] <= 1 => Served

(* user.go, SweepExpired: a renewal clears the mark of the sweep, or the   *)
(* user's next expiry would go unnoticed.                                  *)
SweptMeansExpired ==
    Quiet => \A u \in Users : user[u].swept => user[u].expiry = "past"

(* nodelock.go, and live passes that generate the configuration under the  *)
(* lock and after the change was written: however user changes and pushes  *)
(* interleave, once all are done the file on every server of a node that    *)
(* shows synced holds every change; one that could not be reached does not *)
(* show synced.                                                            *)
FilesAreCurrent ==
    Quiet /\ NeverCrashed
        => \A n \in ActiveNodes : node[n].status = "synced" => disk[n] = Desired(n)

(* An expired user is taken out of every node's running xray, unless it is *)
(* no longer expired by then: the scheduler's sweep gets round to it.      *)
Unswept(u) == Expired(user[u]) /\ ~user[u].swept
ExpiredUserLeaves ==
    \A u \in Users : Unswept(u) ~>
        \/ ~Expired(user[u])
        \/ \A n \in ActiveNodes : \A a \in run[n].users : a[1] # u

=============================================================================
