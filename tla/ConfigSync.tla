----------------------------- MODULE ConfigSync -----------------------------
(***************************************************************************)
(* How the panel pushes generated xray configurations to its nodes and     *)
(* keeps each node row's sync status: SyncService (SyncNode, SyncAll,      *)
(* SyncDrifted, CheckDriftAll), the SSH upload and reload it is made of,   *)
(* the per-node lock, and the services that change what a node's           *)
(* configuration should be (profiles, keys, groups, node edits, server     *)
(* replacement) while pushes and drift checks are under way.               *)
(*                                                                         *)
(* A configuration is an opaque value and its SHA-256 the value itself.    *)
(* One database statement, or one remote command, is one step.             *)
(***************************************************************************)
EXTENDS Naturals

CONSTANTS
    Nodes,      \* node ids
    Addrs,      \* server addresses a node row may point at, per node
    Workers,    \* concurrent request goroutines (API calls, install callbacks)
    Config,     \* configurations GenerateConfig may return
    NoConfig,   \* no protocol bound / empty hash / no readable remote file
    Foreign,    \* remote content the panel did not generate (or half a file)
    NoWorker,   \* nobody holds the node lock
    Limit,      \* bounds of the model: kind of event -> how often it may occur
    Budget      \* and how many of them together

Kinds == {"edit", "move", "save", "toggle", "tamper", "crash"}

ASSUME ConfigSyncAssumption ==
    /\ NoConfig \notin Config /\ Foreign \notin Config /\ NoConfig # Foreign
    /\ Nodes # {} /\ Addrs # {} /\ NoWorker \notin Workers
    /\ Limit \in [Kinds -> Nat] /\ Budget \in Nat

Content == Config \cup {NoConfig, Foreign}
Hash    == Config \cup {NoConfig}
Status  == {"pending", "synced", "drifted", "failed"}
Row     == [status : Status, hash : Hash, active : BOOLEAN, addr : Addrs]

WorkerPc == {"idle", "next", "find", "build", "upload", "move", "reload",
             "record", "fail", "reportOk", "reportFail",
             "markAll", "markSome", "save", "swap"}
CheckPc  == {"idle", "next", "build", "read", "mark", "confirm"}

VARIABLES
    row,        \* the nodes table
    src,        \* what buildConfig would generate now (NoConfig: an error)
    disk,       \* config.json on each server
    tmp,        \* config.json.tmp on each server
    lock,       \* nodeLocks
    alert,      \* alerting flag of the node's sync_failed alert row
    pc,         \* where each worker is
    at,         \* the node each worker is working on
    todo,       \* nodes the worker still has to synchronise, or to mark
    seen,       \* the node row each worker read
    cfg,        \* the configuration each worker built
    chk,        \* the drift-check loop: its pc, node, todo, row read, config
    used,       \* bounded events so far
    installed,  \* history: content moved into place on each server
    lastResult  \* history: outcome of the last SyncNode that ended on the node

rowVars  == <<row, src>>
hostVars == <<disk, tmp>>
jobVars  == <<pc, at, todo, seen, cfg>>
histVars == <<installed, lastResult>>
vars == <<row, src, disk, tmp, lock, alert, pc, at, todo, seen, cfg,
          chk, used, installed, lastResult>>

-----------------------------------------------------------------------------
(* State shared by the actions.                                            *)

AnyNode  == CHOOSE n \in Nodes : TRUE
AnyAddr  == CHOOSE a \in Addrs : TRUE
FirstRow == [status |-> "pending", hash |-> NoConfig, active |-> TRUE,
             addr |-> AnyAddr]
IdleCheck == [pc |-> "idle", at |-> AnyNode, todo |-> {}, seen |-> FirstRow,
              cfg |-> NoConfig]

Init ==
    /\ row = [n \in Nodes |-> FirstRow]
    /\ src \in [Nodes -> Hash]
    /\ disk = [n \in Nodes |-> [a \in Addrs |-> NoConfig]]
    /\ tmp = disk
    /\ lock = [n \in Nodes |-> NoWorker]
    /\ alert = [n \in Nodes |-> FALSE]
    /\ pc = [w \in Workers |-> "idle"]
    /\ at = [w \in Workers |-> AnyNode]
    /\ todo = [w \in Workers |-> {}]
    /\ seen = [w \in Workers |-> FirstRow]
    /\ cfg = [w \in Workers |-> NoConfig]
    /\ chk = IdleCheck
    /\ used = [k \in Kinds |-> 0]
    /\ installed = [n \in Nodes |-> [a \in Addrs |-> {}]]
    /\ lastResult = [n \in Nodes |-> "none"]

EventsSoFar == used["edit"] + used["move"] + used["save"] + used["toggle"]
                 + used["tamper"] + used["crash"]

Spend(k) == /\ used[k] < Limit[k] /\ EventsSoFar < Budget
            /\ used' = [used EXCEPT ![k] = @ + 1]

Goto(w, label) == pc' = [pc EXCEPT ![w] = label]

(* A goroutine ends: its local variables are gone.                         *)
Finish(w) == /\ Goto(w, "idle")
             /\ at' = [at EXCEPT ![w] = AnyNode]
             /\ todo' = [todo EXCEPT ![w] = {}]
             /\ seen' = [seen EXCEPT ![w] = FirstRow]
             /\ cfg' = [cfg EXCEPT ![w] = NoConfig]

(* UPDATE nodes SET sync_status = s[, config_hash = h] WHERE id = n        *)
UpdateStatus(n, s)      == row' = [row EXCEPT ![n].status = s]
UpdateLastSync(n, s, h) == row' = [row EXCEPT ![n].status = s, ![n].hash = h]

(* MarkAllDrifted touches the active rows, whatever their status.          *)
MarkAllDrifted ==
    row' = [n \in Nodes |-> IF row[n].active
                            THEN [row[n] EXCEPT !.status = "drifted"]
                            ELSE row[n]]

ActiveNodes  == {n \in Nodes : row[n].active}
DriftedNodes == {n \in ActiveNodes : /\ row[n].status # "synced"
                                     /\ src[n] # NoConfig}

-----------------------------------------------------------------------------
(* SyncNode, SyncAll and SyncDrifted.                                      *)

(* A request starts: one node, the active ones, or those GetDriftedNodes   *)
(* returns.  The list is a snapshot; the nodes are then done one by one.   *)
SyncStart(w) ==
    /\ pc[w] = "idle"
    /\ \E S \in {{n} : n \in Nodes} \cup {ActiveNodes, DriftedNodes} :
        /\ S # {}
        /\ todo' = [todo EXCEPT ![w] = S]
    /\ Goto(w, "next")
    /\ UNCHANGED <<rowVars, hostVars, lock, alert, at, seen, cfg, chk, used,
                   histVars>>

(* lockNode.                                                               *)
SyncLock(w, n) ==
    /\ pc[w] = "next"
    /\ n \in todo[w]
    /\ lock[n] = NoWorker
    /\ lock' = [lock EXCEPT ![n] = w]
    /\ at' = [at EXCEPT ![w] = n]
    /\ todo' = [todo EXCEPT ![w] = @ \ {n}]
    /\ Goto(w, "find")
    /\ UNCHANGED <<rowVars, hostVars, alert, seen, cfg, chk, used, histVars>>

(* FindByID: sshParams will use the address of this row, whatever becomes  *)
(* of it; nothing else of the row is used later.                           *)
SyncFind(w) ==
    /\ pc[w] = "find"
    /\ seen' = [seen EXCEPT ![w] = [FirstRow EXCEPT !.addr = row[at[w]].addr]]
    /\ Goto(w, "build")
    /\ UNCHANGED <<rowVars, hostVars, lock, alert, at, todo, cfg, chk, used,
                   histVars>>

(* buildConfig; it fails when no protocol is bound to the node.            *)
SyncBuild(w) ==
    /\ pc[w] = "build"
    /\ cfg' = [cfg EXCEPT ![w] = src[at[w]]]
    /\ Goto(w, IF src[at[w]] = NoConfig THEN "fail" ELSE "upload")
    /\ UNCHANGED <<rowVars, hostVars, lock, alert, at, todo, seen, chk, used,
                   histVars>>

(* Mutant of UploadTmp: a broken session is taken for the end of the file. *)
UploadTmp_IgnoreBreak(w) ==
    LET n == at[w]
        a == seen[w].addr
    IN /\ pc[w] = "upload"
       /\ tmp' \in {[tmp EXCEPT ![n][a] = cfg[w]],
                    [tmp EXCEPT ![n][a] = Foreign]}
       /\ Goto(w, "move")
       /\ UNCHANGED <<rowVars, disk, lock, alert, at, todo, seen, cfg, chk,
                      used, histVars>>

(* Connect, then `cat > config.json.tmp`.  A broken session leaves the     *)
(* temporary file as it was, or half written.                              *)
UploadTmp(w) ==
    LET n == at[w]
        a == seen[w].addr
    IN /\ pc[w] = "upload"
       /\ \/ /\ tmp' = [tmp EXCEPT ![n][a] = cfg[w]]
             /\ Goto(w, "move")
          \/ /\ tmp' \in {tmp, [tmp EXCEPT ![n][a] = Foreign]}
             /\ Goto(w, "fail")
       /\ UNCHANGED <<rowVars, disk, lock, alert, at, todo, seen, cfg, chk,
                      used, histVars>>

(* `mv config.json.tmp config.json`, which fails when the temporary file   *)
(* is gone or the session breaks.                                          *)
UploadMove(w) ==
    LET n == at[w]
        a == seen[w].addr
    IN /\ pc[w] = "move"
       /\ \/ /\ tmp[n][a] # NoConfig
             /\ disk' = [disk EXCEPT ![n][a] = tmp[n][a]]
             /\ tmp' = [tmp EXCEPT ![n][a] = NoConfig]
             /\ installed' = [installed EXCEPT ![n][a] = @ \cup {tmp[n][a]}]
             /\ Goto(w, "reload")
          \/ /\ UNCHANGED <<disk, tmp, installed>>
             /\ Goto(w, "fail")
       /\ UNCHANGED <<rowVars, lock, alert, at, todo, seen, cfg, chk, used,
                      lastResult>>

(* ReloadXray.  What xray runs afterwards is not part of this module.      *)
ReloadXray(w) ==
    /\ pc[w] = "reload"
    /\ Goto(w, "record") \/ Goto(w, "fail")
    /\ UNCHANGED <<rowVars, hostVars, lock, alert, at, todo, seen, cfg, chk,
                   used, histVars>>

(* Mutant of SyncRecord: the hash of what would be generated by now.       *)
SyncRecord_Rebuild(w) ==
    /\ pc[w] = "record"
    /\ UpdateLastSync(at[w], "synced", src[at[w]])
    /\ lastResult' = [lastResult EXCEPT ![at[w]] = "ok"]
    /\ Goto(w, "reportOk")
    /\ UNCHANGED <<src, hostVars, lock, alert, at, todo, seen, cfg, chk, used,
                   installed>>

(* UpdateLastSync(synced, hash of what was pushed).                        *)
SyncRecord(w) ==
    /\ pc[w] = "record"
    /\ UpdateLastSync(at[w], "synced", cfg[w])
    /\ lastResult' = [lastResult EXCEPT ![at[w]] = "ok"]
    /\ Goto(w, "reportOk")
    /\ UNCHANGED <<src, hostVars, lock, alert, at, todo, seen, cfg, chk, used,
                   installed>>

(* failNode: the status only, the hash of the last good push stays.        *)
FailNode(w) ==
    /\ pc[w] = "fail"
    /\ UpdateStatus(at[w], "failed")
    /\ lastResult' = [lastResult EXCEPT ![at[w]] = "fail"]
    /\ Goto(w, "reportFail")
    /\ UNCHANGED <<src, hostVars, lock, alert, at, todo, seen, cfg, chk, used,
                   installed>>

(* Mutant of SyncReport: the lock is given up before the alert is told.    *)
SyncReport_AfterUnlock(w) ==
    /\ pc[w] \in {"reportOk", "reportFail"}
    /\ \/ /\ lock[at[w]] = w
          /\ lock' = [lock EXCEPT ![at[w]] = NoWorker]
          /\ UNCHANGED <<alert, jobVars>>
       \/ /\ lock[at[w]] # w
          /\ alert' = [alert EXCEPT ![at[w]] = pc[w] = "reportFail"]
          /\ Finish(w)
          /\ UNCHANGED lock
    /\ UNCHANGED <<rowVars, hostVars, chk, used, histVars>>

(* Mutant of SyncReport: the unlock is missing.                            *)
SyncReport_NoUnlock(w) ==
    /\ pc[w] \in {"reportOk", "reportFail"}
    /\ alert' = [alert EXCEPT ![at[w]] = pc[w] = "reportFail"]
    /\ Finish(w)
    /\ UNCHANGED <<rowVars, hostVars, lock, chk, used, histVars>>

(* reportSyncAlert runs before the deferred unlock.  The sync_failed kind  *)
(* has thresholds of one, so the row alerts exactly when this result is a  *)
(* failure.                                                                *)
SyncReport(w) ==
    LET n == at[w]
    IN /\ pc[w] \in {"reportOk", "reportFail"}
       /\ alert' = [alert EXCEPT ![n] = pc[w] = "reportFail"]
       /\ lock' = [lock EXCEPT ![n] = NoWorker]
       /\ \/ /\ todo[w] = {}
             /\ Finish(w)
          \/ /\ todo[w] # {}
             /\ Goto(w, "next")
             /\ at' = [at EXCEPT ![w] = AnyNode]
             /\ seen' = [seen EXCEPT ![w] = FirstRow]
             /\ cfg' = [cfg EXCEPT ![w] = NoConfig]
             /\ UNCHANGED todo
       /\ UNCHANGED <<rowVars, hostVars, chk, used, histVars>>

SyncStep(w) ==
    \/ \E n \in Nodes : SyncLock(w, n)
    \/ SyncFind(w) \/ SyncBuild(w)
    \/ UploadTmp(w) \/ UploadMove(w) \/ ReloadXray(w)
    \/ SyncRecord(w) \/ FailNode(w) \/ SyncReport(w)

-----------------------------------------------------------------------------
(* Operations that change what a node's configuration should be.           *)

(* New values of src on the nodes of S, unchanged elsewhere.               *)
SourceChange(S) ==
    /\ src' \in [Nodes -> Hash]
    /\ \A n \in Nodes \ S : src'[n] = src[n]

(* Profile and key writes (and user writes while live apply is off) end in *)
(* MarkAllDrifted, a statement of its own after the write.                 *)
EditShared(w) ==
    /\ pc[w] = "idle"
    /\ Spend("edit")
    /\ SourceChange(Nodes)
    /\ Goto(w, "markAll")
    /\ UNCHANGED <<row, hostVars, lock, alert, at, todo, seen, cfg, chk,
                   histVars>>

(* Group writes mark the old and new member nodes, inactive ones too.      *)
EditGroup(w) ==
    /\ pc[w] = "idle"
    /\ Spend("edit")
    /\ \E S \in SUBSET Nodes :
        /\ S # {}
        /\ SourceChange(S)
        /\ todo' = [todo EXCEPT ![w] = S]
    /\ Goto(w, "markSome")
    /\ UNCHANGED <<row, hostVars, lock, alert, at, seen, cfg, chk, histVars>>

Mark(w) ==
    /\ \/ /\ pc[w] = "markAll"
          /\ MarkAllDrifted
       \/ /\ pc[w] = "markSome"
          /\ row' = [n \in Nodes |-> IF n \in todo[w]
                                     THEN [row[n] EXCEPT !.status = "drifted"]
                                     ELSE row[n]]
    /\ Finish(w)
    /\ UNCHANGED <<src, hostVars, lock, alert, chk, used, histVars>>

(* Writes that mark nothing: the xray log settings, and the clock passing  *)
(* a user's expiry.  Drift detection is all that notices them.             *)
EditSilently ==
    /\ Spend("edit")
    /\ SourceChange(Nodes)
    /\ UNCHANGED <<row, hostVars, lock, alert, jobVars, chk, histVars>>

(* NodeService.ToggleActive: one column, whatever else goes on.            *)
ToggleActive(n) ==
    /\ Spend("toggle")
    /\ row' = [row EXCEPT ![n].active = ~@]
    /\ UNCHANGED <<src, hostVars, lock, alert, jobVars, chk, histVars>>

(* NodeService.Update reads the row and later saves all of its columns, so *)
(* it also writes back the status and the hash it read.                    *)
UpdateFind(w, n) ==
    /\ pc[w] = "idle"
    /\ Spend("save")
    /\ at' = [at EXCEPT ![w] = n]
    /\ seen' = [seen EXCEPT ![w] = row[n]]
    /\ Goto(w, "save")
    /\ UNCHANGED <<rowVars, hostVars, lock, alert, todo, cfg, chk, histVars>>

(* Name, remark, ... changed; a changed log level also changes src and is  *)
(* not marked.                                                             *)
UpdateSave(w) ==
    /\ pc[w] = "save"
    /\ row' = [row EXCEPT ![at[w]] = seen[w]]
    /\ SourceChange({at[w]})
    /\ Finish(w)
    /\ UNCHANGED <<hostVars, lock, alert, chk, used, histVars>>

(* IP or domain changed (the domain alone leaves the SSH address).         *)
UpdateSaveAddr(w) ==
    /\ pc[w] = "save"
    /\ Spend("move")
    /\ \E a \in Addrs :
        row' = [row EXCEPT ![at[w]] = [seen[w] EXCEPT !.status = "drifted",
                                                      !.addr = a]]
    /\ Finish(w)
    /\ UNCHANGED <<src, hostVars, lock, alert, chk, histVars>>

(* registerReplace: the row as read, moved to the new server, pending and  *)
(* without a hash.                                                         *)
ReplaceFind(w, n) ==
    /\ pc[w] = "idle"
    /\ Spend("move")
    /\ at' = [at EXCEPT ![w] = n]
    /\ seen' = [seen EXCEPT ![w] = row[n]]
    /\ Goto(w, "swap")
    /\ UNCHANGED <<rowVars, hostVars, lock, alert, todo, cfg, chk, histVars>>

(* Mutant of ReplaceSave: the status is not reset with the hash.           *)
ReplaceSave_KeepStatus(w) ==
    /\ pc[w] = "swap"
    /\ \E a \in Addrs :
         row' = [row EXCEPT ![at[w]] = [seen[w] EXCEPT !.hash = NoConfig,
                                                       !.addr = a]]
    /\ Finish(w)
    /\ UNCHANGED <<src, hostVars, lock, alert, chk, used, histVars>>

(* The node is then synchronised in the background if it can be reached.   *)
ReplaceSave(w) ==
    LET n == at[w]
    IN /\ pc[w] = "swap"
       /\ \E a \in Addrs :
            row' = [row EXCEPT ![n] = [seen[w] EXCEPT !.status = "pending",
                                                      !.hash = NoConfig,
                                                      !.addr = a]]
       /\ \/ /\ todo' = [todo EXCEPT ![w] = {n}]
             /\ Goto(w, "next")
             /\ at' = [at EXCEPT ![w] = AnyNode]
             /\ seen' = [seen EXCEPT ![w] = FirstRow]
             /\ UNCHANGED cfg
          \/ Finish(w)
       /\ UNCHANGED <<src, hostVars, lock, alert, chk, used, histVars>>

EditStep(w) ==
    \/ EditShared(w) \/ EditGroup(w) \/ Mark(w)
    \/ \E n \in Nodes : UpdateFind(w, n) \/ ReplaceFind(w, n)
    \/ UpdateSave(w) \/ UpdateSaveAddr(w) \/ ReplaceSave(w)

-----------------------------------------------------------------------------
(* CheckDriftAll, the scheduler's drift_check loop.  It takes no lock.     *)

chkFrame == <<src, hostVars, lock, alert, jobVars, used, histVars>>
NextNode == [IdleCheck EXCEPT !.pc = "next", !.todo = chk.todo]
Then(label) == [chk EXCEPT !.pc = label, !.seen = FirstRow]

(* Mutant of CheckTick: only nodes already known not to be synced.         *)
CheckTick_NotSynced ==
    /\ chk.pc = "idle"
    /\ chk' = [chk EXCEPT !.pc = "next",
                          !.todo = {n \in ActiveNodes :
                                      /\ row[n].hash # NoConfig
                                      /\ row[n].status # "synced"}]
    /\ UNCHANGED <<row, chkFrame>>

(* A tick: the active nodes that have been synchronised at least once.     *)
CheckTick ==
    /\ chk.pc = "idle"
    /\ chk' = [chk EXCEPT !.pc = "next",
                          !.todo = {n \in ActiveNodes : row[n].hash # NoConfig}]
    /\ UNCHANGED <<row, chkFrame>>

CheckEnd ==
    /\ chk.pc = "next" /\ chk.todo = {}
    /\ chk' = IdleCheck
    /\ UNCHANGED <<row, chkFrame>>

(* FindByID; a pending node is left alone.                                 *)
CheckFind(n) ==
    /\ chk.pc = "next" /\ n \in chk.todo
    /\ chk' = IF row[n].status = "pending"
              THEN [chk EXCEPT !.todo = @ \ {n}]
              ELSE [chk EXCEPT !.pc = "build", !.at = n, !.todo = @ \ {n},
                               !.seen = [row[n] EXCEPT !.active = TRUE]]
    /\ UNCHANGED <<row, chkFrame>>

(* Expected configuration against the hash of the row that was read.       *)
CheckBuild ==
    LET expected == src[chk.at]
    IN /\ chk.pc = "build"
       /\ chk' = CASE expected = NoConfig -> NextNode
                   [] expected \notin {NoConfig, chk.seen.hash} -> Then("mark")
                   [] OTHER -> [chk EXCEPT !.pc = "read", !.cfg = expected]
       /\ UNCHANGED <<row, chkFrame>>

(* ReadRemoteConfig fails, or finds no file: nothing is concluded.         *)
CheckReadFails ==
    /\ chk.pc = "read"
    /\ chk' = NextNode
    /\ UNCHANGED <<row, chkFrame>>

(* Mutant of CheckReadOk: what the server holds is not compared.           *)
CheckReadOk_NoCompare ==
    /\ chk.pc = "read"
    /\ disk[chk.at][chk.seen.addr] # NoConfig
    /\ chk' = IF chk.seen.status # "synced" THEN Then("confirm") ELSE NextNode
    /\ UNCHANGED <<row, chkFrame>>

CheckReadOk ==
    LET found == disk[chk.at][chk.seen.addr]
    IN /\ chk.pc = "read"
       /\ found # NoConfig
       /\ chk' = IF found # chk.cfg THEN Then("mark")
                 ELSE IF chk.seen.status # "synced" THEN Then("confirm")
                 ELSE NextNode
       /\ UNCHANGED <<row, chkFrame>>

(* Mutant of CheckMark: the hash found on the server is recorded, too.     *)
CheckMark_RecordFound ==
    /\ chk.pc = "mark"
    /\ UpdateLastSync(chk.at, "drifted", disk[chk.at][row[chk.at].addr])
    /\ chk' = NextNode
    /\ UNCHANGED chkFrame

CheckMark ==
    /\ chk.pc = "mark"
    /\ UpdateStatus(chk.at, "drifted")
    /\ chk' = NextNode
    /\ UNCHANGED chkFrame

CheckConfirm ==
    /\ chk.pc = "confirm"
    /\ UpdateLastSync(chk.at, "synced", chk.cfg)
    /\ chk' = NextNode
    /\ UNCHANGED chkFrame

CheckStep ==
    \/ CheckTick \/ CheckEnd \/ \E n \in Nodes : CheckFind(n)
    \/ CheckBuild \/ CheckReadFails \/ CheckReadOk \/ CheckMark
    \/ CheckConfirm

-----------------------------------------------------------------------------
(* The environment.                                                        *)

(* A file edited by hand on the server, or the server reinstalled.         *)
HostChanged(n, a) ==
    /\ Spend("tamper")
    /\ \/ /\ disk' = [disk EXCEPT ![n][a] = Foreign]
          /\ UNCHANGED tmp
       \/ /\ disk' = [disk EXCEPT ![n][a] = NoConfig]
          /\ tmp' = [tmp EXCEPT ![n][a] = NoConfig]
    /\ UNCHANGED <<rowVars, lock, alert, jobVars, chk, histVars>>

(* The panel process dies and starts again: goroutines and locks are gone, *)
(* the database and the servers are as they were.                          *)
Crash ==
    /\ Spend("crash")
    /\ pc' = [w \in Workers |-> "idle"]
    /\ at' = [w \in Workers |-> AnyNode]
    /\ todo' = [w \in Workers |-> {}]
    /\ seen' = [w \in Workers |-> FirstRow]
    /\ cfg' = [w \in Workers |-> NoConfig]
    /\ lock' = [n \in Nodes |-> NoWorker]
    /\ chk' = IdleCheck
    /\ UNCHANGED <<rowVars, hostVars, alert, histVars>>

Next ==
    \/ \E w \in Workers : SyncStart(w) \/ SyncStep(w) \/ EditStep(w)
    \/ EditSilently
    \/ \E n \in Nodes : ToggleActive(n)
    \/ CheckStep
    \/ \E n \in Nodes, a \in Addrs : HostChanged(n, a)
    \/ Crash

Spec == Init /\ [][Next]_vars

(* Fairness.  The drift loop runs on a ticker and its remote reads end, by *)
(* an answer or by a timeout; a server that stays up answers again and     *)
(* again.  A request goroutine runs to its end, and a Go mutex hands over  *)
(* to every goroutine that waits for it.                                   *)
CheckFairness ==
    /\ WF_vars(CheckStep)
    /\ \A n \in Nodes : SF_vars(CheckReadOk /\ chk.at = n)

WorkerFairness ==
    \A w \in Workers :
        /\ WF_vars(pc[w] # "next" /\ SyncStep(w))
        /\ WF_vars(Mark(w) \/ UpdateSave(w) \/ ReplaceSave(w))
        /\ \A n \in Nodes : SF_vars(SyncLock(w, n))

FairSpec == Spec /\ CheckFairness /\ WorkerFairness

-----------------------------------------------------------------------------
(* Properties.                                                             *)

(* Every variable keeps to its domain.                                     *)
TypeOK ==
    /\ row \in [Nodes -> Row]
    /\ src \in [Nodes -> Hash]
    /\ disk \in [Nodes -> [Addrs -> Content]]
    /\ tmp \in [Nodes -> [Addrs -> Content]]
    /\ lock \in [Nodes -> Workers \cup {NoWorker}]
    /\ alert \in [Nodes -> BOOLEAN]
    /\ pc \in [Workers -> WorkerPc]
    /\ at \in [Workers -> Nodes]
    /\ todo \in [Workers -> SUBSET Nodes]
    /\ seen \in [Workers -> Row]
    /\ cfg \in [Workers -> Hash]
    /\ chk \in [pc : CheckPc, at : Nodes, todo : SUBSET Nodes, seen : Row,
                 cfg : Hash]
    /\ used \in [Kinds -> Nat]
    /\ installed \in [Nodes -> [Addrs -> SUBSET Content]]
    /\ lastResult \in [Nodes -> {"none", "ok", "fail"}]

Pushing == {"find", "build", "upload", "move", "reload", "record", "fail",
            "reportOk", "reportFail"}
Holds(w, n) == pc[w] \in Pushing /\ at[w] = n

(* Who holds a node's lock is exactly who is pushing to the node.          *)
LockDiscipline ==
    \A n \in Nodes, w \in Workers : lock[n] = w <=> Holds(w, n)

(* nodelock.go: two pushes to one node never move each other's temporary   *)
(* file away, so what a push is about to move into place is its own        *)
(* configuration (or nothing, when the server was reinstalled meanwhile).  *)
TmpIsOwn ==
    \A w \in Workers :
        pc[w] = "move" => tmp[at[w]][seen[w].addr] \in {cfg[w], NoConfig}

(* UploadContent: whatever breaks, and wherever the panel dies, a server   *)
(* nobody edits by hand only ever has a whole generated configuration.     *)
NeverHalfWritten ==
    \A n \in Nodes, a \in Addrs : disk[n][a] = Foreign => used["tamper"] > 0

(* A node shown as synced has a hash, hence is never skipped by            *)
(* CheckDriftAll, however full-row saves and column updates interleave.    *)
SyncedIsWatched ==
    \A n \in Nodes : row[n].status = "synced" => row[n].hash # NoConfig

(* The recorded hash is that of a configuration once moved into place on a *)
(* server of the node: no interleaving records what was never delivered.   *)
Delivered(n, c) == \E a \in Addrs : c \in installed[n][a]
HashWasDelivered ==
    \A n \in Nodes : row[n].hash # NoConfig => Delivered(n, row[n].hash)

(* The stronger form an operator relies on: a synced node has received its *)
(* recorded configuration on the server its row points at.                 *)
SyncedServerHasBeenServed ==
    \A n \in Nodes : row[n].status = "synced" =>
        row[n].hash \in installed[n][row[n].addr]

(* sync.go: results reach the alert in the order the syncs end, so when no *)
(* push holds the node the alert says what the last sync said, unless the  *)
(* panel died between the two writes.                                      *)
AlertFollowsLastSync ==
    \A n \in Nodes : lock[n] = NoWorker /\ used["crash"] = 0
        => (alert[n] <=> lastResult[n] = "fail")

(* Why the invariants above are kept by every step: a configuration is     *)
(* built before it is pushed and pushed before it is recorded; rows read   *)
(* for a later full-row save, and what the drift loop is about to record,  *)
(* are as honest as the table; a file is foreign or was installed.         *)
ReachesServer ==
    \A w \in Workers :
        /\ pc[w] \in {"upload", "move", "reload", "record"} => cfg[w] \in Config
        /\ pc[w] \in {"reload", "record"} =>
              cfg[w] \in installed[at[w]][seen[w].addr]
StaleRowsHonest ==
    \A w \in Workers : pc[w] \in {"save", "swap"} =>
        /\ seen[w].status = "synced" => seen[w].hash # NoConfig
        /\ seen[w].hash # NoConfig => Delivered(at[w], seen[w].hash)
CheckHonest ==
    /\ chk.pc \in {"read", "confirm"} => chk.cfg \in Config
    /\ chk.pc = "confirm" => Delivered(chk.at, chk.cfg)
DiskInstalled ==
    \A n \in Nodes, a \in Addrs :
        disk[n][a] \in installed[n][a] \cup {NoConfig, Foreign}

SyncInv ==
    /\ TypeOK /\ LockDiscipline /\ TmpIsOwn /\ ReachesServer
    /\ DiskInstalled /\ StaleRowsHonest /\ CheckHonest
    /\ SyncedIsWatched /\ HashWasDelivered

(* UploadContent and nodeLocks implement ServerFile: a server's file is    *)
(* replaced only as a whole, by what the one push whose turn it is built.  *)
Decided == [n \in Nodes |-> IF lock[n] = NoWorker THEN NoConfig
                            ELSE cfg[lock[n]]]
File == INSTANCE ServerFile
            WITH file <- disk, turn <- lock, decided <- Decided,
                 touched <- used["tamper"]
AtomicInstall == File!FileSpec

Watched(n) == row[n].active /\ row[n].hash # NoConfig /\ src[n] # NoConfig

(* Drift detection catches a changed source: a node that no longer matches *)
(* what would be generated does not stay synced, also when the mark that   *)
(* should have followed the change was lost, overwritten or never made.    *)
SourceDriftIsDetected ==
    \A n \in Nodes :
        (Watched(n) /\ src[n] # row[n].hash)
            ~> (row[n].status # "synced" \/ src[n] = row[n].hash \/ ~Watched(n))

(* Drift detection catches a file changed on the server.                   *)
EditedByHand(n, a) == /\ Watched(n) /\ row[n].addr = a
                      /\ src[n] = row[n].hash /\ disk[n][a] = Foreign
HandEditIsDetected ==
    \A n \in Nodes, a \in Addrs :
        EditedByHand(n, a) ~> (row[n].status # "synced" \/ ~EditedByHand(n, a))

(* Batches of pushes never wait for each other for good: one lock at a     *)
(* time, released on every path.                                           *)
EverySyncEnds == \A w \in Workers : pc[w] = "next" ~> pc[w] = "idle"

=============================================================================
