-------------------------------- MODULE Alerts --------------------------------
(***************************************************************************)
(* Node alerts: the state machine AlertService keeps for every node and    *)
(* kind of alert, fed by the health loop and by the ends of configuration  *)
(* pushes, and the card it sends to a Feishu chat when that state differs  *)
(* from what the chat was last told.                                       *)
(*                                                                         *)
(* Observe runs under alertStateMu and Flush under alertFlushMu, so that   *)
(* detection goes on while a card is on its way; the two write different   *)
(* columns of the same rows.  Counters are capped at the thresholds, which *)
(* is all the code compares them with; row ids are only compared for       *)
(* equality, so a new row takes whichever nobody remembers.                *)
(***************************************************************************)
EXTENDS Naturals, FiniteSets

CONSTANTS
    Nodes,             \* node ids
    Panel,             \* the node id of the panel-wide row (0 in the code)
    Reporters,         \* goroutines that end a configuration push
    Health,            \* the health-check loop of the scheduler
    Ticked,            \* the kinds of alert selected in the settings
    Ids,               \* row ids
    NoId,              \* the zero id of a row that is not stored
    FailThreshold,     \* setting alert_fail_threshold
    RecoverThreshold,  \* setting alert_recover_threshold
    Limit              \* bounds of the model: event -> how often it occurs

NodeKinds == {"node_unreachable", "xray_down", "sync_failed"}
Events    == {"create", "toggle", "delete", "switch", "due", "lost", "crash"}

ASSUME AlertsAssumption ==
    /\ Panel \notin Nodes /\ Health \notin Reporters
    /\ NoId \notin Ids
    /\ FailThreshold \in Nat \ {0} /\ RecoverThreshold \in Nat \ {0}
    /\ Limit \in [Events -> Nat]

Keys == Nodes \X (NodeKinds \cap Ticked)
          \cup {Panel} \X ({"panel_unreachable"} \cap Ticked)
Procs == Reporters \cup {Health}

(* A sync failure is an event, not a periodic probe: one is enough.        *)
FailAt(k)    == IF k[2] = "sync_failed" THEN 1 ELSE FailThreshold
RecoverAt(k) == IF k[2] = "sync_failed" THEN 1 ELSE RecoverThreshold

AlertRow == [id : Ids \cup {NoId}, fail : 0 .. FailThreshold,
             ok : 0 .. RecoverThreshold, alerting : BOOLEAN,
             notified : BOOLEAN, due : BOOLEAN]
Blank == [id |-> NoId, fail |-> 0, ok |-> 0, alerting |-> FALSE,
          notified |-> FALSE, due |-> FALSE]

Notices == {"firing", "resolved", "repeat"}
Item    == [key : Keys, id : Ids, alerting : BOOLEAN, notice : Notices]

VARIABLES
    node,     \* each node: "none" (not created yet), "on", "off" or "gone"
    enabled,  \* alerts switched on, Feishu configured, chat chosen
    row,      \* node_alert_states, per node and kind; Blank where no row is
    pc,       \* where each process is
    key, ok,  \* the observation each process makes
    seen,     \* the row Observe read
    items,    \* the lines of the card Flush sends, then those still to mark
    list,     \* the health loop: the active nodes of this round
    todo,     \* the health loop: observations still to make
    used,     \* bounded events so far
    told,     \* history: what the chat was last told about the stored row
    again,    \* history: keys whose news reached the chat twice, or a
              \* recovery nobody had heard the alarm of
    streak    \* history: last observations of the row, [ok, how many alike]

tableVars  == <<row, told, streak>>
localVars  == <<key, ok, seen>>
healthVars == <<list, todo>>
vars == <<node, enabled, row, pc, key, ok, seen, items, list, todo, used,
          told, again, streak>>

AnyKey == CHOOSE k \in Keys : TRUE

Init ==
    /\ node \in [Nodes -> {"none", "on", "off"}]
    /\ enabled = TRUE
    /\ row = [k \in Keys |-> Blank]
    /\ pc = [p \in Procs |-> "idle"]
    /\ key = [p \in Procs |-> AnyKey]
    /\ ok = [p \in Procs |-> TRUE]
    /\ seen = [p \in Procs |-> Blank]
    /\ items = [p \in Procs |-> {}]
    /\ list = {}
    /\ todo = {}
    /\ used = [e \in Events |-> 0]
    /\ told = [k \in Keys |-> "nothing"]
    /\ again = {}
    /\ streak = [k \in Keys |-> [ok |-> TRUE, n |-> 0]]

Spend(e) == /\ used[e] < Limit[e]
            /\ used' = [used EXCEPT ![e] = @ + 1]

Goto(p, label) == pc' = [pc EXCEPT ![p] = label]

(* The goroutine is done with the observation, or with the card.           *)
Forget(p) == /\ key' = [key EXCEPT ![p] = AnyKey]
             /\ ok' = [ok EXCEPT ![p] = TRUE]
             /\ seen' = [seen EXCEPT ![p] = Blank]

Stored(k) == row[k].id # NoId

(* DELETE FROM node_alert_states: the rows of K.                           *)
DeleteRows(K) ==
    /\ row' = [k \in Keys |-> IF k \in K THEN Blank ELSE row[k]]
    /\ told' = [k \in Keys |-> IF k \in K THEN "nothing" ELSE told[k]]
    /\ streak' = [k \in Keys |-> IF k \in K THEN [ok |-> TRUE, n |-> 0]
                                 ELSE streak[k]]

-----------------------------------------------------------------------------
(* The state machine: pure functions of alert.go.                          *)

LesserOf(m, n) == IF m < n THEN m ELSE n

(* Mutant of Advance: a success does not reset the failures.               *)
Advance_KeepFailures(k, r, good) ==
    IF good
    THEN LET n == LesserOf(r.ok + 1, RecoverAt(k))
         IN [r EXCEPT !.ok = n, !.alerting = @ /\ n < RecoverAt(k)]
    ELSE LET n == LesserOf(r.fail + 1, FailAt(k))
         IN [r EXCEPT !.fail = n, !.ok = 0, !.alerting = @ \/ n >= FailAt(k)]

(* advanceAlertState: consecutive failures raise the alarm, consecutive    *)
(* successes end it.                                                       *)
Advance(k, r, good) ==
    IF good
    THEN LET n == LesserOf(r.ok + 1, RecoverAt(k))
         IN [r EXCEPT !.fail = 0, !.ok = n, !.alerting = @ /\ n < RecoverAt(k)]
    ELSE LET n == LesserOf(r.fail + 1, FailAt(k))
         IN [r EXCEPT !.fail = n, !.ok = 0, !.alerting = @ \/ n >= FailAt(k)]

(* alertNotifyFor, of a row that FindPending returns.                      *)
NoticeFor(r) == IF r.alerting # r.notified
                THEN IF r.alerting THEN "firing" ELSE "resolved"
                ELSE "repeat"

(* Mutant of Pending: only rows in the alerting state are looked at.       *)
Pending_OnlyAlerting ==
    {k \in Keys : /\ Stored(k) /\ row[k].alerting
                  /\ row[k].notified => row[k].due
                  /\ k[1] \in Nodes => node[k[1]] \in {"on", "off"}}

(* FindPending, less the rows that need no notice or whose node is gone.   *)
Pending ==
    {k \in Keys : /\ Stored(k)
                  /\ \/ row[k].alerting # row[k].notified
                     \/ row[k].alerting /\ row[k].due
                  /\ k[1] \in Nodes => node[k[1]] \in {"on", "off"}}

-----------------------------------------------------------------------------
(* Observe.                                                                *)

AfterObserve(p) == IF p = Health THEN "next" ELSE "flush"

(* Take alertStateMu and read the row; a success needs no row.             *)
ObserveGet(p) ==
    /\ pc[p] = "get"
    /\ \A q \in Procs : pc[q] # "save"
    /\ IF ok[p] /\ ~Stored(key[p])
       THEN Goto(p, AfterObserve(p)) /\ Forget(p)
       ELSE /\ Goto(p, "save")
            /\ seen' = [seen EXCEPT ![p] = row[key[p]]]
            /\ UNCHANGED <<key, ok>>
    /\ UNCHANGED <<node, enabled, tableVars, items, healthVars, used, again>>

(* Ids that no row has and nobody holds.                                   *)
FreeIds == Ids \ ({row[k].id : k \in Keys} \cup {seen[p].id : p \in Procs}
                    \cup {i.id : i \in UNION {items[p] : p \in Procs}})

NextStreak(k, good) ==
    [ok |-> good,
     n  |-> IF streak[k].ok = good
            THEN LesserOf(streak[k].n + 1, FailThreshold + RecoverThreshold)
            ELSE 1]

Observed(p, k, r) ==
    /\ row' = [row EXCEPT ![k] = r]
    /\ streak' = [streak EXCEPT ![k] = NextStreak(k, ok[p])]

(* Mutant of ObserveSave: the whole row is saved, as before v0.5.1.        *)
ObserveSave_WholeRow(p) ==
    LET k == key[p]
        r == Advance(k, seen[p], ok[p])
    IN /\ pc[p] = "save"
       /\ \/ /\ r.id = NoId /\ ~Stored(k)
             /\ FreeIds # {}
             /\ Observed(p, k, [r EXCEPT !.id = CHOOSE i \in FreeIds : TRUE])
          \/ /\ r.id # NoId /\ row[k].id = r.id
             /\ Observed(p, k, r)
          \/ /\ row[k].id # r.id
             /\ UNCHANGED <<row, streak>>
       /\ Goto(p, AfterObserve(p)) /\ Forget(p)
       /\ UNCHANGED <<node, enabled, told, items, healthVars, used, again>>

(* SaveObservation: create the row, or update the columns of the verdict   *)
(* and nothing else; a row deleted in the meantime stays deleted.          *)
ObserveSave(p) ==
    LET k == key[p]
        r == Advance(k, seen[p], ok[p])
    IN /\ pc[p] = "save"
       /\ \/ /\ r.id = NoId /\ ~Stored(k)
             /\ FreeIds # {}
             /\ Observed(p, k, [r EXCEPT !.id = CHOOSE i \in FreeIds : TRUE])
          \/ /\ r.id # NoId /\ row[k].id = r.id
             /\ Observed(p, k, [row[k] EXCEPT !.fail = r.fail, !.ok = r.ok,
                                              !.alerting = r.alerting])
          \/ /\ row[k].id # r.id
             /\ UNCHANGED <<row, streak>>
       /\ Goto(p, AfterObserve(p)) /\ Forget(p)
       /\ UNCHANGED <<node, enabled, told, items, healthVars, used, again>>

(* The end of SyncNode, under the node lock: pushes to one node report one *)
(* after the other.  The node may have been deleted since.                 *)
ReportSync(p) ==
    /\ p \in Reporters /\ pc[p] = "idle" /\ enabled
    /\ \E n \in Nodes, good \in BOOLEAN :
        LET k == <<n, "sync_failed">>
        IN /\ node[n] \in {"on", "off"} /\ k \in Keys
           /\ \A q \in Procs : pc[q] \in {"get", "save"} => key[q] # k
           /\ key' = [key EXCEPT ![p] = k]
           /\ ok' = [ok EXCEPT ![p] = good]
    /\ Goto(p, "get")
    /\ UNCHANGED <<node, enabled, tableVars, seen, items, healthVars, used, again>>

-----------------------------------------------------------------------------
(* The health loop: HealthService.RunOnce.                                 *)

ActiveNodes == {n \in Nodes : node[n] = "on"}
Results     == {"down", "closed", "up", "bare"}

(* At least two nodes, none of them reachable.                             *)
AllSSHDown(L, res) == Cardinality(L) >= 2 /\ \A n \in L : res[n] = "down"

(* Mutant of Observations: the ports are judged although SSH failed.       *)
Observations_PortsAnyway(L, res) ==
    {[key |-> <<n, "node_unreachable">>, ok |-> res[n] # "down"] : n \in L}
    \cup {[key |-> <<n, "xray_down">>, ok |-> res[n] = "up"] : n \in L}

(* What a round reports: the panel's own row and, unless everything is     *)
(* down, each node's; a proxy port only counts when SSH answers, and a     *)
(* node that is "bare" has no TCP port to probe.                           *)
Observations(L, res) ==
    LET down == AllSSHDown(L, res)
        Made == {[key |-> <<Panel, "panel_unreachable">>, ok |-> ~down]}
                \cup {[key |-> <<n, "node_unreachable">>, ok |-> res[n] # "down"] :
                        n \in IF down THEN {} ELSE L}
                \cup {[key |-> <<n, "xray_down">>, ok |-> res[n] = "up"] :
                        n \in {m \in L : res[m] \in {"closed", "up"}}}
    IN {o \in Made : o.key \in Keys}

(* Read the active nodes and probe them, which takes its time: what follows*)
(* works on this list.                                                     *)
HealthStart ==
    /\ pc[Health] = "idle"
    /\ list' = ActiveNodes
    /\ \E res \in [ActiveNodes -> Results] :
        todo' = Observations(ActiveNodes, res)
    /\ Goto(Health, "prune")
    /\ UNCHANGED <<node, enabled, tableVars, localVars, items, used, again>>

EndRound == /\ list' = {} /\ todo' = {}
            /\ Goto(Health, "idle")

(* PruneInactive: drop the rows of nodes that are not on the list.  The    *)
(* round ends here when alerts are switched off.                           *)
HealthPrune ==
    /\ pc[Health] = "prune"
    /\ IF enabled
       THEN /\ DeleteRows({k \in Keys : k[1] \in Nodes \ list})
            /\ Goto(Health, "next")
            /\ UNCHANGED healthVars
       ELSE EndRound /\ UNCHANGED tableVars
    /\ UNCHANGED <<node, enabled, localVars, items, used, again>>

(* The next Observe, in any order of the nodes; nothing is observed while  *)
(* alerts are switched off.                                                *)
HealthNext ==
    /\ pc[Health] = "next"
    /\ IF todo = {} THEN Goto(Health, "flush") /\ UNCHANGED <<key, ok, todo>>
       ELSE \E o \in todo :
                /\ todo' = todo \ {o}
                /\ IF enabled
                   THEN /\ key' = [key EXCEPT ![Health] = o.key]
                        /\ ok' = [ok EXCEPT ![Health] = o.ok]
                        /\ Goto(Health, "get")
                   ELSE UNCHANGED <<pc, key, ok>>
    /\ UNCHANGED <<node, enabled, tableVars, seen, items, list, used, again>>

-----------------------------------------------------------------------------
(* Flush.                                                                  *)

(* Flush returns and alertFlushMu is free; the health loop's round is over.*)
Flushed(p) == /\ items' = [items EXCEPT ![p] = {}]
              /\ IF p = Health THEN EndRound
                 ELSE Goto(p, "idle") /\ UNCHANGED healthVars

Lines == {[key |-> k, id |-> row[k].id, alerting |-> row[k].alerting,
           notice |-> NoticeFor(row[k])] : k \in Pending}

(* Take alertFlushMu and collect the lines of the card.                    *)
FlushFind(p) ==
    /\ pc[p] = "flush"
    /\ \A q \in Procs : pc[q] \notin {"send", "mark"}
    /\ IF enabled /\ Pending # {}
       THEN /\ items' = [items EXCEPT ![p] = Lines]
            /\ Goto(p, "send") /\ UNCHANGED healthVars
       ELSE Flushed(p)
    /\ UNCHANGED <<node, enabled, tableVars, localVars, used, again>>

(* The card reaches the chat: every line that still speaks of a stored row *)
(* is what the chat now knows of it.                                       *)
Deliver(S) ==
    LET Live == {i \in S : row[i.key].id = i.id}
        News(k) == {i.alerting : i \in {j \in Live : j.key = k}}
        Stale == {i \in Live :
                    \/ i.notice = "firing" /\ told[i.key] = "firing"
                    \/ i.notice = "resolved" /\ told[i.key] # "firing"}
    IN /\ told' = [k \in Keys |-> IF TRUE \in News(k) THEN "firing"
                                  ELSE IF FALSE \in News(k) THEN "resolved"
                                  ELSE told[k]]
       /\ again' = again \cup {i.key : i \in Stale}

SendOk(p) ==
    /\ pc[p] = "send"
    /\ Deliver(items[p])
    /\ Goto(p, "mark")
    /\ UNCHANGED <<node, enabled, row, streak, localVars, items, healthVars, used>>

(* SendCardToChat fails; nothing is written, the next Flush tries again.   *)
SendFails(p) ==
    /\ pc[p] = "send"
    /\ Flushed(p)
    /\ UNCHANGED <<node, enabled, tableVars, localVars, used, again>>

(* The card arrives but the answer is lost: the panel sees a failure.      *)
AnswerLost(p) ==
    /\ pc[p] = "send"
    /\ Spend("lost")
    /\ Deliver(items[p])
    /\ Flushed(p)
    /\ UNCHANGED <<node, enabled, row, streak, localVars>>

(* Mutant of FlushMark: the row read by FindPending is saved as a whole,   *)
(* which is what v0.5.1 did first.                                         *)
FlushMark_WholeRow(p) ==
    /\ pc[p] = "mark"
    /\ IF items[p] = {} THEN Flushed(p) /\ UNCHANGED row
       ELSE \E i \in items[p] :
                /\ items' = [items EXCEPT ![p] = @ \ {i}]
                /\ row' = [k \in Keys |->
                            IF row[k].id = i.id
                            THEN [row[k] EXCEPT !.notified = i.alerting,
                                      !.alerting = i.alerting, !.due = FALSE]
                            ELSE row[k]]
                /\ UNCHANGED <<pc, healthVars>>
    /\ UNCHANGED <<node, enabled, told, streak, localVars, used, again>>

(* MarkNotified, line by line: the state the card told, not the state the  *)
(* row may have reached since, and only the columns of the delivery.       *)
FlushMark(p) ==
    /\ pc[p] = "mark"
    /\ IF items[p] = {} THEN Flushed(p) /\ UNCHANGED row
       ELSE \E i \in items[p] :
                /\ items' = [items EXCEPT ![p] = @ \ {i}]
                /\ row' = [k \in Keys |->
                            IF row[k].id = i.id
                            THEN [row[k] EXCEPT !.notified = i.alerting,
                                                !.due = FALSE]
                            ELSE row[k]]
                /\ UNCHANGED <<pc, healthVars>>
    /\ UNCHANGED <<node, enabled, told, streak, localVars, used, again>>

-----------------------------------------------------------------------------
(* The rest of the panel, and time.                                        *)

Elsewhere == UNCHANGED <<pc, localVars, items, healthVars, again>>

SetNode(n, from, to) == node[n] \in from /\ node' = [node EXCEPT ![n] = to]

CreateNode(n) == /\ SetNode(n, {"none"}, "on") /\ Spend("create")
                 /\ UNCHANGED <<enabled, tableVars>> /\ Elsewhere
ToggleNode(n) == /\ SetNode(n, {"on", "off"}, IF node[n] = "on" THEN "off" ELSE "on")
                 /\ Spend("toggle")
                 /\ UNCHANGED <<enabled, tableVars>> /\ Elsewhere
(* NodeRepository.Delete takes the alert rows along in its transaction.    *)
DeleteNode(n) == /\ SetNode(n, {"on", "off"}, "gone") /\ Spend("delete")
                 /\ DeleteRows({k \in Keys : k[1] = n})
                 /\ UNCHANGED enabled /\ Elsewhere
SwitchAlerts  == /\ enabled' = ~enabled /\ Spend("switch")
                 /\ UNCHANGED <<node, tableVars>> /\ Elsewhere
(* alert_repeat_hours have gone by since the row's last delivery.          *)
RepeatDue(k)  == /\ row[k].notified /\ ~row[k].due /\ Spend("due")
                 /\ row' = [row EXCEPT ![k].due = TRUE]
                 /\ UNCHANGED <<node, enabled, told, streak>> /\ Elsewhere

(* The panel stops, anywhere; the tables and the chat stay.                *)
Crash ==
    /\ Spend("crash")
    /\ pc' = [p \in Procs |-> "idle"]
    /\ key' = [p \in Procs |-> AnyKey]
    /\ ok' = [p \in Procs |-> TRUE]
    /\ seen' = [p \in Procs |-> Blank]
    /\ items' = [p \in Procs |-> {}]
    /\ list' = {} /\ todo' = {}
    /\ UNCHANGED <<node, enabled, tableVars, again>>

Observe(p) == ObserveGet(p) \/ ObserveSave(p)
HealthStep == HealthStart \/ HealthPrune \/ HealthNext
Send(p)    == SendOk(p) \/ SendFails(p) \/ AnswerLost(p)

Next ==
    \/ HealthStep \/ SwitchAlerts \/ Crash
    \/ \E p \in Procs : ReportSync(p) \/ Observe(p) \/ FlushFind(p)
                          \/ Send(p) \/ FlushMark(p)
    \/ \E n \in Nodes : CreateNode(n) \/ ToggleNode(n) \/ DeleteNode(n)
    \/ \E k \in Keys : RepeatDue(k)

Spec == Init /\ [][Next]_vars

(* The loop runs on; Go's mutexes do not starve a waiter; the chat cannot  *)
(* be out of reach for ever.                                               *)
Fairness ==
    /\ WF_vars(HealthStep)
    /\ \A p \in Procs : /\ SF_vars(Observe(p)) /\ SF_vars(FlushFind(p))
                        /\ WF_vars(Send(p)) /\ WF_vars(FlushMark(p))
                        /\ SF_vars(SendOk(p))

FairSpec == Spec /\ Fairness

-----------------------------------------------------------------------------
(* Properties.                                                             *)

(* Every variable keeps to its domain.                                     *)
TypeOK ==
    /\ node \in [Nodes -> {"none", "on", "off", "gone"}]
    /\ enabled \in BOOLEAN
    /\ row \in [Keys -> AlertRow]
    /\ pc \in [Procs -> {"idle", "prune", "next", "get", "save", "flush",
                         "send", "mark"}]
    /\ key \in [Procs -> Keys \cup {AnyKey}] /\ ok \in [Procs -> BOOLEAN]
    /\ seen \in [Procs -> AlertRow]
    /\ items \in [Procs -> SUBSET Item]
    /\ list \subseteq Nodes /\ todo \subseteq [key : Keys, ok : BOOLEAN]
    /\ used \in [Events -> Nat]
    /\ told \in [Keys -> {"nothing", "firing", "resolved"}]
    /\ again \subseteq Keys
    /\ streak \in [Keys -> [ok : BOOLEAN, n : Nat]]

(* A line of the card is still to be marked as delivered.                  *)
Marking(k) == \E p \in Procs : /\ pc[p] = "mark"
                               /\ \E i \in items[p] : i.id = row[k].id

(* notified_alerting is what the chat was last told, as entity/alert.go    *)
(* has it, however detection, flushes and deletions interleave - as long   *)
(* as no delivery goes unrecorded (a crash, or an answer that is lost).    *)
NotifiedMatchesChat ==
    used["crash"] + used["lost"] = 0 =>
        \A k \in Keys : Stored(k) /\ ~Marking(k) =>
            (row[k].notified <=> told[k] = "firing")

(* release-notes/v0.5.1.md: a restart of the panel repeats no alarm.       *)
NoRepeatAfterRestart == used["lost"] = 0 => again = {}

(* The stored verdict is that of the last observations: as many failures   *)
(* in a row as the threshold asks for, and the alarm is on; as many        *)
(* successes, and it is off.  A delivery never undoes a newer verdict.     *)
VerdictIsCurrent ==
    \A k \in Keys : Stored(k) =>
        /\ ~streak[k].ok /\ streak[k].n >= FailAt(k) => row[k].alerting
        /\ streak[k].ok /\ streak[k].n >= RecoverAt(k) => ~row[k].alerting

(* The alarm goes on and off only for that many observations in a row:     *)
(* rounds in which SSH failed or all nodes were down neither count nor     *)
(* reset what they do not observe.                                         *)
VerdictIsEarned ==
    [][\A k \in Keys : Stored(k)' /\ row'[k].alerting # row[k].alerting =>
          /\ streak'[k].ok = row[k].alerting
          /\ streak'[k].n >= IF row[k].alerting THEN RecoverAt(k)
                             ELSE FailAt(k)]_vars

(* One outage raises one alarm: that for the proxy ports of a node never   *)
(* goes on in a round in which the node did not answer SSH at all - as long*)
(* as alerts stay switched on, for a round does not observe while they are *)
(* off and may take them up again half-way.                                *)
OneAlarmPerOutage ==
    [][used["switch"] = 0 =>
         \A n \in Nodes :
           LET ssh == <<n, "node_unreachable">>
               xray == <<n, "xray_down">>
           IN {ssh, xray} \subseteq Keys /\ row'[xray].alerting
                /\ ~row[xray].alerting
              => streak[ssh].ok \/ [key |-> ssh, ok |-> TRUE] \in todo]_vars

(* alert.go, PruneInactive: it clears the state of disabled and deleted    *)
(* nodes, so that no incident of an active node is dropped for which the   *)
(* chat still waits for the recovery.                                      *)
AnnouncedIncidentIsKept ==
    [][\A k \in Keys :
          told[k] = "firing" /\ Stored(k) /\ ~Stored(k)' /\ k[1] \in Nodes =>
              node'[k[1]] # "on"]_vars

(* The chat catches up with the verdict: an alarm that lasts is announced, *)
(* and so is the end of one that was.                                      *)
Behind(k) == /\ Stored(k) /\ enabled
             /\ k[1] \in Nodes => node[k[1]] = "on"
             /\ row[k].alerting # (told[k] = "firing")
ChatCatchesUp == \A k \in Keys : Behind(k) ~> ~Behind(k)

=============================================================================
