---------------------------- MODULE AlertsProofs ----------------------------
(***************************************************************************)
(* Proofs about Alerts, for any nodes, reporters, row ids, kinds of alert, *)
(* thresholds and bounds.                                                  *)
(***************************************************************************)
EXTENDS Alerts, TLAPS

Observing(p) == pc[p] \in {"get", "save"}
Sending(p)   == pc[p] \in {"send", "mark"}

(* The two mutexes, and who observes what.                                 *)
TurnsFit ==
    /\ \A p \in Procs : Observing(p) =>
           /\ key[p] \in Keys
           /\ p \in Reporters => key[p][2] = "sync_failed"
    /\ \A p, q \in Procs : pc[p] = "save" /\ pc[q] = "save" => p = q
    /\ \A p, q \in Procs : Sending(p) /\ Sending(q) => p = q

(* No two rows share an id; where no row is, nothing is remembered.        *)
RowsFit ==
    /\ \A k, l \in Keys : Stored(k) /\ row[k].id = row[l].id => k = l
    /\ \A k \in Keys : ~Stored(k) =>
           /\ row[k] = Blank /\ told[k] = "nothing"
           /\ streak[k] = [ok |-> TRUE, n |-> 0]

(* The counters of a row tell how its observations ended.                  *)
CountersFit ==
    \A k \in Keys :
        /\ row[k].ok = IF streak[k].ok
                       THEN LesserOf(streak[k].n, RecoverAt(k)) ELSE 0
        /\ row[k].fail = IF streak[k].ok
                         THEN 0 ELSE LesserOf(streak[k].n, FailAt(k))

(* What Observe read is the verdict of the row still, or the row is gone.  *)
SeenFits ==
    \A p \in Procs : pc[p] = "save" =>
        /\ row[key[p]].id \in {seen[p].id, NoId}
        /\ seen[p].id = NoId => seen[p] = Blank /\ ~ok[p]
        /\ seen[p].id = row[key[p]].id =>
               /\ seen[p].fail = row[key[p]].fail
               /\ seen[p].ok = row[key[p]].ok
               /\ seen[p].alerting = row[key[p]].alerting

VerdictInv == RowsFit /\ CountersFit /\ SeenFits /\ VerdictIsCurrent

(* A line speaks of one row, and no other line does; once the card is out, *)
(* the chat was told what the line says.                                   *)
LinesFit ==
    \A p \in Procs : \A i \in items[p] :
        /\ \A k \in Keys : row[k].id = i.id => k = i.key
        /\ \A j \in items[p] : i.id = j.id => i = j
        /\ \A k \in Keys : pc[p] = "mark" /\ row[k].id = i.id =>
               (told[k] = "firing" <=> i.alerting)

Ssh(n)     == <<n, "node_unreachable">>
Xray(n)    == <<n, "xray_down">>
InHand(k)  == Observing(Health) /\ key[Health] = k
XrayDue(n) == InHand(Xray(n)) \/ \E o \in todo : o.key = Xray(n)

(* A round that judges the proxy ports of a node has heard it on SSH, and  *)
(* says so, now or soon.                                                   *)
NodeFits(n) ==
    {Ssh(n), Xray(n)} \subseteq Keys /\ XrayDue(n) =>
        /\ [key |-> Ssh(n), ok |-> FALSE] \notin todo
        /\ InHand(Ssh(n)) => ok[Health]
        /\ \/ [key |-> Ssh(n), ok |-> TRUE] \in todo
           \/ InHand(Ssh(n))
           \/ streak[Ssh(n)].ok
RoundFits == used["switch"] = 0 => enabled /\ \A n \in Nodes : NodeFits(n)

(* The inductive invariant.                                                *)
AlertInv == /\ TypeOK /\ TurnsFit /\ VerdictInv
            /\ LinesFit /\ NotifiedMatchesChat /\ RoundFits

-----------------------------------------------------------------------------
(* Constants and rows.                                                     *)

LEMMA ProcFacts == Health \in Procs /\ Reporters \subseteq Procs /\ Health \notin Reporters
  BY AlertsAssumption DEF Procs

LEMMA BlankType == Blank \in AlertRow
  BY AlertsAssumption DEF Blank, AlertRow

(* What FailAt and RecoverAt return.                                       *)
LEMMA ThresholdsOf ==
  ASSUME NEW k
  PROVE  /\ FailAt(k) \in 1 .. FailThreshold
         /\ RecoverAt(k) \in 1 .. RecoverThreshold
  BY AlertsAssumption DEF FailAt, RecoverAt

LEMMA LesserIs ==
  ASSUME NEW m \in Nat, NEW n \in Nat
  PROVE  /\ LesserOf(m, n) \in Nat /\ LesserOf(m, n) \in {m, n}
         /\ LesserOf(m, n) <= m /\ LesserOf(m, n) <= n
  BY DEF LesserOf

(* What Advance does to each column.                                       *)
LEMMA AdvanceIs ==
  ASSUME NEW k, NEW r \in AlertRow, NEW good \in BOOLEAN
  PROVE  LET a == Advance(k, r, good)
         IN /\ a \in AlertRow
            /\ a.id = r.id /\ a.notified = r.notified /\ a.due = r.due
            /\ good => /\ a.fail = 0
                       /\ a.ok = LesserOf(r.ok + 1, RecoverAt(k))
                       /\ a.alerting = (r.alerting /\ a.ok < RecoverAt(k))
            /\ ~good => /\ a.ok = 0
                        /\ a.fail = LesserOf(r.fail + 1, FailAt(k))
                        /\ a.alerting = (r.alerting \/ a.fail >= FailAt(k))
  <1>1. FailAt(k) \in Nat /\ FailAt(k) <= FailThreshold
        /\ RecoverAt(k) \in Nat /\ RecoverAt(k) <= RecoverThreshold
        /\ FailThreshold \in Nat /\ RecoverThreshold \in Nat
    BY ThresholdsOf, AlertsAssumption
  <1>2. r.ok + 1 \in Nat /\ r.fail + 1 \in Nat
    BY <1>1 DEF AlertRow
  <1>3. LesserOf(r.ok + 1, RecoverAt(k)) \in 0 .. RecoverThreshold
    BY <1>1, <1>2 DEF LesserOf
  <1>4. LesserOf(r.fail + 1, FailAt(k)) \in 0 .. FailThreshold
    BY <1>1, <1>2 DEF LesserOf
  <1>5. CASE good
    <2> DEFINE n == LesserOf(r.ok + 1, RecoverAt(k))
               b == r.alerting /\ n < RecoverAt(k)
    <2>1. Advance(k, r, good) = [r EXCEPT !.fail = 0, !.ok = n, !.alerting = b]
      BY <1>5 DEF Advance
    <2>2. b \in BOOLEAN /\ n \in 0 .. RecoverThreshold /\ 0 \in 0 .. FailThreshold
      BY <1>3, <1>1
    <2> HIDE DEF n, b
    <2>3. LET a == Advance(k, r, good)
          IN /\ a \in AlertRow
             /\ a.id = r.id /\ a.notified = r.notified /\ a.due = r.due
             /\ a.fail = 0 /\ a.ok = n /\ a.alerting = b
      BY <2>1, <2>2 DEF AlertRow
    <2> QED BY <2>3, <1>5 DEF n, b
  <1>6. CASE ~good
    <2> DEFINE n == LesserOf(r.fail + 1, FailAt(k))
               b == r.alerting \/ n >= FailAt(k)
    <2>1. Advance(k, r, good) = [r EXCEPT !.fail = n, !.ok = 0, !.alerting = b]
      BY <1>6 DEF Advance
    <2>2. b \in BOOLEAN /\ n \in 0 .. FailThreshold /\ 0 \in 0 .. RecoverThreshold
      BY <1>4, <1>1
    <2> HIDE DEF n, b
    <2>3. LET a == Advance(k, r, good)
          IN /\ a \in AlertRow
             /\ a.id = r.id /\ a.notified = r.notified /\ a.due = r.due
             /\ a.ok = 0 /\ a.fail = n /\ a.alerting = b
      BY <2>1, <2>2 DEF AlertRow
    <2> QED BY <2>3, <1>6 DEF n, b
  <1> QED BY <1>5, <1>6

LEMMA NextStreakType ==
  ASSUME TypeOK, NEW k \in Keys, NEW good \in BOOLEAN
  PROVE  NextStreak(k, good) \in [ok : BOOLEAN, n : Nat]
  <1>1. streak[k].n + 1 \in Nat /\ FailThreshold + RecoverThreshold \in Nat
    BY AlertsAssumption DEF TypeOK
  <1>2. LesserOf(streak[k].n + 1, FailThreshold + RecoverThreshold) \in Nat
    BY <1>1, LesserIs
  <1> QED BY <1>2 DEF NextStreak

-----------------------------------------------------------------------------
(* Save an observation, and what it comes to.                              *)

(* The row goes one observation on, or nothing happens to it.              *)
Saved(k, good) ==
    LET a == Advance(k, row[k], good)
    IN /\ row' \in [Keys -> AlertRow]
       /\ streak' = [streak EXCEPT ![k] = NextStreak(k, good)]
       /\ \A l \in Keys : l # k => row'[l] = row[l]
       /\ row'[k].fail = a.fail /\ row'[k].ok = a.ok
       /\ row'[k].alerting = a.alerting
       /\ row'[k].notified = row[k].notified
       /\ \/ Stored(k) /\ row'[k].id = row[k].id
          \/ ~Stored(k) /\ ~good /\ row'[k].id \in FreeIds

LEMMA SaveEffect ==
  ASSUME TypeOK, TurnsFit, RowsFit, SeenFits, NEW p \in Procs, ObserveSave(p)
  PROVE  /\ key[p] \in Keys
         /\ \/ Saved(key[p], ok[p])
            \/ UNCHANGED <<row, streak>> /\ ~Stored(key[p])
  <1> DEFINE k == key[p]
             r == Advance(k, seen[p], ok[p])
             a == Advance(k, row[k], ok[p])
  <1>1. k \in Keys /\ pc[p] = "save" /\ ok[p] \in BOOLEAN
        /\ seen[p] \in AlertRow /\ row[k] \in AlertRow
    BY DEF TypeOK, TurnsFit, Observing, ObserveSave
  <1>2. r \in AlertRow /\ a \in AlertRow /\ r.id = seen[p].id
        /\ r.notified = seen[p].notified
    BY <1>1, AdvanceIs
  <1>3. ASSUME seen[p].fail = row[k].fail, seen[p].ok = row[k].ok,
               seen[p].alerting = row[k].alerting
        PROVE  r.fail = a.fail /\ r.ok = a.ok /\ r.alerting = a.alerting
    <2>1. CASE ok[p]
      <3>1. /\ r.fail = 0 /\ r.ok = LesserOf(seen[p].ok + 1, RecoverAt(k))
            /\ r.alerting = (seen[p].alerting /\ r.ok < RecoverAt(k))
            /\ a.fail = 0 /\ a.ok = LesserOf(row[k].ok + 1, RecoverAt(k))
            /\ a.alerting = (row[k].alerting /\ a.ok < RecoverAt(k))
        BY <1>1, <2>1, AdvanceIs
      <3> QED BY <3>1, <1>3
    <2>2. CASE ~ok[p]
      <3>1. /\ r.ok = 0 /\ r.fail = LesserOf(seen[p].fail + 1, FailAt(k))
            /\ r.alerting = (seen[p].alerting \/ r.fail >= FailAt(k))
            /\ a.ok = 0 /\ a.fail = LesserOf(row[k].fail + 1, FailAt(k))
            /\ a.alerting = (row[k].alerting \/ a.fail >= FailAt(k))
        BY <1>1, <2>2, AdvanceIs
      <3> QED BY <3>1, <1>3
    <2> QED BY <2>1, <2>2
  <1>4. ASSUME r.id = NoId, ~Stored(k), FreeIds # {},
               Observed(p, k, [r EXCEPT !.id = CHOOSE i \in FreeIds : TRUE])
        PROVE  Saved(k, ok[p])
    <2>1. seen[p] = Blank /\ ~ok[p] /\ row[k] = Blank
      BY <1>1, <1>2, <1>4 DEF SeenFits, RowsFit
    <2>2. r = a
      BY <2>1
    <2>3. PICK i \in FreeIds : i = CHOOSE j \in FreeIds : TRUE
      BY <1>4
    <2>4. i \in Ids
      BY <2>3 DEF FreeIds
    <2> DEFINE x == [r EXCEPT !.id = i]
    <2>5. x \in AlertRow /\ x.id = i /\ x.fail = a.fail /\ x.ok = a.ok
          /\ x.alerting = a.alerting /\ x.notified = seen[p].notified
      BY <2>2, <2>4, <1>2 DEF AlertRow
    <2>6. row' = [row EXCEPT ![k] = x]
          /\ streak' = [streak EXCEPT ![k] = NextStreak(k, ok[p])]
      BY <1>4, <2>3 DEF Observed
    <2> HIDE DEF x, a, r
    <2>7. row' \in [Keys -> AlertRow] /\ row'[k] = x
          /\ \A l \in Keys : l # k => row'[l] = row[l]
      BY <2>5, <2>6, <1>1 DEF TypeOK
    <2> QED BY <2>1, <2>3, <2>5, <2>6, <2>7, <1>4 DEF Saved, a
  <1>5. ASSUME r.id # NoId, row[k].id = r.id,
               Observed(p, k, [row[k] EXCEPT !.fail = r.fail, !.ok = r.ok,
                                             !.alerting = r.alerting])
        PROVE  Saved(k, ok[p])
    <2>1. r.fail = a.fail /\ r.ok = a.ok /\ r.alerting = a.alerting
      BY <1>1, <1>2, <1>3, <1>5 DEF SeenFits
    <2> DEFINE x == [row[k] EXCEPT !.fail = r.fail, !.ok = r.ok,
                                   !.alerting = r.alerting]
    <2>5. x \in AlertRow /\ x.id = row[k].id /\ x.fail = a.fail /\ x.ok = a.ok
          /\ x.alerting = a.alerting /\ x.notified = row[k].notified
      BY <2>1, <1>1, <1>2 DEF AlertRow
    <2>6. row' = [row EXCEPT ![k] = x]
          /\ streak' = [streak EXCEPT ![k] = NextStreak(k, ok[p])]
      BY <1>5 DEF Observed
    <2> HIDE DEF x, a, r
    <2>7. row' \in [Keys -> AlertRow] /\ row'[k] = x
          /\ \A l \in Keys : l # k => row'[l] = row[l]
      BY <2>5, <2>6, <1>1 DEF TypeOK
    <2> QED BY <2>5, <2>6, <2>7, <1>5 DEF Saved, a, Stored
  <1> QED
    <2>1. \/ r.id = NoId /\ ~Stored(k) /\ FreeIds # {}
             /\ Observed(p, k, [r EXCEPT !.id = CHOOSE i \in FreeIds : TRUE])
          \/ r.id # NoId /\ row[k].id = r.id
             /\ Observed(p, k, [row[k] EXCEPT !.fail = r.fail, !.ok = r.ok,
                                              !.alerting = r.alerting])
          \/ row[k].id # r.id /\ UNCHANGED <<row, streak>>
      BY Zenon DEF ObserveSave
    <2>2. row[k].id # r.id => ~Stored(k)
      BY <1>1, <1>2 DEF SeenFits, Stored
    <2> QED BY <2>1, <2>2, <1>1, <1>4, <1>5

-----------------------------------------------------------------------------
(* Types.                                                                  *)

LEMMA SpendType ==
  ASSUME TypeOK, NEW e \in Events, Spend(e)
  PROVE  /\ used' \in [Events -> Nat]
         /\ used'[e] = used[e] + 1
         /\ \A f \in Events : f # e => used'[f] = used[f]
  BY DEF TypeOK, Spend

LEMMA GotoType ==
  ASSUME TypeOK, NEW p \in Procs,
         NEW label \in {"idle", "prune", "next", "get", "save", "flush", "send", "mark"},
         Goto(p, label)
  PROVE  /\ pc' \in [Procs -> {"idle", "prune", "next", "get", "save", "flush",
                               "send", "mark"}]
         /\ pc'[p] = label /\ \A q \in Procs : q # p => pc'[q] = pc[q]
  BY DEF TypeOK, Goto

LEMMA ForgetType ==
  ASSUME TypeOK, NEW p \in Procs, Forget(p)
  PROVE  /\ key' \in [Procs -> Keys \cup {AnyKey}] /\ ok' \in [Procs -> BOOLEAN]
         /\ seen' \in [Procs -> AlertRow]
         /\ \A q \in Procs : q # p => /\ key'[q] = key[q] /\ ok'[q] = ok[q]
                                      /\ seen'[q] = seen[q]
  BY BlankType DEF TypeOK, Forget

LEMMA DeleteRowsType ==
  ASSUME TypeOK, NEW K, DeleteRows(K)
  PROVE  /\ row' \in [Keys -> AlertRow]
         /\ told' \in [Keys -> {"nothing", "firing", "resolved"}]
         /\ streak' \in [Keys -> [ok : BOOLEAN, n : Nat]]
  BY BlankType DEF TypeOK, DeleteRows

LEMMA FlushedType ==
  ASSUME TypeOK, NEW p \in Procs, Flushed(p)
  PROVE  /\ items' = [items EXCEPT ![p] = {}]
         /\ items' \in [Procs -> SUBSET Item]
         /\ Goto(p, "idle")
         /\ list' \subseteq Nodes /\ todo' \subseteq todo
         /\ todo' = IF p = Health THEN {} ELSE todo
  BY DEF TypeOK, Flushed, EndRound, healthVars

LEMMA LinesType ==
  ASSUME TypeOK
  PROVE  Lines \subseteq Item
  <1>1. ASSUME NEW k \in Pending
        PROVE  [key |-> k, id |-> row[k].id, alerting |-> row[k].alerting,
                notice |-> NoticeFor(row[k])] \in Item
    <2>1. k \in Keys /\ row[k].id \in Ids /\ row[k].alerting \in BOOLEAN
      BY <1>1 DEF Pending, Stored, TypeOK, AlertRow
    <2>2. NoticeFor(row[k]) \in Notices
      BY DEF NoticeFor, Notices
    <2> QED BY <2>1, <2>2 DEF Item
  <1> QED BY <1>1 DEF Lines

LEMMA ObservationsType ==
  ASSUME NEW L, NEW res
  PROVE  Observations(L, res) \subseteq [key : Keys, ok : BOOLEAN]
  <1>1. SUFFICES ASSUME NEW o \in Observations(L, res)
                 PROVE  o \in [key : Keys, ok : BOOLEAN]
    OBVIOUS
  <1>2. o.key \in Keys /\ \E k : \E b \in BOOLEAN : o = [key |-> k, ok |-> b]
    BY <1>1 DEF Observations
  <1> QED BY <1>2

LEMMA DeliverType ==
  ASSUME TypeOK, NEW p \in Procs, Deliver(items[p])
  PROVE  /\ told' \in [Keys -> {"nothing", "firing", "resolved"}]
         /\ again' \subseteq Keys
  <1>1. items[p] \subseteq Item
    BY DEF TypeOK
  <1>2. \A i \in items[p] : i.key \in Keys
    BY <1>1 DEF Item
  <1>3. told' \in [Keys -> {"nothing", "firing", "resolved"}]
    BY DEF Deliver, TypeOK
  <1>4. again' \subseteq Keys
    BY <1>2 DEF Deliver, TypeOK
  <1> QED BY <1>3, <1>4

(* What a delivery, or the time since, does not touch.                     *)
VerdictsKept ==
    /\ row' \in [Keys -> AlertRow]
    /\ \A l \in Keys : /\ row'[l].id = row[l].id
                       /\ row'[l].fail = row[l].fail /\ row'[l].ok = row[l].ok
                       /\ row'[l].alerting = row[l].alerting

LEMMA RepeatDueEffect ==
  ASSUME TypeOK, NEW k \in Keys, RepeatDue(k)
  PROVE  /\ VerdictsKept
         /\ \A l \in Keys : row'[l].notified = row[l].notified
  <1> DEFINE x == [row[k] EXCEPT !.due = TRUE]
  <1>1. row[k] \in AlertRow
    BY DEF TypeOK
  <1>2. x \in AlertRow /\ x.id = row[k].id /\ x.fail = row[k].fail /\ x.ok = row[k].ok
        /\ x.alerting = row[k].alerting /\ x.notified = row[k].notified
    BY <1>1 DEF AlertRow
  <1>3. row' = [row EXCEPT ![k] = x]
    BY DEF RepeatDue
  <1> HIDE DEF x
  <1> QED BY <1>2, <1>3 DEF VerdictsKept, TypeOK

(* One line is marked.                                                     *)
Marked(p, i) ==
    /\ i \in items[p] /\ i \in Item
    /\ items' = [items EXCEPT ![p] = @ \ {i}]
    /\ VerdictsKept
    /\ \A l \in Keys : IF row[l].id = i.id THEN row'[l].notified = i.alerting
                       ELSE row'[l] = row[l]
    /\ UNCHANGED <<pc, healthVars>>

LEMMA FlushMarkEffect ==
  ASSUME TypeOK, NEW p \in Procs, FlushMark(p)
  PROVE  \/ items[p] = {} /\ Flushed(p) /\ UNCHANGED row
         \/ \E i \in items[p] : Marked(p, i)
  <1> SUFFICES ASSUME items[p] # {}
               PROVE  \E i \in items[p] : Marked(p, i)
    BY DEF FlushMark
  <1>1. PICK i \in items[p] :
            /\ items' = [items EXCEPT ![p] = @ \ {i}]
            /\ row' = [k \in Keys |->
                        IF row[k].id = i.id
                        THEN [row[k] EXCEPT !.notified = i.alerting,
                                            !.due = FALSE]
                        ELSE row[k]]
            /\ UNCHANGED <<pc, healthVars>>
    BY DEF FlushMark
  <1>2. i \in Item /\ i.alerting \in BOOLEAN
    BY DEF TypeOK, Item
  <1>3. ASSUME NEW k \in Keys
        PROVE  /\ row'[k] \in AlertRow
               /\ row'[k].id = row[k].id /\ row'[k].fail = row[k].fail
               /\ row'[k].ok = row[k].ok /\ row'[k].alerting = row[k].alerting
               /\ IF row[k].id = i.id THEN row'[k].notified = i.alerting
                  ELSE row'[k] = row[k]
    <2> DEFINE x == [row[k] EXCEPT !.notified = i.alerting, !.due = FALSE]
    <2>1. row[k] \in AlertRow
      BY DEF TypeOK
    <2>2. x \in AlertRow /\ x.id = row[k].id /\ x.fail = row[k].fail /\ x.ok = row[k].ok
          /\ x.alerting = row[k].alerting /\ x.notified = i.alerting
      BY <1>2, <2>1 DEF AlertRow
    <2>3. row'[k] = IF row[k].id = i.id THEN x ELSE row[k]
      BY <1>1
    <2> HIDE DEF x
    <2> QED BY <2>1, <2>2, <2>3
  <1>4. row' \in [Keys -> AlertRow]
    <2>1. DOMAIN row' = Keys /\ row' = [k \in Keys |-> row'[k]]
      BY <1>1
    <2> QED BY <2>1, <1>3
  <1> QED BY <1>1, <1>2, <1>3, <1>4 DEF Marked, VerdictsKept

(* Types hold initially.                                                   *)
LEMMA InitType == Init => TypeOK
  BY BlankType, AlertsAssumption DEF Init, TypeOK

(* Every step keeps the types.                                             *)
LEMMA TypeStep == TypeOK /\ TurnsFit /\ RowsFit /\ SeenFits /\ [Next]_vars => TypeOK'
  <1> SUFFICES ASSUME TypeOK, TurnsFit, RowsFit, SeenFits, [Next]_vars PROVE TypeOK'
    OBVIOUS
  <1> USE ProcFacts
  <1>1. CASE HealthStart
    <2>1. list' \subseteq Nodes /\ todo' \subseteq [key : Keys, ok : BOOLEAN]
      BY <1>1, ObservationsType DEF HealthStart, ActiveNodes
    <2>2. Goto(Health, "prune")
      BY <1>1 DEF HealthStart
    <2> QED BY <2>1, <2>2, <1>1, GotoType DEF HealthStart, TypeOK, tableVars, localVars
  <1>2. CASE HealthPrune
    <2>1. CASE enabled
      <3>1. DeleteRows({k \in Keys : k[1] \in Nodes \ list}) /\ Goto(Health, "next")
        BY <1>2, <2>1 DEF HealthPrune
      <3> QED BY <3>1, <2>1, <1>2, GotoType, DeleteRowsType
              DEF HealthPrune, TypeOK, localVars, healthVars
    <2>2. CASE ~enabled
      <3>1. Goto(Health, "idle") /\ list' = {} /\ todo' = {}
        BY <1>2, <2>2 DEF HealthPrune, EndRound
      <3> QED BY <3>1, <2>2, <1>2, GotoType DEF HealthPrune, TypeOK, localVars, tableVars
    <2> QED BY <2>1, <2>2
  <1>3. CASE HealthNext
    <2>1. CASE todo = {}
      <3>1. Goto(Health, "flush")
        BY <1>3, <2>1 DEF HealthNext
      <3> QED BY <3>1, <2>1, <1>3, GotoType DEF HealthNext, TypeOK, tableVars
    <2>2. CASE todo # {}
      <3>1. PICK o \in todo :
                /\ todo' = todo \ {o}
                /\ IF enabled
                   THEN /\ key' = [key EXCEPT ![Health] = o.key]
                        /\ ok' = [ok EXCEPT ![Health] = o.ok]
                        /\ Goto(Health, "get")
                   ELSE UNCHANGED <<pc, key, ok>>
        BY <1>3, <2>2 DEF HealthNext
      <3>2. o.key \in Keys /\ o.ok \in BOOLEAN
        BY DEF TypeOK
      <3>3. CASE enabled
        BY <3>1, <3>2, <3>3, <1>3, GotoType DEF HealthNext, TypeOK, tableVars
      <3>4. CASE ~enabled
        BY <3>1, <3>4, <1>3 DEF HealthNext, TypeOK, tableVars
      <3> QED BY <3>3, <3>4
    <2> QED BY <2>1, <2>2
  <1>4. CASE SwitchAlerts
    BY <1>4, SpendType DEF SwitchAlerts, Elsewhere, TypeOK, tableVars, localVars, healthVars, Events
  <1>5. CASE Crash
    <2>1. used' \in [Events -> Nat]
      BY <1>5, SpendType DEF Crash, Events
    <2> QED BY <2>1, <1>5, BlankType DEF Crash, TypeOK, tableVars
  <1>6. ASSUME NEW p \in Procs, ReportSync(p) PROVE TypeOK'
    <2>1. PICK n \in Nodes, good \in BOOLEAN :
             /\ <<n, "sync_failed">> \in Keys
             /\ key' = [key EXCEPT ![p] = <<n, "sync_failed">>]
             /\ ok' = [ok EXCEPT ![p] = good]
      BY <1>6 DEF ReportSync
    <2>2. Goto(p, "get")
      BY <1>6 DEF ReportSync
    <2> QED BY <2>1, <2>2, <1>6, GotoType DEF ReportSync, TypeOK, tableVars, healthVars
  <1>7. ASSUME NEW p \in Procs, ObserveGet(p) PROVE TypeOK'
    <2>1. CASE ok[p] /\ ~Stored(key[p])
      <3>1. Goto(p, AfterObserve(p)) /\ Forget(p)
        BY <1>7, <2>1 DEF ObserveGet
      <3> QED BY <3>1, <1>7, GotoType, ForgetType
              DEF ObserveGet, TypeOK, AfterObserve, tableVars, healthVars
    <2>2. CASE ~(ok[p] /\ ~Stored(key[p]))
      <3>1. Goto(p, "save") /\ seen' = [seen EXCEPT ![p] = row[key[p]]]
            /\ UNCHANGED <<key, ok>>
        BY <1>7, <2>2 DEF ObserveGet
      <3>2. row[key[p]] \in AlertRow
        BY <1>7 DEF ObserveGet, TurnsFit, Observing, TypeOK
      <3> QED BY <3>1, <3>2, <1>7, GotoType DEF ObserveGet, TypeOK, tableVars, healthVars
    <2> QED BY <2>1, <2>2
  <1>8. ASSUME NEW p \in Procs, ObserveSave(p) PROVE TypeOK'
    <2>1. Goto(p, AfterObserve(p)) /\ Forget(p)
      BY <1>8 DEF ObserveSave
    <2>2. row' \in [Keys -> AlertRow] /\ streak' \in [Keys -> [ok : BOOLEAN, n : Nat]]
      <3>1. key[p] \in Keys /\ (Saved(key[p], ok[p]) \/ UNCHANGED <<row, streak>>)
        BY <1>8, SaveEffect
      <3>2. NextStreak(key[p], ok[p]) \in [ok : BOOLEAN, n : Nat]
        BY <3>1, NextStreakType DEF TypeOK
      <3> QED BY <3>1, <3>2 DEF Saved, TypeOK
    <2> QED BY <2>1, <2>2, <1>8, GotoType, ForgetType
            DEF ObserveSave, TypeOK, AfterObserve, healthVars
  <1>9. ASSUME NEW p \in Procs, FlushFind(p) PROVE TypeOK'
    <2>1. CASE enabled /\ Pending # {}
      <3>1. items' = [items EXCEPT ![p] = Lines] /\ Goto(p, "send") /\ UNCHANGED healthVars
        BY <1>9, <2>1 DEF FlushFind
      <3> QED BY <3>1, <1>9, GotoType, LinesType
              DEF FlushFind, TypeOK, tableVars, localVars, healthVars
    <2>2. CASE ~(enabled /\ Pending # {})
      <3>1. Flushed(p)
        BY <1>9, <2>2 DEF FlushFind
      <3> QED BY <3>1, <1>9, GotoType, FlushedType
              DEF FlushFind, TypeOK, tableVars, localVars
    <2> QED BY <2>1, <2>2
  <1>10. ASSUME NEW p \in Procs, SendOk(p) PROVE TypeOK'
    <2>1. Goto(p, "mark") /\ Deliver(items[p])
      BY <1>10 DEF SendOk
    <2> QED BY <2>1, <1>10, GotoType, DeliverType
            DEF SendOk, TypeOK, localVars, healthVars
  <1>11. ASSUME NEW p \in Procs, SendFails(p) PROVE TypeOK'
    <2>1. Flushed(p)
      BY <1>11 DEF SendFails
    <2> QED BY <2>1, <1>11, GotoType, FlushedType DEF SendFails, TypeOK, tableVars, localVars
  <1>12. ASSUME NEW p \in Procs, AnswerLost(p) PROVE TypeOK'
    <2>1. Flushed(p) /\ Deliver(items[p]) /\ Spend("lost")
      BY <1>12 DEF AnswerLost
    <2>2. used' \in [Events -> Nat]
      BY <2>1, SpendType DEF Events
    <2> QED BY <2>1, <2>2, <1>12, GotoType, FlushedType, DeliverType
            DEF AnswerLost, TypeOK, localVars
  <1>13. ASSUME NEW p \in Procs, FlushMark(p) PROVE TypeOK'
    <2>1. CASE Flushed(p) /\ UNCHANGED row
      BY <2>1, <1>13, GotoType, FlushedType DEF FlushMark, TypeOK, localVars
    <2>2. ASSUME NEW i \in items[p], Marked(p, i) PROVE TypeOK'
      BY <2>2, <1>13 DEF FlushMark, Marked, VerdictsKept, TypeOK, localVars, healthVars
    <2> QED BY <2>1, <2>2, <1>13, FlushMarkEffect
  <1>14. ASSUME NEW n \in Nodes, CreateNode(n) \/ ToggleNode(n) PROVE TypeOK'
    <2>1. used' \in [Events -> Nat]
      BY <1>14, SpendType DEF CreateNode, ToggleNode, Events
    <2> QED BY <2>1, <1>14
            DEF CreateNode, ToggleNode, SetNode, Elsewhere, TypeOK, tableVars, localVars, healthVars
  <1>15. ASSUME NEW n \in Nodes, DeleteNode(n) PROVE TypeOK'
    <2>1. used' \in [Events -> Nat] /\ DeleteRows({k \in Keys : k[1] = n})
      BY <1>15, SpendType DEF DeleteNode, Events
    <2> QED BY <2>1, <1>15, DeleteRowsType
            DEF DeleteNode, SetNode, Elsewhere, TypeOK, localVars, healthVars
  <1>16. ASSUME NEW k \in Keys, RepeatDue(k) PROVE TypeOK'
    <2>1. used' \in [Events -> Nat]
      BY <1>16, SpendType DEF RepeatDue, Events
    <2>2. row' \in [Keys -> AlertRow]
      BY <1>16, RepeatDueEffect DEF VerdictsKept
    <2> QED BY <2>1, <2>2, <1>16 DEF RepeatDue, Elsewhere, TypeOK, localVars, healthVars
  <1>17. CASE UNCHANGED vars
    BY <1>17 DEF vars, TypeOK
  <1> QED BY <1>1, <1>2, <1>3, <1>4, <1>5, <1>6, <1>7, <1>8, <1>9, <1>10, <1>11,
             <1>12, <1>13, <1>14, <1>15, <1>16, <1>17
          DEF Next, HealthStep, Observe, Send

-----------------------------------------------------------------------------
(* The mutexes.                                                            *)

(* One process goes to a label where it holds no mutex.                    *)
LEMMA TurnsGoto ==
  ASSUME TypeOK, TurnsFit, NEW p \in Procs,
         NEW label \in {"idle", "prune", "next", "flush"}, Goto(p, label),
         \A q \in Procs : q # p => key'[q] = key[q]
  PROVE  TurnsFit'
  <1>1. pc'[p] = label /\ \A q \in Procs : q # p => pc'[q] = pc[q]
    BY GotoType
  <1> QED BY <1>1 DEF TurnsFit, Observing, Sending

(* Every step keeps to the two mutexes.                                    *)
LEMMA TurnsStep == TypeOK /\ TurnsFit /\ [Next]_vars => TurnsFit'
  <1> SUFFICES ASSUME TypeOK, TurnsFit, [Next]_vars PROVE TurnsFit'
    OBVIOUS
  <1> USE ProcFacts
  <1>1. CASE HealthStart
    BY <1>1, TurnsGoto DEF HealthStart, localVars
  <1>2. CASE HealthPrune
    BY <1>2, TurnsGoto DEF HealthPrune, EndRound, localVars
  <1>3. CASE HealthNext
    <2>1. CASE todo = {}
      BY <1>3, <2>1, TurnsGoto DEF HealthNext
    <2>2. CASE todo # {}
      <3>1. PICK o \in todo :
                IF enabled
                   THEN /\ key' = [key EXCEPT ![Health] = o.key]
                        /\ Goto(Health, "get")
                   ELSE UNCHANGED <<pc, key>>
        BY <1>3, <2>2 DEF HealthNext
      <3>2. CASE enabled
        <4>1. pc'[Health] = "get" /\ \A q \in Procs : q # Health => pc'[q] = pc[q]
          BY <3>1, <3>2, GotoType
        <4>2. key'[Health] \in Keys /\ \A q \in Procs : q # Health => key'[q] = key[q]
          BY <3>1, <3>2 DEF TypeOK
        <4> QED BY <4>1, <4>2 DEF TurnsFit, Observing, Sending
      <3>3. CASE ~enabled
        BY <3>1, <3>3 DEF TurnsFit, Observing, Sending
      <3> QED BY <3>2, <3>3
    <2> QED BY <2>1, <2>2
  <1>4. CASE Crash
    BY <1>4 DEF Crash, TurnsFit, Observing, Sending
  <1>5. ASSUME NEW p \in Procs, ReportSync(p) PROVE TurnsFit'
    <2>1. PICK n \in Nodes : /\ <<n, "sync_failed">> \in Keys
                             /\ key' = [key EXCEPT ![p] = <<n, "sync_failed">>]
      BY <1>5 DEF ReportSync
    <2>2. pc'[p] = "get" /\ \A q \in Procs : q # p => pc'[q] = pc[q]
      BY <1>5, GotoType DEF ReportSync
    <2>3. key'[p] = <<n, "sync_failed">> /\ \A q \in Procs : q # p => key'[q] = key[q]
      BY <2>1 DEF TypeOK
    <2> QED BY <2>1, <2>2, <2>3 DEF TurnsFit, Observing, Sending
  <1>6. ASSUME NEW p \in Procs, ObserveGet(p) PROVE TurnsFit'
    <2>1. CASE ok[p] /\ ~Stored(key[p])
      <3>1. Goto(p, AfterObserve(p)) /\ Forget(p)
        BY <1>6, <2>1 DEF ObserveGet
      <3> QED BY <3>1, TurnsGoto, ForgetType DEF AfterObserve
    <2>2. CASE ~(ok[p] /\ ~Stored(key[p]))
      <3>1. Goto(p, "save") /\ UNCHANGED key
        BY <1>6, <2>2 DEF ObserveGet
      <3>2. pc'[p] = "save" /\ \A q \in Procs : q # p => pc'[q] = pc[q]
        BY <3>1, GotoType
      <3>3. pc[p] = "get" /\ \A q \in Procs : pc[q] # "save"
        BY <1>6 DEF ObserveGet
      <3> QED BY <3>1, <3>2, <3>3 DEF TurnsFit, Observing, Sending
    <2> QED BY <2>1, <2>2
  <1>7. ASSUME NEW p \in Procs, ObserveSave(p) PROVE TurnsFit'
    <2>1. Goto(p, AfterObserve(p)) /\ Forget(p)
      BY <1>7 DEF ObserveSave
    <2> QED BY <2>1, TurnsGoto, ForgetType DEF AfterObserve
  <1>8. ASSUME NEW p \in Procs, Flushed(p), UNCHANGED key PROVE TurnsFit'
    BY <1>8, FlushedType, TurnsGoto
  <1>9. ASSUME NEW p \in Procs, FlushFind(p) PROVE TurnsFit'
    <2>1. CASE Flushed(p)
      BY <1>9, <2>1, <1>8 DEF FlushFind, localVars
    <2>2. CASE Goto(p, "send")
      <3>1. pc'[p] = "send" /\ \A q \in Procs : q # p => pc'[q] = pc[q]
        BY <2>2, GotoType
      <3>2. UNCHANGED key /\ \A q \in Procs : pc[q] \notin {"send", "mark"}
        BY <1>9 DEF FlushFind, localVars
      <3> QED BY <3>1, <3>2 DEF TurnsFit, Observing, Sending
    <2> QED BY <1>9, <2>1, <2>2 DEF FlushFind
  <1>10. ASSUME NEW p \in Procs, SendOk(p) PROVE TurnsFit'
    <2>1. pc'[p] = "mark" /\ \A q \in Procs : q # p => pc'[q] = pc[q]
      BY <1>10, GotoType DEF SendOk
    <2>2. UNCHANGED key /\ pc[p] = "send"
      BY <1>10 DEF SendOk, localVars
    <2> QED BY <2>1, <2>2 DEF TurnsFit, Observing, Sending
  <1>11. ASSUME NEW p \in Procs, SendFails(p) \/ AnswerLost(p) PROVE TurnsFit'
    BY <1>11, <1>8 DEF SendFails, AnswerLost, localVars
  <1>12. ASSUME NEW p \in Procs, FlushMark(p) PROVE TurnsFit'
    <2>1. CASE Flushed(p)
      BY <1>12, <2>1, <1>8 DEF FlushMark, localVars
    <2>2. CASE UNCHANGED pc
      BY <1>12, <2>2 DEF FlushMark, localVars, TurnsFit, Observing, Sending
    <2> QED BY <1>12, <2>1, <2>2 DEF FlushMark
  <1>13. CASE UNCHANGED <<pc, key>>
    BY <1>13 DEF TurnsFit, Observing, Sending
  <1>14. ASSUME Elsewhere PROVE TurnsFit'
    BY <1>13, <1>14 DEF Elsewhere, localVars
  <1>15. ASSUME NEW n \in Nodes, CreateNode(n) \/ ToggleNode(n) \/ DeleteNode(n)
         PROVE  TurnsFit'
    BY <1>14, <1>15 DEF CreateNode, ToggleNode, DeleteNode
  <1>16. ASSUME NEW k \in Keys, RepeatDue(k) PROVE TurnsFit'
    BY <1>14, <1>16 DEF RepeatDue
  <1>17. CASE SwitchAlerts
    BY <1>14, <1>17 DEF SwitchAlerts
  <1>18. CASE UNCHANGED vars
    BY <1>13, <1>18 DEF vars
  <1> QED BY <1>1, <1>2, <1>3, <1>4, <1>5, <1>6, <1>7, <1>9, <1>10, <1>11,
             <1>12, <1>15, <1>16, <1>17, <1>18
          DEF Next, HealthStep, Observe, Send

-----------------------------------------------------------------------------
(* The verdicts.                                                           *)

(* Nothing that VerdictInv speaks of changes but for a told incident of a  *)
(* stored row.                                                             *)
LEMMA VerdictKept ==
  ASSUME TypeOK, VerdictInv, VerdictsKept, UNCHANGED streak,
         \A k \in Keys : ~Stored(k) => row'[k] = row[k] /\ told'[k] = told[k],
         \A p \in Procs : pc'[p] = "save" =>
             /\ pc[p] = "save" /\ key[p] \in Keys
             /\ key'[p] = key[p] /\ ok'[p] = ok[p] /\ seen'[p] = seen[p]
  PROVE  VerdictInv'
  <1>1. RowsFit'
    BY DEF VerdictInv, RowsFit, VerdictsKept, Stored
  <1>2. CountersFit'
    BY DEF VerdictInv, CountersFit, VerdictsKept
  <1>3. SeenFits'
    BY DEF VerdictInv, SeenFits, VerdictsKept
  <1>4. VerdictIsCurrent'
    BY DEF VerdictInv, VerdictIsCurrent, VerdictsKept, Stored
  <1> QED BY <1>1, <1>2, <1>3, <1>4 DEF VerdictInv

LEMMA KeptIfUnchanged ==
  ASSUME TypeOK, UNCHANGED row
  PROVE  VerdictsKept
  BY DEF TypeOK, VerdictsKept

(* Rows are deleted.                                                       *)
LEMMA VerdictDeleted ==
  ASSUME TypeOK, VerdictInv, NEW K, DeleteRows(K),
         \A p \in Procs : pc'[p] = "save" =>
             /\ pc[p] = "save" /\ key[p] \in Keys
             /\ key'[p] = key[p] /\ ok'[p] = ok[p] /\ seen'[p] = seen[p]
  PROVE  VerdictInv'
  <1>1. \A k \in Keys : IF k \in K
           THEN row'[k] = Blank /\ told'[k] = "nothing"
                /\ streak'[k] = [ok |-> TRUE, n |-> 0]
           ELSE row'[k] = row[k] /\ told'[k] = told[k] /\ streak'[k] = streak[k]
    BY DEF DeleteRows
  <1>2. Blank.id = NoId /\ Blank.ok = 0 /\ Blank.fail = 0 /\ Blank.alerting = FALSE
    BY DEF Blank
  <1>3. RowsFit'
    BY <1>1, <1>2 DEF VerdictInv, RowsFit, Stored
  <1>4. CountersFit'
    <2> SUFFICES ASSUME NEW k \in Keys
                 PROVE  /\ row'[k].ok = IF streak'[k].ok
                             THEN LesserOf(streak'[k].n, RecoverAt(k)) ELSE 0
                        /\ row'[k].fail = IF streak'[k].ok
                             THEN 0 ELSE LesserOf(streak'[k].n, FailAt(k))
      BY DEF CountersFit
    <2>1. CASE k \in K
      <3>1. LesserOf(0, RecoverAt(k)) = 0
        BY ThresholdsOf, AlertsAssumption DEF LesserOf
      <3> QED BY <2>1, <3>1, <1>1, <1>2
    <2>2. CASE k \notin K
      BY <2>2, <1>1 DEF VerdictInv, CountersFit
    <2> QED BY <2>1, <2>2
  <1>5. SeenFits'
    BY <1>1, <1>2 DEF VerdictInv, SeenFits
  <1>6. VerdictIsCurrent'
    BY <1>1, <1>2 DEF VerdictInv, VerdictIsCurrent, Stored
  <1> QED BY <1>3, <1>4, <1>5, <1>6 DEF VerdictInv

(* One more observation alike, counted on the row and in the streak.       *)
LEMMA CountsAgree ==
  ASSUME NEW t \in Nat, NEW c \in Nat, t <= c, NEW n \in Nat
  PROVE  LesserOf(LesserOf(n, t) + 1, t) = LesserOf(LesserOf(n + 1, c), t)
  BY DEF LesserOf

LEMMA CountersAdvance ==
  ASSUME TypeOK, CountersFit, NEW k \in Keys, NEW good \in BOOLEAN, Saved(k, good)
  PROVE  /\ streak'[k] \in [ok : BOOLEAN, n : Nat] /\ streak'[k].ok = good
         /\ row'[k].ok = IF good THEN LesserOf(streak'[k].n, RecoverAt(k)) ELSE 0
         /\ row'[k].fail = IF good THEN 0 ELSE LesserOf(streak'[k].n, FailAt(k))
  <1> DEFINE cap == FailThreshold + RecoverThreshold
             F == FailAt(k)
             R == RecoverAt(k)
             n == streak[k].n
  <1>1. F \in Nat \ {0} /\ R \in Nat \ {0} /\ cap \in Nat /\ F <= cap /\ R <= cap
    BY ThresholdsOf, AlertsAssumption
  <1>2. n \in Nat /\ streak[k].ok \in BOOLEAN /\ row[k] \in AlertRow
    BY DEF TypeOK
  <1>3. streak'[k] = [ok |-> good,
                      n |-> IF streak[k].ok = good THEN LesserOf(n + 1, cap) ELSE 1]
    BY DEF Saved, TypeOK, NextStreak
  <1>4. streak'[k] \in [ok : BOOLEAN, n : Nat] /\ streak'[k].ok = good
    <2> DEFINE m == IF streak[k].ok = good THEN LesserOf(n + 1, cap) ELSE 1
    <2>1. LesserOf(n + 1, cap) \in Nat
      BY <1>1, <1>2 DEF LesserOf
    <2>2. m \in Nat
      BY <2>1
    <2>3. streak'[k] = [ok |-> good, n |-> m]
      BY <1>3
    <2> HIDE DEF m
    <2> QED BY <2>2, <2>3
  <1>5. CASE good
    <2>1. row'[k].ok = LesserOf(row[k].ok + 1, R) /\ row'[k].fail = 0
      BY <1>2, <1>5, AdvanceIs DEF Saved
    <2>2. row[k].ok = IF streak[k].ok THEN LesserOf(n, R) ELSE 0
      BY DEF CountersFit
    <2>3. CASE streak[k].ok
      <3>1. LesserOf(LesserOf(n, R) + 1, R) = LesserOf(LesserOf(n + 1, cap), R)
        BY <1>1, <1>2, CountsAgree
      <3>2. streak'[k].n = LesserOf(n + 1, cap)
        BY <1>3, <1>5, <2>3
      <3>3. row'[k].ok = LesserOf(LesserOf(n, R) + 1, R)
        BY <2>1, <2>2, <2>3
      <3> HIDE DEF n, cap, R
      <3> QED BY <1>4, <1>5, <2>1, <3>1, <3>2, <3>3 DEF R
    <2>4. CASE ~streak[k].ok
      <3>0. streak[k].ok # good
        BY <1>5, <2>4
      <3>1. streak'[k].n = 1 /\ row[k].ok + 1 = 1
        BY <1>3, <2>2, <2>4, <3>0
      <3> QED BY <1>4, <1>5, <2>1, <3>1
    <2> QED BY <1>2, <2>3, <2>4
  <1>6. CASE ~good
    <2>1. row'[k].fail = LesserOf(row[k].fail + 1, F) /\ row'[k].ok = 0
      BY <1>2, <1>6, AdvanceIs DEF Saved
    <2>2. row[k].fail = IF streak[k].ok THEN 0 ELSE LesserOf(n, F)
      BY DEF CountersFit
    <2>3. CASE ~streak[k].ok
      <3>1. LesserOf(LesserOf(n, F) + 1, F) = LesserOf(LesserOf(n + 1, cap), F)
        BY <1>1, <1>2, CountsAgree
      <3>2. streak'[k].n = LesserOf(n + 1, cap)
        BY <1>2, <1>3, <1>6, <2>3
      <3>3. row'[k].fail = LesserOf(LesserOf(n, F) + 1, F)
        BY <2>1, <2>2, <2>3
      <3> HIDE DEF n, cap, F
      <3> QED BY <1>4, <1>6, <2>1, <3>1, <3>2, <3>3 DEF F
    <2>4. CASE streak[k].ok
      <3>0. streak[k].ok # good
        BY <1>6, <2>4
      <3>1. streak'[k].n = 1 /\ row[k].fail + 1 = 1
        BY <1>3, <2>2, <2>4, <3>0
      <3> QED BY <1>4, <1>6, <2>1, <3>1
    <2> QED BY <1>2, <2>3, <2>4
  <1> QED BY <1>5, <1>6

(* The verdict that an observation leaves: the alarm is on or off from the *)
(* threshold on, and only from there.                                      *)
LEMMA VerdictAdvances ==
  ASSUME TypeOK, CountersFit, NEW k \in Keys, NEW good \in BOOLEAN, Saved(k, good)
  PROVE  /\ row'[k].alerting = IF good
              THEN row[k].alerting /\ streak'[k].n < RecoverAt(k)
              ELSE row[k].alerting \/ streak'[k].n >= FailAt(k)
  <1>1. streak'[k].n \in Nat
    BY CountersAdvance
  <1>2. FailAt(k) \in Nat /\ RecoverAt(k) \in Nat
    BY ThresholdsOf, AlertsAssumption
  <1>3. row[k] \in AlertRow
    BY DEF TypeOK
  <1>4. CASE good
    <2>1. row'[k].alerting = (row[k].alerting /\ row'[k].ok < RecoverAt(k))
      <3> DEFINE a == Advance(k, row[k], good)
      <3>1. a.alerting = (row[k].alerting /\ a.ok < RecoverAt(k))
        BY <1>3, <1>4, AdvanceIs
      <3>2. row'[k].alerting = a.alerting /\ row'[k].ok = a.ok
        BY DEF Saved
      <3> HIDE DEF a
      <3> QED BY <3>1, <3>2
    <2>2. row'[k].ok = LesserOf(streak'[k].n, RecoverAt(k))
      BY <1>4, CountersAdvance
    <2>3. row'[k].ok < RecoverAt(k) <=> streak'[k].n < RecoverAt(k)
      BY <2>2, <1>1, <1>2 DEF LesserOf
    <2> QED BY <2>1, <2>3, <1>4, Zenon
  <1>5. CASE ~good
    <2>1. row'[k].alerting = (row[k].alerting \/ row'[k].fail >= FailAt(k))
      <3> DEFINE a == Advance(k, row[k], good)
      <3>1. a.alerting = (row[k].alerting \/ a.fail >= FailAt(k))
        BY <1>3, <1>5, AdvanceIs
      <3>2. row'[k].alerting = a.alerting /\ row'[k].fail = a.fail
        BY DEF Saved
      <3> HIDE DEF a
      <3> QED BY <3>1, <3>2
    <2>2. row'[k].fail = LesserOf(streak'[k].n, FailAt(k))
      BY <1>5, CountersAdvance
    <2>3. row'[k].fail >= FailAt(k) <=> streak'[k].n >= FailAt(k)
      BY <2>2, <1>1, <1>2 DEF LesserOf
    <2> QED BY <2>1, <2>3, <1>5, Zenon
  <1> QED BY <1>4, <1>5

(* A new row takes an id that nobody knows.                                *)
LEMMA FreshId ==
  ASSUME NEW i \in FreeIds
  PROVE  /\ i \in Ids /\ i # NoId
         /\ \A k \in Keys : row[k].id # i
         /\ \A p \in Procs : \A j \in items[p] : j.id # i
  BY AlertsAssumption DEF FreeIds

LEMMA VerdictSaved ==
  ASSUME TypeOK, VerdictInv, NEW k \in Keys, NEW good \in BOOLEAN, Saved(k, good),
         UNCHANGED told, \A p \in Procs : pc'[p] # "save"
  PROVE  VerdictInv'
  <1>1. \A l \in Keys : l # k => row'[l] = row[l] /\ streak'[l] = streak[l]
    BY DEF Saved, TypeOK
  <1>2. RowsFit'
    <2>1. row'[k].id # NoId /\ (row'[k].id = row[k].id \/ row'[k].id \in FreeIds)
      BY FreshId DEF Saved, Stored
    <2>2. \A l \in Keys : l # k /\ Stored(l) => row[l].id # row'[k].id
      BY <2>1, FreshId DEF VerdictInv, RowsFit, Stored
    <2> QED BY <1>1, <2>1, <2>2 DEF VerdictInv, RowsFit, Stored
  <1>3. CountersFit'
    <2>1. ASSUME NEW l \in Keys
          PROVE  /\ row'[l].ok = IF streak'[l].ok
                       THEN LesserOf(streak'[l].n, RecoverAt(l)) ELSE 0
                 /\ row'[l].fail = IF streak'[l].ok
                       THEN 0 ELSE LesserOf(streak'[l].n, FailAt(l))
      <3>1. CASE l = k
        BY <3>1, CountersAdvance DEF VerdictInv
      <3>2. CASE l # k
        BY <3>2, <1>1 DEF VerdictInv, CountersFit
      <3> QED BY <3>1, <3>2
    <2> QED BY <2>1 DEF CountersFit
  <1>4. SeenFits'
    BY DEF SeenFits
  <1>5. VerdictIsCurrent'
    <2>1. /\ ~streak'[k].ok /\ streak'[k].n >= FailAt(k) => row'[k].alerting
          /\ streak'[k].ok /\ streak'[k].n >= RecoverAt(k) => ~row'[k].alerting
      <3>1. streak'[k].ok = good /\ streak'[k].n \in Nat
            /\ FailAt(k) \in Nat /\ RecoverAt(k) \in Nat
        BY CountersAdvance, ThresholdsOf, AlertsAssumption DEF VerdictInv
      <3>2. row'[k].alerting = IF good
              THEN row[k].alerting /\ streak'[k].n < RecoverAt(k)
              ELSE row[k].alerting \/ streak'[k].n >= FailAt(k)
        BY VerdictAdvances DEF VerdictInv
      <3>3. streak'[k].n >= RecoverAt(k) => ~(streak'[k].n < RecoverAt(k))
        BY <3>1
      <3> QED BY <3>1, <3>2, <3>3, Zenon
    <2> QED BY <2>1, <1>1 DEF VerdictInv, VerdictIsCurrent, Stored
  <1> QED BY <1>2, <1>3, <1>4, <1>5 DEF VerdictInv

(* Every step keeps rows, counters and verdicts in line.                   *)
LEMMA VerdictStep ==
  TypeOK /\ TurnsFit /\ VerdictInv /\ [Next]_vars => VerdictInv'
  <1> SUFFICES ASSUME TypeOK, TurnsFit, VerdictInv, [Next]_vars PROVE VerdictInv'
    OBVIOUS
  <1> USE ProcFacts
  <1> DEFINE Savers == \A p \in Procs : pc'[p] = "save" =>
                          /\ pc[p] = "save" /\ key[p] \in Keys
                          /\ key'[p] = key[p] /\ ok'[p] = ok[p] /\ seen'[p] = seen[p]
  <1>a. ASSUME UNCHANGED <<row, streak>>, Savers, UNCHANGED told PROVE VerdictInv'
    BY <1>a, KeptIfUnchanged, VerdictKept
  <1>b. ASSUME UNCHANGED localVars, UNCHANGED pc PROVE Savers
    BY <1>b DEF localVars, TurnsFit, Observing
  <1>c. ASSUME UNCHANGED localVars, NEW p \in Procs,
               NEW label \in {"idle", "prune", "next", "flush", "send", "mark"},
               Goto(p, label)
        PROVE  Savers
    <2>1. pc'[p] = label /\ \A q \in Procs : q # p => pc'[q] = pc[q]
      BY <1>c, GotoType
    <2> QED BY <1>c, <2>1 DEF localVars, TurnsFit, Observing
  <1>d. ASSUME NEW p \in Procs, NEW label \in {"idle", "prune", "next", "get", "flush"},
               Goto(p, label), \A q \in Procs : q # p =>
                   key'[q] = key[q] /\ ok'[q] = ok[q] /\ seen'[q] = seen[q]
        PROVE  Savers
    <2>1. pc'[p] = label /\ \A q \in Procs : q # p => pc'[q] = pc[q]
      BY <1>d, GotoType
    <2> QED BY <1>d, <2>1 DEF TurnsFit, Observing
  <1>1. CASE HealthStart
    BY <1>1, <1>a, <1>c DEF HealthStart, tableVars
  <1>2. CASE HealthPrune
    <2>1. CASE enabled
      <3>1. Savers
        BY <1>2, <2>1, <1>c DEF HealthPrune
      <3> QED BY <3>1, <1>2, <2>1, VerdictDeleted DEF HealthPrune
    <2>2. CASE ~enabled
      <3>1. Savers
        BY <1>2, <2>2, <1>c DEF HealthPrune, EndRound
      <3> QED BY <3>1, <1>2, <2>2, <1>a DEF HealthPrune, tableVars
    <2> QED BY <2>1, <2>2
  <1>3. CASE HealthNext
    <2>1. Savers
      <3>1. CASE todo = {}
        BY <1>3, <3>1, <1>d DEF HealthNext
      <3>2. CASE todo # {}
        <4>1. PICK o \in todo :
                 IF enabled
                 THEN /\ key' = [key EXCEPT ![Health] = o.key]
                      /\ ok' = [ok EXCEPT ![Health] = o.ok]
                      /\ Goto(Health, "get")
                 ELSE UNCHANGED <<pc, key, ok>>
          BY <1>3, <3>2 DEF HealthNext
        <4>2. UNCHANGED seen
          BY <1>3 DEF HealthNext
        <4>3. CASE enabled
          <5>1. \A q \in Procs : q # Health => key'[q] = key[q] /\ ok'[q] = ok[q]
            BY <4>1, <4>3 DEF TypeOK
          <5> QED BY <4>1, <4>2, <4>3, <5>1, <1>d
        <4>4. CASE ~enabled
          BY <4>1, <4>2, <4>4, <1>b DEF localVars
        <4> QED BY <4>3, <4>4
      <3> QED BY <3>1, <3>2
    <2> QED BY <2>1, <1>3, <1>a DEF HealthNext, tableVars
  <1>4. CASE SwitchAlerts
    BY <1>4, <1>a, <1>b DEF SwitchAlerts, Elsewhere, tableVars
  <1>5. CASE Crash
    BY <1>5, <1>a DEF Crash, tableVars
  <1>6. ASSUME NEW p \in Procs, ReportSync(p) PROVE VerdictInv'
    <2>1. PICK n \in Nodes, good \in BOOLEAN :
             /\ key' = [key EXCEPT ![p] = <<n, "sync_failed">>]
             /\ ok' = [ok EXCEPT ![p] = good]
      BY <1>6 DEF ReportSync
    <2>2. \A q \in Procs : q # p => key'[q] = key[q] /\ ok'[q] = ok[q]
      BY <2>1 DEF TypeOK
    <2>3. Savers
      BY <1>6, <2>2, <1>d DEF ReportSync
    <2> QED BY <2>3, <1>6, <1>a DEF ReportSync, tableVars
  <1>7. ASSUME NEW p \in Procs, ObserveGet(p) PROVE VerdictInv'
    <2>1. CASE ok[p] /\ ~Stored(key[p])
      <3>1. Goto(p, AfterObserve(p)) /\ Forget(p)
        BY <1>7, <2>1 DEF ObserveGet
      <3>2. Savers
        BY <3>1, ForgetType, <1>d DEF AfterObserve
      <3> QED BY <3>2, <1>7, <1>a DEF ObserveGet, tableVars
    <2>2. CASE ~(ok[p] /\ ~Stored(key[p]))
      <3>1. /\ Goto(p, "save") /\ seen' = [seen EXCEPT ![p] = row[key[p]]]
            /\ UNCHANGED <<key, ok, row, told, streak>>
        BY <1>7, <2>2 DEF ObserveGet, tableVars
      <3>2. \A q \in Procs : pc'[q] = "save" => q = p
        BY <3>1, <1>7, GotoType DEF ObserveGet
      <3>3. seen'[p] = row[key[p]] /\ key[p] \in Keys
        BY <3>1, <1>7 DEF TypeOK, ObserveGet, TurnsFit, Observing
      <3>4. SeenFits'
        BY <3>1, <3>2, <3>3, <2>2 DEF SeenFits, VerdictInv, RowsFit, Stored
      <3>5. RowsFit' /\ CountersFit' /\ VerdictIsCurrent'
        BY <3>1 DEF VerdictInv, RowsFit, CountersFit, VerdictIsCurrent, Stored
      <3> QED BY <3>4, <3>5 DEF VerdictInv
    <2> QED BY <2>1, <2>2
  <1>8. ASSUME NEW p \in Procs, ObserveSave(p) PROVE VerdictInv'
    <2>1. Goto(p, AfterObserve(p)) /\ Forget(p) /\ UNCHANGED told /\ pc[p] = "save"
      BY <1>8 DEF ObserveSave
    <2>2. Savers
      BY <2>1, ForgetType, <1>d DEF AfterObserve
    <2>3. key[p] \in Keys /\ ok[p] \in BOOLEAN
          /\ (Saved(key[p], ok[p]) \/ UNCHANGED <<row, streak>>)
      BY <1>8, SaveEffect DEF VerdictInv, TypeOK
    <2>4. CASE UNCHANGED <<row, streak>>
      BY <2>1, <2>2, <2>4, <1>a
    <2>5. CASE Saved(key[p], ok[p])
      <3>1. \A q \in Procs : pc'[q] # "save"
        BY <2>1, GotoType DEF AfterObserve, TurnsFit
      <3> QED BY <2>1, <2>3, <2>5, <3>1, VerdictSaved
    <2> QED BY <2>3, <2>4, <2>5
  <1>9. ASSUME NEW p \in Procs, FlushFind(p) \/ SendFails(p) PROVE VerdictInv'
    <2>1. Goto(p, "idle") \/ Goto(p, "send")
      BY <1>9, FlushedType DEF FlushFind, SendFails
    <2>2. Savers
      BY <2>1, <1>9, <1>c DEF FlushFind, SendFails
    <2> QED BY <2>2, <1>9, <1>a DEF FlushFind, SendFails, tableVars
  <1>10. ASSUME NEW p \in Procs, SendOk(p) \/ AnswerLost(p) PROVE VerdictInv'
    <2>1. (Goto(p, "idle") \/ Goto(p, "mark")) /\ Deliver(items[p])
          /\ UNCHANGED <<row, streak>> /\ UNCHANGED localVars
      BY <1>10, FlushedType DEF SendOk, AnswerLost
    <2>2. Savers
      BY <2>1, <1>c
    <2>3. \A k \in Keys : ~Stored(k) => told'[k] = told[k]
      <3> SUFFICES ASSUME NEW k \in Keys, ~Stored(k) PROVE told'[k] = told[k]
        OBVIOUS
      <3>1. \A i \in items[p] : i.id \in Ids
        BY DEF TypeOK, Item
      <3>2. \A i \in items[p] : i.key = k => row[i.key].id # i.id
        BY <3>1, AlertsAssumption DEF Stored
      <3> QED BY <2>1, <3>2 DEF Deliver
    <2> QED BY <2>1, <2>2, <2>3, KeptIfUnchanged, VerdictKept
  <1>11. ASSUME NEW p \in Procs, FlushMark(p) PROVE VerdictInv'
    <2>1. CASE Flushed(p) /\ UNCHANGED row
      <3>1. Savers
        BY <2>1, <1>11, FlushedType, <1>c DEF FlushMark
      <3> QED BY <2>1, <3>1, <1>11, <1>a DEF FlushMark
    <2>2. ASSUME NEW i \in items[p], Marked(p, i) PROVE VerdictInv'
      <3>1. Savers
        BY <2>2, <1>11, <1>b DEF FlushMark, Marked
      <3>2. \A k \in Keys : ~Stored(k) => row'[k] = row[k]
        <4>1. i.id \in Ids
          BY <2>2 DEF Marked, Item
        <4> QED BY <4>1, <2>2, AlertsAssumption DEF Stored, Marked
      <3> QED BY <3>1, <3>2, <2>2, <1>11, VerdictKept DEF FlushMark, Marked
    <2> QED BY <2>1, <2>2, <1>11, FlushMarkEffect
  <1>12. ASSUME NEW n \in Nodes, CreateNode(n) \/ ToggleNode(n) PROVE VerdictInv'
    BY <1>12, <1>a, <1>b DEF CreateNode, ToggleNode, Elsewhere, tableVars
  <1>13. ASSUME NEW n \in Nodes, DeleteNode(n) PROVE VerdictInv'
    <2>1. Savers
      BY <1>13, <1>b DEF DeleteNode, Elsewhere
    <2> QED BY <2>1, <1>13, VerdictDeleted DEF DeleteNode
  <1>14. ASSUME NEW k \in Keys, RepeatDue(k) PROVE VerdictInv'
    <2>1. Savers
      BY <1>14, <1>b DEF RepeatDue, Elsewhere
    <2>2. Stored(k)
      BY <1>14 DEF RepeatDue, VerdictInv, RowsFit, Blank
    <2>3. \A l \in Keys : ~Stored(l) => row'[l] = row[l]
      BY <2>2, <1>14 DEF RepeatDue, TypeOK
    <2> QED BY <2>1, <2>3, <1>14, RepeatDueEffect, VerdictKept DEF RepeatDue
  <1>15. CASE UNCHANGED vars
    BY <1>15, <1>a, <1>b DEF vars, localVars
  <1> QED BY <1>1, <1>2, <1>3, <1>4, <1>5, <1>6, <1>7, <1>8, <1>9, <1>10, <1>11,
             <1>12, <1>13, <1>14, <1>15
          DEF Next, HealthStep, Observe, Send

-----------------------------------------------------------------------------
(* The lines of a card, and what the chat was told.                        *)

LinesInv == LinesFit /\ NotifiedMatchesChat

(* Cards only get shorter, rows only go or get an id no line speaks of.    *)
LEMMA LinesKept ==
  ASSUME TypeOK, LinesFit,
         \A p \in Procs : items'[p] \subseteq items[p],
         \A p \in Procs : pc'[p] = "mark" /\ items'[p] # {} =>
             /\ pc[p] = "mark"
             /\ \A k \in Keys : row'[k].id = row[k].id => told'[k] = told[k],
         \A k \in Keys : row'[k].id \in {row[k].id, NoId} \cup FreeIds
  PROVE  LinesFit'
  <1> SUFFICES ASSUME NEW p \in Procs, NEW i \in items'[p]
               PROVE  /\ \A k \in Keys : row'[k].id = i.id => k = i.key
                      /\ \A j \in items'[p] : i.id = j.id => i = j
                      /\ \A k \in Keys : pc'[p] = "mark" /\ row'[k].id = i.id =>
                             (told'[k] = "firing" <=> i.alerting)
    BY DEF LinesFit
  <1>1. i \in items[p]
    OBVIOUS
  <1>2. i.id \in Ids
    BY <1>1 DEF TypeOK, Item
  <1>3. ASSUME NEW k \in Keys, row'[k].id = i.id PROVE row[k].id = i.id
    BY <1>1, <1>2, <1>3, FreshId, AlertsAssumption
  <1> QED BY <1>1, <1>3 DEF LinesFit

(* Rows are told about what they were, or are new and were not announced;  *)
(* what waits to be marked waits on.                                       *)
LEMMA NotifiedKept ==
  ASSUME TypeOK, NotifiedMatchesChat, TypeOK',
         used'["crash"] >= used["crash"], used'["lost"] >= used["lost"],
         \A k \in Keys : row'[k].id # NoId =>
             \/ /\ row'[k].id = row[k].id /\ told'[k] = told[k]
                /\ row'[k].notified = row[k].notified
             \/ ~row'[k].notified /\ told'[k] # "firing",
         \A p \in Procs : pc[p] = "mark" =>
             (pc'[p] = "mark" /\ items'[p] = items[p]) \/ items[p] = {}
  PROVE  NotifiedMatchesChat'
  <1> SUFFICES ASSUME used'["crash"] + used'["lost"] = 0, NEW k \in Keys,
                      row'[k].id # NoId,
                      ~\E p \in Procs : pc'[p] = "mark"
                            /\ \E i \in items'[p] : i.id = row'[k].id
               PROVE  row'[k].notified <=> told'[k] = "firing"
    BY Zenon DEF NotifiedMatchesChat, Stored, Marking
  <1>1. used["crash"] + used["lost"] = 0
    <2>1. used["crash"] \in Nat /\ used["lost"] \in Nat
          /\ used'["crash"] \in Nat /\ used'["lost"] \in Nat
      BY DEF TypeOK, Events
    <2> QED BY <2>1
  <1>2. CASE row'[k].id = row[k].id /\ told'[k] = told[k]
             /\ row'[k].notified = row[k].notified
    <2>1. Stored(k) /\ ~Marking(k)
      BY <1>2 DEF Stored, Marking
    <2>2. row[k].notified <=> told[k] = "firing"
      BY <1>1, <2>1 DEF NotifiedMatchesChat
    <2> QED BY <1>2, <2>2, Zenon
  <1>3. CASE ~row'[k].notified /\ told'[k] # "firing"
    BY <1>3
  <1> QED BY <1>2, <1>3

(* The card is out.                                                        *)
LEMMA LinesSent ==
  ASSUME TypeOK, TurnsFit, LinesInv, NEW p \in Procs, SendOk(p), TypeOK'
  PROVE  LinesInv'
  <1>1. pc[p] = "send" /\ pc'[p] = "mark" /\ \A q \in Procs : q # p => pc'[q] = pc[q]
    BY GotoType DEF SendOk
  <1>2. \A q \in Procs : q # p => pc'[q] # "mark" /\ pc[q] # "mark"
    BY <1>1 DEF TurnsFit, Sending
  <1>3. UNCHANGED <<row, items, used>> /\ Deliver(items[p])
    BY DEF SendOk
  <1>4. ASSUME NEW k \in Keys, NEW i \in items[p], row[k].id = i.id
        PROVE  told'[k] = "firing" <=> i.alerting
    <2>1. k = i.key /\ i.alerting \in BOOLEAN
      BY <1>4 DEF LinesInv, LinesFit, TypeOK, Item
    <2>2. \A j \in items[p] : j.key = k /\ row[j.key].id = j.id => j = i
      BY <1>4, <2>1 DEF LinesInv, LinesFit
    <2> DEFINE news == {j.alerting : j \in {l \in {m \in items[p] : row[m.key].id = m.id} :
                                              l.key = k}}
    <2>3. news = {i.alerting}
      BY <2>1, <2>2, <1>4
    <2>4. told'[k] = IF TRUE \in news THEN "firing"
                     ELSE IF FALSE \in news THEN "resolved" ELSE told[k]
      BY <1>3 DEF Deliver
    <2> HIDE DEF news
    <2> QED BY <2>1, <2>3, <2>4
  <1>5. LinesFit'
    BY <1>1, <1>2, <1>3, <1>4 DEF LinesInv, LinesFit
  <1>6. ASSUME NEW k \in Keys, ~\E i \in items[p] : row[k].id = i.id
        PROVE  told'[k] = told[k]
    <2> DEFINE news == {j.alerting : j \in {l \in {m \in items[p] : row[m.key].id = m.id} :
                                              l.key = k}}
    <2>1. news = {}
      BY <1>6
    <2>2. told'[k] = IF TRUE \in news THEN "firing"
                     ELSE IF FALSE \in news THEN "resolved" ELSE told[k]
      BY <1>3 DEF Deliver
    <2> HIDE DEF news
    <2> QED BY <2>1, <2>2
  <1>7. NotifiedMatchesChat'
    <2> SUFFICES ASSUME used["crash"] + used["lost"] = 0, NEW k \in Keys,
                        row[k].id # NoId,
                        ~\E q \in Procs : pc'[q] = "mark"
                              /\ \E i \in items[q] : i.id = row[k].id
                 PROVE  row[k].notified <=> told'[k] = "firing"
      BY <1>3, Zenon DEF NotifiedMatchesChat, Stored, Marking
    <2>1. ~\E i \in items[p] : row[k].id = i.id
      BY <1>1
    <2>2. told'[k] = told[k]
      BY <2>1, <1>6
    <2>3. Stored(k) /\ ~Marking(k)
      BY <1>1, <1>2 DEF Stored, Marking
    <2>4. row[k].notified <=> told[k] = "firing"
      BY <2>3 DEF LinesInv, NotifiedMatchesChat
    <2> QED BY <2>2, <2>4, Zenon
  <1> QED BY <1>5, <1>7 DEF LinesInv

(* A line is marked.                                                       *)
LEMMA LinesMarked ==
  ASSUME TypeOK, LinesInv, NEW p \in Procs, pc[p] = "mark",
         NEW i \in items[p], Marked(p, i), UNCHANGED <<told, used>>
  PROVE  LinesInv'
  <1>1. items'[p] = items[p] \ {i} /\ \A q \in Procs : q # p => items'[q] = items[q]
    BY DEF TypeOK, Marked
  <1>2. UNCHANGED pc /\ \A k \in Keys : row'[k].id = row[k].id
    BY DEF Marked, VerdictsKept
  <1>3. LinesFit'
    BY <1>1, <1>2, LinesKept DEF LinesInv
  <1>4. NotifiedMatchesChat'
    <2> SUFFICES ASSUME used["crash"] + used["lost"] = 0, NEW k \in Keys,
                        row[k].id # NoId,
                        ~\E q \in Procs : pc[q] = "mark"
                              /\ \E j \in items'[q] : j.id = row[k].id
                 PROVE  row'[k].notified <=> told[k] = "firing"
      BY <1>2, Zenon DEF NotifiedMatchesChat, Stored, Marking
    <2>1. CASE row[k].id = i.id
      <3>1. told[k] = "firing" <=> i.alerting
        BY <2>1 DEF LinesInv, LinesFit
      <3>2. row'[k].notified = i.alerting
        BY <2>1 DEF Marked
      <3> QED BY <3>1, <3>2, Zenon
    <2>2. CASE row[k].id # i.id
      <3>1. row'[k] = row[k]
        BY <2>2 DEF Marked
      <3>2. Stored(k) /\ ~Marking(k)
        BY <2>2, <1>1 DEF Stored, Marking
      <3>3. row[k].notified <=> told[k] = "firing"
        BY <3>2 DEF LinesInv, NotifiedMatchesChat
      <3> QED BY <3>1, <3>3
    <2> QED BY <2>1, <2>2
  <1> QED BY <1>3, <1>4 DEF LinesInv

(* The card is written: one line for every pending row.                    *)
LEMMA LinesFound ==
  ASSUME TypeOK, RowsFit
  PROVE  \A i \in Lines : /\ \A k \in Keys : row[k].id = i.id => k = i.key
                          /\ \A j \in Lines : i.id = j.id => i = j
  <1> SUFFICES ASSUME NEW i \in Lines
               PROVE  /\ \A k \in Keys : row[k].id = i.id => k = i.key
                      /\ \A j \in Lines : i.id = j.id => i = j
    OBVIOUS
  <1>1. \A j \in Lines : /\ j.key \in Keys /\ Stored(j.key) /\ j.id = row[j.key].id
                         /\ j = [key |-> j.key, id |-> row[j.key].id,
                                 alerting |-> row[j.key].alerting,
                                 notice |-> NoticeFor(row[j.key])]
    BY DEF Lines, Pending
  <1> QED BY <1>1 DEF RowsFit

(* Every step keeps the cards and what the chat was told in line.          *)
LEMMA LinesStep ==
  ASSUME TypeOK, TurnsFit, VerdictInv, LinesInv, TypeOK', [Next]_vars
  PROVE  LinesInv'
  <1> USE ProcFacts
  <1> DEFINE UsedGrows == used'["crash"] >= used["crash"] /\ used'["lost"] >= used["lost"]
  <1>a. ASSUME NEW e \in Events, Spend(e) PROVE UsedGrows
    BY <1>a, SpendType DEF TypeOK, Events
  <1>b. ASSUME UNCHANGED used PROVE UsedGrows
    BY <1>b DEF TypeOK, Events
  (* Tables and cards stay; a process that marks goes on.                  *)
  <1>c. ASSUME UNCHANGED <<row, told, items>>, UsedGrows,
               \A p \in Procs : pc'[p] = "mark" <=> pc[p] = "mark"
        PROVE  LinesInv'
    BY <1>c, LinesKept, NotifiedKept DEF LinesInv
  <1>d. ASSUME NEW p \in Procs, pc[p] # "mark",
               NEW label \in {"idle", "prune", "next", "get", "save", "flush"}, Goto(p, label)
        PROVE  \A q \in Procs : pc'[q] = "mark" <=> pc[q] = "mark"
    BY <1>d, GotoType
  (* A card is done with, or failed.                                       *)
  <1>e. ASSUME NEW p \in Procs, Flushed(p), UNCHANGED <<row, told>>, UsedGrows,
               pc[p] = "mark" => items[p] = {}
        PROVE  LinesInv'
    <2>1. items' = [items EXCEPT ![p] = {}] /\ pc'[p] = "idle"
          /\ \A q \in Procs : q # p => pc'[q] = pc[q]
      BY <1>e, FlushedType, GotoType
    <2>2. items'[p] = {} /\ \A q \in Procs : q # p => items'[q] = items[q]
      BY <2>1 DEF TypeOK
    <2> QED BY <1>e, <2>1, <2>2, LinesKept, NotifiedKept DEF LinesInv
  (* Rows are deleted.                                                     *)
  <1>f. ASSUME NEW K, DeleteRows(K), UNCHANGED items, UsedGrows,
               \A p \in Procs : pc'[p] = "mark" <=> pc[p] = "mark"
        PROVE  LinesInv'
    <2>1. \A k \in Keys : \/ row'[k] = row[k] /\ told'[k] = told[k]
                          \/ row'[k] = Blank /\ told'[k] = "nothing"
      BY <1>f DEF DeleteRows
    <2>2. \A k \in Keys : row[k].id = NoId => told[k] = "nothing"
      BY DEF VerdictInv, RowsFit, Stored
    <2>3. Blank.id = NoId
      BY DEF Blank
    <2> QED BY <1>f, <2>1, <2>2, <2>3, LinesKept, NotifiedKept DEF LinesInv
  <1>1. CASE HealthStart
    BY <1>1, <1>b, <1>c, <1>d DEF HealthStart, tableVars
  <1>2. CASE HealthPrune
    <2>1. CASE enabled
      BY <1>2, <2>1, <1>b, <1>d, <1>f DEF HealthPrune
    <2>2. CASE ~enabled
      BY <1>2, <2>2, <1>b, <1>c, <1>d DEF HealthPrune, EndRound, tableVars
    <2> QED BY <2>1, <2>2
  <1>3. CASE HealthNext
    <2>1. UNCHANGED pc \/ Goto(Health, "flush") \/ Goto(Health, "get")
      BY <1>3, Zenon DEF HealthNext
    <2>2. \A q \in Procs : pc'[q] = "mark" <=> pc[q] = "mark"
      BY <2>1, <1>3, <1>d DEF HealthNext
    <2> QED BY <2>2, <1>3, <1>b, <1>c DEF HealthNext, tableVars
  <1>4. CASE SwitchAlerts
    BY <1>4, <1>a, <1>c DEF SwitchAlerts, Elsewhere, tableVars, Events
  <1>5. CASE Crash
    <2>1. used'["crash"] = used["crash"] + 1 /\ used'["lost"] = used["lost"]
      BY <1>5, SpendType DEF Crash, Events
    <2>2. NotifiedMatchesChat'
      <3>1. used'["crash"] + used'["lost"] # 0
        BY <2>1 DEF TypeOK, Events
      <3> QED BY <3>1 DEF NotifiedMatchesChat
    <2>3. LinesFit'
      BY <1>5 DEF Crash, LinesFit
    <2> QED BY <2>2, <2>3 DEF LinesInv
  <1>6. ASSUME NEW p \in Procs, ReportSync(p) PROVE LinesInv'
    BY <1>6, <1>b, <1>c, <1>d DEF ReportSync, tableVars
  <1>7. ASSUME NEW p \in Procs, ObserveGet(p) PROVE LinesInv'
    <2>1. Goto(p, "next") \/ Goto(p, "flush") \/ Goto(p, "save")
      BY <1>7 DEF ObserveGet, AfterObserve
    <2> QED BY <2>1, <1>7, <1>b, <1>c, <1>d DEF ObserveGet, tableVars
  <1>8. ASSUME NEW p \in Procs, ObserveSave(p) PROVE LinesInv'
    <2>1. \A q \in Procs : pc'[q] = "mark" <=> pc[q] = "mark"
      BY <1>8, <1>d DEF ObserveSave, AfterObserve
    <2>2. UNCHANGED <<told, items, used>>
      BY <1>8 DEF ObserveSave
    <2>3. key[p] \in Keys /\ (Saved(key[p], ok[p]) \/ UNCHANGED <<row, streak>>)
      BY <1>8, SaveEffect DEF VerdictInv
    <2>4. CASE UNCHANGED <<row, streak>>
      BY <2>1, <2>2, <2>4, <1>b, <1>c
    <2>5. CASE Saved(key[p], ok[p])
      <3> DEFINE k == key[p]
      <3>1. \A l \in Keys : l # k => row'[l] = row[l]
        BY <2>5 DEF Saved
      <3>2. /\ row'[k].notified = row[k].notified
            /\ \/ row'[k].id = row[k].id
               \/ ~Stored(k) /\ row'[k].id \in FreeIds
        BY <2>5, Zenon DEF Saved
      <3>3. ~Stored(k) => ~row[k].notified /\ told[k] = "nothing"
        BY <2>3 DEF VerdictInv, RowsFit, Blank
      <3> HIDE DEF k
      <3>4. LinesFit'
        BY <2>1, <2>2, <3>1, <3>2, LinesKept DEF LinesInv
      <3>5. NotifiedMatchesChat'
        BY <2>1, <2>2, <3>1, <3>2, <3>3, <1>b, NotifiedKept DEF LinesInv
      <3> QED BY <3>4, <3>5 DEF LinesInv
    <2> QED BY <2>3, <2>4, <2>5
  <1>9. ASSUME NEW p \in Procs, FlushFind(p) PROVE LinesInv'
    <2>1. CASE Flushed(p)
      BY <2>1, <1>9, <1>b, <1>e DEF FlushFind, tableVars
    <2>2. CASE items' = [items EXCEPT ![p] = Lines] /\ Goto(p, "send")
      <3>1. UNCHANGED <<row, told, used>> /\ pc[p] = "flush"
        BY <1>9 DEF FlushFind, tableVars
      <3>2. items'[p] = Lines /\ \A q \in Procs : q # p => items'[q] = items[q]
        BY <2>2 DEF TypeOK
      <3>3. pc'[p] = "send" /\ \A q \in Procs : q # p => pc'[q] = pc[q]
        BY <2>2, GotoType
      <3>4. LinesFit'
        BY <3>1, <3>2, <3>3, LinesFound DEF LinesInv, LinesFit, VerdictInv
      <3>5. NotifiedMatchesChat'
        BY <3>1, <3>2, <3>3, <1>b, NotifiedKept DEF LinesInv
      <3> QED BY <3>4, <3>5 DEF LinesInv
    <2> QED BY <2>1, <2>2, <1>9 DEF FlushFind
  <1>10. ASSUME NEW p \in Procs, SendOk(p) PROVE LinesInv'
    BY <1>10, LinesSent
  <1>11. ASSUME NEW p \in Procs, SendFails(p) PROVE LinesInv'
    BY <1>11, <1>b, <1>e DEF SendFails, tableVars
  <1>12. ASSUME NEW p \in Procs, AnswerLost(p) PROVE LinesInv'
    <2>1. Flushed(p) /\ Spend("lost") /\ UNCHANGED row /\ pc[p] = "send"
      BY <1>12 DEF AnswerLost
    <2>2. used'["crash"] = used["crash"] /\ used'["lost"] = used["lost"] + 1
      BY <2>1, SpendType DEF Events
    <2>3. NotifiedMatchesChat'
      <3>1. used'["crash"] + used'["lost"] # 0
        BY <2>2 DEF TypeOK, Events
      <3> QED BY <3>1 DEF NotifiedMatchesChat
    <2>4. \A q \in Procs : pc'[q] # "mark"
      <3>1. pc'[p] = "idle" /\ \A q \in Procs : q # p => pc'[q] = pc[q]
        BY <2>1, FlushedType, GotoType
      <3> QED BY <2>1, <3>1 DEF TurnsFit, Sending
    <2>5. \A q \in Procs : items'[q] \subseteq items[q]
      BY <2>1, FlushedType, ZenonT(40) DEF TypeOK
    <2>6. LinesFit'
      BY <2>1, <2>4, <2>5, LinesKept DEF LinesInv
    <2> QED BY <2>3, <2>6 DEF LinesInv
  <1>13. ASSUME NEW p \in Procs, FlushMark(p) PROVE LinesInv'
    <2>1. UNCHANGED <<told, used>> /\ pc[p] = "mark"
      BY <1>13 DEF FlushMark
    <2>2. CASE items[p] = {}
      BY <2>1, <2>2, <1>13, <1>b, <1>e DEF FlushMark
    <2>3. ASSUME NEW i \in items[p], Marked(p, i) PROVE LinesInv'
      BY <2>1, <2>3, LinesMarked
    <2>4. (items[p] = {} /\ Flushed(p)) \/ \E i \in items[p] : Marked(p, i)
      BY <1>13, FlushMarkEffect
    <2> QED BY <2>2, <2>3, <2>4
  <1>14. ASSUME NEW n \in Nodes, CreateNode(n) \/ ToggleNode(n) PROVE LinesInv'
    BY <1>14, <1>a, <1>c DEF CreateNode, ToggleNode, Elsewhere, tableVars, Events
  <1>15. ASSUME NEW n \in Nodes, DeleteNode(n) PROVE LinesInv'
    BY <1>15, <1>a, <1>f DEF DeleteNode, Elsewhere, Events
  <1>16. ASSUME NEW k \in Keys, RepeatDue(k) PROVE LinesInv'
    <2>1. UNCHANGED <<told, pc, items>> /\ UsedGrows
      BY <1>16, <1>a DEF RepeatDue, Elsewhere, Events
    <2>2. \A l \in Keys : row'[l].id = row[l].id /\ row'[l].notified = row[l].notified
      BY <1>16, RepeatDueEffect DEF VerdictsKept
    <2>3. LinesFit'
      BY <2>1, <2>2, LinesKept DEF LinesInv
    <2>4. NotifiedMatchesChat'
      BY <2>1, <2>2, NotifiedKept DEF LinesInv
    <2> QED BY <2>3, <2>4 DEF LinesInv
  <1>17. CASE UNCHANGED vars
    BY <1>17, <1>b, <1>c DEF vars
  <1> QED BY <1>1, <1>2, <1>3, <1>4, <1>5, <1>6, <1>7, <1>8, <1>9, <1>10, <1>11,
             <1>12, <1>13, <1>14, <1>15, <1>16, <1>17
          DEF Next, HealthStep, Observe, Send

-----------------------------------------------------------------------------
(* Rounds of the health loop.                                              *)

(* What the loop has in hand only becomes less, and a success it was to    *)
(* save is a success on the row.                                           *)
LEMMA RoundKept ==
  ASSUME TypeOK, TypeOK', RoundFits,
         used'["switch"] >= used["switch"], UNCHANGED enabled, todo' = todo,
         \A k \in Keys : InHand(k)' => InHand(k) /\ ok'[Health] = ok[Health],
         \A n \in Nodes : Ssh(n) \in Keys =>
             \/ streak'[Ssh(n)].ok
             \/ /\ streak'[Ssh(n)] = streak[Ssh(n)]
                /\ InHand(Ssh(n)) /\ ok[Health] => InHand(Ssh(n))'
  PROVE  RoundFits'
  <1> SUFFICES ASSUME used'["switch"] = 0
               PROVE  enabled' /\ \A n \in Nodes : NodeFits(n)'
    BY DEF RoundFits
  <1>1. enabled /\ \A n \in Nodes : NodeFits(n)
    <2>1. used["switch"] = 0
      BY DEF TypeOK, Events
    <2> QED BY <2>1 DEF RoundFits
  <1>2. ASSUME NEW n \in Nodes PROVE NodeFits(n)'
    <2> SUFFICES ASSUME Ssh(n) \in Keys, Xray(n) \in Keys, XrayDue(n)'
                 PROVE  /\ [key |-> Ssh(n), ok |-> FALSE] \notin todo'
                        /\ InHand(Ssh(n))' => ok'[Health]
                        /\ \/ [key |-> Ssh(n), ok |-> TRUE] \in todo'
                           \/ InHand(Ssh(n))'
                           \/ streak'[Ssh(n)].ok
      BY DEF NodeFits
    <2>1. XrayDue(n)
      BY DEF XrayDue
    <2>2. /\ [key |-> Ssh(n), ok |-> FALSE] \notin todo
          /\ InHand(Ssh(n)) => ok[Health]
          /\ \/ [key |-> Ssh(n), ok |-> TRUE] \in todo
             \/ InHand(Ssh(n))
             \/ streak[Ssh(n)].ok
      BY <1>1, <2>1 DEF NodeFits
    <2> QED BY <2>2
  <1> QED BY <1>1, <1>2

LEMMA RoundOver ==
  ASSUME TypeOK, TypeOK', RoundFits,
         used'["switch"] >= used["switch"], UNCHANGED enabled, todo' = {},
         pc'[Health] \notin {"get", "save"}
  PROVE  RoundFits'
  <1>1. \A n \in Nodes : NodeFits(n)'
    BY DEF NodeFits, XrayDue, InHand, Observing
  <1>2. used'["switch"] = 0 => enabled'
    BY DEF RoundFits, TypeOK, Events
  <1> QED BY <1>1, <1>2 DEF RoundFits

(* A round that will judge the proxy ports of a node heard it on SSH.      *)
LEMMA ObservationsFit ==
  ASSUME NEW L \in SUBSET Nodes, NEW res, NEW n \in Nodes, Ssh(n) \in Keys,
         NEW o \in Observations(L, res), o.key = Xray(n)
  PROVE  /\ [key |-> Ssh(n), ok |-> TRUE] \in Observations(L, res)
         /\ [key |-> Ssh(n), ok |-> FALSE] \notin Observations(L, res)
  <1>1. n \in L /\ res[n] \in {"closed", "up"}
    <2>1. o.key # <<Panel, "panel_unreachable">>
          /\ \A m \in L : o.key # <<m, "node_unreachable">>
      BY DEF Xray
    <2> QED BY <2>1 DEF Observations, Xray
  <1>2. ~AllSSHDown(L, res)
    BY <1>1 DEF AllSSHDown
  <1>3. [key |-> Ssh(n), ok |-> res[n] # "down"] \in Observations(L, res)
    BY <1>1, <1>2 DEF Observations, Ssh
  <1>4. (res[n] # "down") = TRUE
    BY <1>1
  <1>5. [key |-> Ssh(n), ok |-> FALSE] \notin Observations(L, res)
    <2> SUFFICES ASSUME [key |-> Ssh(n), ok |-> FALSE] \in Observations(L, res)
                 PROVE  FALSE
      OBVIOUS
    <2>1. Ssh(n) # <<Panel, "panel_unreachable">>
          /\ \A m \in L : Ssh(n) # <<m, "xray_down">>
      BY DEF Ssh
    <2>2. PICK m \in L : [key |-> Ssh(n), ok |-> FALSE] =
                         [key |-> <<m, "node_unreachable">>, ok |-> res[m] # "down"]
      BY <2>1, <1>2 DEF Observations
    <2>3. m = n /\ (res[m] # "down") = FALSE
      BY <2>2 DEF Ssh
    <2> QED BY <2>3, <1>4
  <1> QED BY <1>3, <1>4, <1>5

(* Every step keeps to the order of a round.                               *)
LEMMA RoundStep ==
  ASSUME TypeOK, TurnsFit, VerdictInv, RoundFits, TypeOK', [Next]_vars
  PROVE  RoundFits'
  <1> USE ProcFacts
  <1> DEFINE UsedGrows == used'["switch"] >= used["switch"]
             HandKept == \A k \in Keys : InHand(k)' <=> InHand(k)
  <1>a. ASSUME NEW e \in Events, Spend(e) PROVE UsedGrows
    BY <1>a, SpendType DEF TypeOK, Events
  <1>b. ASSUME UNCHANGED used PROVE UsedGrows
    BY <1>b DEF TypeOK, Events
  <1>c. ASSUME UNCHANGED <<enabled, todo, ok, streak>>, HandKept, UsedGrows
        PROVE  RoundFits'
    BY <1>c, RoundKept
  (* The health loop goes on, or another process does.                     *)
  <1>d. ASSUME NEW p \in Procs, UNCHANGED key, ~Observing(p),
               NEW label \in {"idle", "prune", "next", "flush", "send", "mark"}, Goto(p, label)
        PROVE  HandKept
    BY <1>d, GotoType DEF InHand, Observing
  <1>e. ASSUME UNCHANGED <<pc, key>> PROVE HandKept
    BY <1>e DEF InHand, Observing
  <1>f. ASSUME NEW p \in Procs, Flushed(p), UNCHANGED <<enabled, streak, key, ok>>,
               UsedGrows, ~Observing(p)
        PROVE  RoundFits'
    <2>1. Goto(p, "idle") /\ todo' = IF p = Health THEN {} ELSE todo
      BY <1>f, FlushedType
    <2>2. CASE p = Health
      <3>1. pc'[Health] = "idle"
        BY <2>1, <2>2, GotoType
      <3> QED BY <3>1, <2>1, <2>2, <1>f, RoundOver
    <2>3. CASE p # Health
      BY <2>1, <2>3, <1>c, <1>d, <1>f
    <2> QED BY <2>2, <2>3
  <1>g. ASSUME NEW K, DeleteRows(K), UNCHANGED <<enabled, todo, ok>>, HandKept, UsedGrows
        PROVE  RoundFits'
    <2>1. \A k \in Keys : streak'[k].ok \/ streak'[k] = streak[k]
      BY <1>g DEF DeleteRows
    <2> QED BY <2>1, <1>g, RoundKept
  <1>1. CASE HealthStart
    <2>1. pc'[Health] = "prune"
      BY <1>1, GotoType DEF HealthStart
    <2>2. PICK res : todo' = Observations(ActiveNodes, res)
      BY <1>1 DEF HealthStart
    <2>3. ASSUME NEW n \in Nodes PROVE NodeFits(n)'
      <3>1. ~InHand(Ssh(n))' /\ ~InHand(Xray(n))'
        BY <2>1 DEF InHand, Observing
      <3>2. ActiveNodes \in SUBSET Nodes
        BY DEF ActiveNodes
      <3>3. ASSUME NEW o \in todo', o.key = Xray(n), Ssh(n) \in Keys
            PROVE  /\ [key |-> Ssh(n), ok |-> TRUE] \in todo'
                   /\ [key |-> Ssh(n), ok |-> FALSE] \notin todo'
        BY <3>2, <3>3, <2>2, ObservationsFit
      <3> QED BY <3>1, <3>3 DEF NodeFits, XrayDue
    <2> QED BY <2>3, <1>1 DEF HealthStart, RoundFits
  <1>2. CASE HealthPrune
    <2>1. ~Observing(Health)
      BY <1>2 DEF HealthPrune, Observing
    <2>2. CASE enabled
      BY <1>2, <2>1, <2>2, <1>b, <1>d, <1>g DEF HealthPrune, healthVars, localVars
    <2>3. CASE ~enabled
      <3>1. Goto(Health, "idle") /\ todo' = {} /\ UNCHANGED <<enabled, used>>
        BY <1>2, <2>3 DEF HealthPrune, EndRound
      <3>2. pc'[Health] = "idle"
        BY <3>1, GotoType
      <3> QED BY <3>1, <3>2, <1>b, RoundOver
    <2> QED BY <2>2, <2>3
  <1>3. CASE HealthNext
    <2>1. ~Observing(Health) /\ UNCHANGED <<enabled, used, streak>>
      BY <1>3 DEF HealthNext, Observing, tableVars
    <2>2. CASE todo = {}
      <3>1. Goto(Health, "flush") /\ UNCHANGED <<key, ok, todo>>
        BY <1>3, <2>2 DEF HealthNext
      <3> QED BY <3>1, <2>1, <1>b, <1>c, <1>d
    <2>3. CASE todo # {} /\ used["switch"] = 0
      <3>0. enabled /\ \A n \in Nodes : NodeFits(n)
        BY <2>3 DEF RoundFits
      <3>1. PICK o \in todo : /\ todo' = todo \ {o}
                              /\ key' = [key EXCEPT ![Health] = o.key]
                              /\ ok' = [ok EXCEPT ![Health] = o.ok]
                              /\ Goto(Health, "get")
        BY <1>3, <2>3, <3>0 DEF HealthNext
      <3>2. pc'[Health] = "get" /\ key'[Health] = o.key /\ ok'[Health] = o.ok
            /\ o = [key |-> o.key, ok |-> o.ok] /\ o.ok \in BOOLEAN
        BY <3>1, GotoType DEF TypeOK
      <3>3. \A k : InHand(k)' <=> k = o.key
        BY <3>2 DEF InHand, Observing
      <3>4. ASSUME NEW n \in Nodes PROVE NodeFits(n)'
        <4> SUFFICES ASSUME Ssh(n) \in Keys, Xray(n) \in Keys, XrayDue(n)'
                     PROVE  /\ [key |-> Ssh(n), ok |-> FALSE] \notin todo'
                            /\ InHand(Ssh(n))' => ok'[Health]
                            /\ \/ [key |-> Ssh(n), ok |-> TRUE] \in todo'
                               \/ InHand(Ssh(n))'
                               \/ streak'[Ssh(n)].ok
          BY DEF NodeFits
        <4>1. XrayDue(n)
          BY <3>1, <3>3 DEF XrayDue
        <4>2. /\ [key |-> Ssh(n), ok |-> FALSE] \notin todo
              /\ \/ [key |-> Ssh(n), ok |-> TRUE] \in todo
                 \/ streak[Ssh(n)].ok
          BY <4>1, <3>0, <2>1 DEF NodeFits, InHand
        <4>3. InHand(Ssh(n))' => ok'[Health]
          BY <3>2, <3>3, <4>2
        <4> QED BY <4>2, <4>3, <3>1, <3>3, <2>1
      <3> QED BY <3>0, <3>4, <2>1 DEF RoundFits
    <2>4. CASE used["switch"] # 0
      BY <2>1, <2>4 DEF RoundFits
    <2> QED BY <2>2, <2>3, <2>4
  <1>4. CASE SwitchAlerts
    <2>1. used'["switch"] # 0
      BY <1>4, SpendType DEF SwitchAlerts, TypeOK, Events
    <2> QED BY <2>1 DEF RoundFits
  <1>5. CASE Crash
    <2>1. pc'[Health] = "idle" /\ todo' = {} /\ UNCHANGED enabled /\ UsedGrows
      BY <1>5, <1>a DEF Crash, Events
    <2> QED BY <2>1, RoundOver
  <1>6. ASSUME NEW p \in Procs, ReportSync(p) PROVE RoundFits'
    <2>1. p # Health
      BY <1>6 DEF ReportSync
    <2>2. PICK n \in Nodes, good \in BOOLEAN :
             /\ key' = [key EXCEPT ![p] = <<n, "sync_failed">>]
             /\ ok' = [ok EXCEPT ![p] = good]
      BY <1>6 DEF ReportSync
    <2>3. pc'[Health] = pc[Health] /\ key'[Health] = key[Health] /\ ok'[Health] = ok[Health]
      BY <2>1, <2>2, <1>6, GotoType DEF TypeOK, ReportSync
    <2>4. HandKept
      BY <2>3 DEF InHand, Observing
    <2> QED BY <2>3, <2>4, <1>6, <1>b, RoundKept DEF ReportSync, tableVars, healthVars
  <1>7. ASSUME NEW p \in Procs, ObserveGet(p) PROVE RoundFits'
    <2>0. UNCHANGED <<enabled, todo, used, streak>> /\ pc[p] = "get"
      BY <1>7 DEF ObserveGet, healthVars, tableVars
    <2>1. CASE ok[p] /\ ~Stored(key[p])
      <3>1. Goto(p, AfterObserve(p)) /\ Forget(p)
        BY <1>7, <2>1 DEF ObserveGet
      <3>2. CASE p = Health
        <4>1. pc'[Health] = "next"
          BY <3>1, <3>2, GotoType DEF AfterObserve
        <4>2. \A k : ~InHand(k)'
          BY <4>1 DEF InHand, Observing
        <4>3. \A n \in Nodes : Ssh(n) \in Keys /\ InHand(Ssh(n)) => streak'[Ssh(n)].ok
          BY <2>0, <2>1, <3>2 DEF InHand, VerdictInv, RowsFit
        <4> QED BY <4>2, <4>3, <2>0, <1>b, RoundKept
      <3>3. CASE p # Health
        <4>1. pc'[Health] = pc[Health] /\ key'[Health] = key[Health]
              /\ ok'[Health] = ok[Health]
          BY <3>1, <3>3, GotoType, ForgetType DEF AfterObserve
        <4>2. HandKept
          BY <4>1 DEF InHand, Observing
        <4> QED BY <4>1, <4>2, <2>0, <1>b, RoundKept
      <3> QED BY <3>2, <3>3
    <2>2. CASE ~(ok[p] /\ ~Stored(key[p]))
      <3>1. Goto(p, "save") /\ UNCHANGED <<key, ok>>
        BY <1>7, <2>2 DEF ObserveGet
      <3>2. HandKept
        BY <3>1, <2>0, GotoType DEF InHand, Observing
      <3> QED BY <3>1, <3>2, <2>0, <1>b, <1>c
    <2> QED BY <2>1, <2>2
  <1>8. ASSUME NEW p \in Procs, ObserveSave(p) PROVE RoundFits'
    <2>1. Goto(p, AfterObserve(p)) /\ Forget(p) /\ pc[p] = "save"
          /\ UNCHANGED <<enabled, todo, used>>
      BY <1>8 DEF ObserveSave, healthVars
    <2>2. /\ key[p] \in Keys /\ ok[p] \in BOOLEAN
          /\ Saved(key[p], ok[p]) \/ (UNCHANGED <<row, streak>> /\ ~Stored(key[p]))
      BY <1>8, SaveEffect DEF VerdictInv, TypeOK
    <2>3. \A l \in Keys : l # key[p] => streak'[l] = streak[l]
      BY <2>2 DEF Saved, TypeOK
    <2>4. ok[p] => streak'[key[p]].ok
      <3>1. CASE Saved(key[p], ok[p])
        BY <2>2, <3>1, CountersAdvance DEF VerdictInv
      <3>2. CASE UNCHANGED <<row, streak>> /\ ~Stored(key[p])
        BY <2>2, <3>2 DEF VerdictInv, RowsFit
      <3> QED BY <2>2, <3>1, <3>2
    <2>5. CASE p = Health
      <3>1. pc'[Health] = "next"
        BY <2>1, <2>5, GotoType DEF AfterObserve
      <3>2. \A k : ~InHand(k)'
        BY <3>1 DEF InHand, Observing
      <3>3. CASE used["switch"] = 0
        <4>1. enabled /\ \A n \in Nodes : NodeFits(n)
          BY <3>3 DEF RoundFits
        <4>2. ASSUME NEW n \in Nodes PROVE NodeFits(n)'
          <5> SUFFICES ASSUME Ssh(n) \in Keys, Xray(n) \in Keys, XrayDue(n)'
                       PROVE  /\ [key |-> Ssh(n), ok |-> FALSE] \notin todo'
                              /\ InHand(Ssh(n))' => ok'[Health]
                              /\ \/ [key |-> Ssh(n), ok |-> TRUE] \in todo'
                                 \/ streak'[Ssh(n)].ok
            BY DEF NodeFits
          <5>1. XrayDue(n)
            BY <3>2, <2>1 DEF XrayDue
          <5>2. /\ [key |-> Ssh(n), ok |-> FALSE] \notin todo
                /\ InHand(Ssh(n)) => ok[Health]
                /\ \/ [key |-> Ssh(n), ok |-> TRUE] \in todo
                   \/ InHand(Ssh(n))
                   \/ streak[Ssh(n)].ok
            BY <5>1, <4>1 DEF NodeFits
          <5>3. CASE key[Health] = Ssh(n)
            <6>1. InHand(Ssh(n))
              BY <5>3, <2>1, <2>5 DEF InHand, Observing
            <6> QED BY <6>1, <5>2, <5>3, <2>1, <2>4, <2>5, <3>2
          <5>4. CASE key[Health] # Ssh(n)
            BY <5>2, <5>4, <2>1, <2>3, <2>5, <3>2 DEF InHand
          <5> QED BY <5>3, <5>4
        <4> QED BY <4>1, <4>2, <2>1 DEF RoundFits
      <3>4. CASE used["switch"] # 0
        BY <3>4, <2>1 DEF RoundFits
      <3> QED BY <3>3, <3>4
    <2>6. CASE p # Health
      <3>1. pc'[Health] = pc[Health] /\ key'[Health] = key[Health]
            /\ ok'[Health] = ok[Health]
        BY <2>1, <2>6, GotoType, ForgetType DEF AfterObserve
      <3>2. HandKept
        BY <3>1 DEF InHand, Observing
      <3>3. p \in Reporters /\ key[p][2] = "sync_failed"
        BY <2>1, <2>6 DEF TurnsFit, Observing, Procs
      <3>4. \A n \in Nodes : Ssh(n) # key[p]
        BY <3>3 DEF Ssh
      <3> QED BY <3>1, <3>2, <3>4, <2>1, <2>3, <1>b, RoundKept
    <2> QED BY <2>5, <2>6
  <1>9. ASSUME NEW p \in Procs, FlushFind(p) PROVE RoundFits'
    <2>1. UNCHANGED <<enabled, streak, key, ok, used>> /\ ~Observing(p)
      BY <1>9 DEF FlushFind, tableVars, localVars, Observing
    <2>2. CASE Flushed(p)
      BY <2>1, <2>2, <1>b, <1>f
    <2>3. CASE Goto(p, "send") /\ UNCHANGED healthVars
      BY <2>1, <2>3, <1>b, <1>c, <1>d DEF healthVars
    <2> QED BY <1>9, <2>2, <2>3 DEF FlushFind
  <1>10. ASSUME NEW p \in Procs, SendOk(p) PROVE RoundFits'
    BY <1>10, <1>b, <1>c, <1>d DEF SendOk, localVars, healthVars, Observing
  <1>11. ASSUME NEW p \in Procs, SendFails(p) \/ AnswerLost(p) PROVE RoundFits'
    <2>1. /\ Flushed(p) /\ ~Observing(p) /\ UNCHANGED <<enabled, streak, key, ok>>
          /\ UsedGrows
      BY <1>11, <1>a, <1>b DEF SendFails, AnswerLost, localVars, tableVars, Observing, Events
    <2> QED BY <2>1, <1>f
  <1>12. ASSUME NEW p \in Procs, FlushMark(p) PROVE RoundFits'
    <2>1. UNCHANGED <<enabled, streak, key, ok, used>> /\ ~Observing(p)
      BY <1>12 DEF FlushMark, localVars, Observing
    <2>2. CASE Flushed(p)
      BY <2>1, <2>2, <1>b, <1>f
    <2>3. CASE UNCHANGED <<pc, healthVars>>
      BY <2>1, <2>3, <1>b, <1>c, <1>e DEF healthVars
    <2> QED BY <1>12, <2>2, <2>3 DEF FlushMark
  <1>13. ASSUME Elsewhere, UNCHANGED <<enabled, streak>>, UsedGrows PROVE RoundFits'
    BY <1>13, <1>c, <1>e DEF Elsewhere, localVars, healthVars
  <1>14. ASSUME NEW n \in Nodes, CreateNode(n) \/ ToggleNode(n) PROVE RoundFits'
    BY <1>14, <1>a, <1>13 DEF CreateNode, ToggleNode, tableVars, Events
  <1>15. ASSUME NEW n \in Nodes, DeleteNode(n) PROVE RoundFits'
    BY <1>15, <1>a, <1>e, <1>g DEF DeleteNode, Elsewhere, localVars, healthVars, Events
  <1>16. ASSUME NEW k \in Keys, RepeatDue(k) PROVE RoundFits'
    BY <1>16, <1>a, <1>13 DEF RepeatDue, Events
  <1>17. CASE UNCHANGED vars
    BY <1>17, <1>b, <1>c, <1>e DEF vars
  <1> QED BY <1>1, <1>2, <1>3, <1>4, <1>5, <1>6, <1>7, <1>8, <1>9, <1>10, <1>11,
             <1>12, <1>14, <1>15, <1>16, <1>17
          DEF Next, HealthStep, Observe, Send

-----------------------------------------------------------------------------
(* The theorems.                                                           *)

LEMMA AlertInit == Init => AlertInv
  <1> SUFFICES ASSUME Init PROVE AlertInv
    OBVIOUS
  <1> USE ProcFacts
  <1>1. TypeOK
    BY InitType
  <1>2. Blank.id = NoId /\ Blank.ok = 0 /\ Blank.fail = 0 /\ Blank.alerting = FALSE
    BY DEF Blank
  <1>3. TurnsFit
    BY DEF Init, TurnsFit, Observing, Sending
  <1>4. RowsFit /\ VerdictIsCurrent /\ NotifiedMatchesChat
    BY <1>2 DEF Init, RowsFit, VerdictIsCurrent, NotifiedMatchesChat, Stored
  <1>5. CountersFit
    <2>1. \A k \in Keys : LesserOf(0, RecoverAt(k)) = 0
      BY ThresholdsOf, AlertsAssumption DEF LesserOf
    <2> QED BY <1>2, <2>1 DEF Init, CountersFit
  <1>6. SeenFits /\ LinesFit /\ RoundFits
    BY DEF Init, SeenFits, LinesFit, RoundFits, NodeFits, XrayDue, InHand, Observing
  <1> QED BY <1>1, <1>3, <1>4, <1>5, <1>6 DEF AlertInv, VerdictInv

LEMMA AlertStep == AlertInv /\ [Next]_vars => AlertInv'
  BY TypeStep, TurnsStep, VerdictStep, LinesStep, RoundStep
  DEF AlertInv, VerdictInv, LinesInv

LEMMA AlertInvariant == Spec => []AlertInv
  <1>1. Init => AlertInv
    BY AlertInit
  <1>2. AlertInv /\ [Next]_vars => AlertInv'
    BY AlertStep
  <1> QED BY <1>1, <1>2, PTL DEF Spec

(* Every variable keeps to its domain, the thresholds included.            *)
THEOREM AlertTypeCorrect == Spec => []TypeOK
  <1>1. AlertInv => TypeOK
    BY DEF AlertInv
  <1> QED BY <1>1, AlertInvariant, PTL

(* What the row says was announced is what the chat was last told, however *)
(* Observe, Flush and deletions interleave, unless a delivery went         *)
(* unrecorded.                                                             *)
THEOREM ChatIsRecorded == Spec => []NotifiedMatchesChat
  <1>1. AlertInv => NotifiedMatchesChat
    BY DEF AlertInv
  <1> QED BY <1>1, AlertInvariant, PTL

(* The stored verdict is that of the last observations; no delivery undoes *)
(* a newer one.                                                            *)
THEOREM VerdictsFollowObservations == Spec => []VerdictIsCurrent
  <1>1. AlertInv => VerdictIsCurrent
    BY DEF AlertInv, VerdictInv
  <1> QED BY <1>1, AlertInvariant, PTL

(* Only the save of an observation turns an alarm on or off.               *)
LEMMA OnlySavesDecide ==
  ASSUME AlertInv, [Next]_vars, NEW k \in Keys, row'[k].id # NoId,
         row'[k].alerting # row[k].alerting
  PROVE  \E p \in Procs : pc[p] = "save" /\ key[p] = k /\ Saved(k, ok[p])
  <1> USE DEF AlertInv
  <1>1. ~UNCHANGED row
    OBVIOUS
  <1>2. ASSUME NEW K, DeleteRows(K) PROVE FALSE
    BY <1>2 DEF DeleteRows, Blank
  <1>3. ASSUME VerdictsKept PROVE FALSE
    BY <1>3 DEF VerdictsKept
  <1>4. ASSUME NEW p \in Procs, ObserveSave(p)
        PROVE  pc[p] = "save" /\ key[p] = k /\ Saved(k, ok[p])
    <2>1. Saved(key[p], ok[p])
      BY <1>1, <1>4, SaveEffect DEF VerdictInv
    <2>2. key[p] = k
      BY <2>1 DEF Saved
    <2> QED BY <2>1, <2>2, <1>4 DEF ObserveSave
  <1>5. ASSUME NEW p \in Procs, FlushMark(p) PROVE FALSE
    BY <1>1, <1>3, <1>5, FlushMarkEffect DEF Marked
  <1>6. ASSUME NEW l \in Keys, RepeatDue(l) PROVE FALSE
    BY <1>3, <1>6, RepeatDueEffect
  <1>7. ASSUME NEW n \in Nodes, CreateNode(n) \/ ToggleNode(n) \/ DeleteNode(n) PROVE FALSE
    BY <1>1, <1>2, <1>7 DEF CreateNode, ToggleNode, DeleteNode, tableVars
  <1>8. ASSUME NEW p \in Procs,
               ReportSync(p) \/ ObserveGet(p) \/ FlushFind(p) \/ Send(p)
        PROVE  FALSE
    BY <1>1, <1>8 DEF ReportSync, ObserveGet, FlushFind, Send, SendOk, SendFails,
                      AnswerLost, tableVars
  <1>9. ~HealthPrune
    BY <1>1, <1>2 DEF HealthPrune, tableVars
  <1>10. ~HealthStart /\ ~HealthNext /\ ~SwitchAlerts /\ ~Crash /\ ~UNCHANGED vars
    BY <1>1 DEF HealthStart, HealthNext, SwitchAlerts, Crash, vars, tableVars
  <1> HIDE DEF AlertInv
  <1> QED BY <1>4, <1>5, <1>6, <1>7, <1>8, <1>9, <1>10 DEF Next, HealthStep, Observe

(* The alarm goes on only at the threshold of failures in a row, and off   *)
(* only at that of successes.                                              *)
THEOREM AlarmsAreEarned == Spec => VerdictIsEarned
  <1> DEFINE Earned(k) ==
               Stored(k)' /\ row'[k].alerting # row[k].alerting =>
                 /\ streak'[k].ok = row[k].alerting
                 /\ streak'[k].n >= IF row[k].alerting THEN RecoverAt(k) ELSE FailAt(k)
  <1>1. ASSUME AlertInv, [Next]_vars, NEW k \in Keys PROVE Earned(k)
    <2> SUFFICES ASSUME row'[k].id # NoId, row'[k].alerting # row[k].alerting
                 PROVE  /\ streak'[k].ok = row[k].alerting
                        /\ streak'[k].n >= IF row[k].alerting THEN RecoverAt(k)
                                           ELSE FailAt(k)
      BY DEF Stored
    <2>1. PICK p \in Procs : Saved(k, ok[p])
      BY <1>1, OnlySavesDecide
    <2>2. ok[p] \in BOOLEAN /\ row[k].alerting \in BOOLEAN
          /\ TypeOK /\ CountersFit
      BY <1>1 DEF AlertInv, VerdictInv, TypeOK, AlertRow
    <2>3. streak'[k].ok = ok[p] /\ streak'[k].n \in Nat
          /\ FailAt(k) \in Nat /\ RecoverAt(k) \in Nat
      BY <2>1, <2>2, CountersAdvance, ThresholdsOf, AlertsAssumption
    <2>4. row'[k].alerting = IF ok[p]
            THEN row[k].alerting /\ streak'[k].n < RecoverAt(k)
            ELSE row[k].alerting \/ streak'[k].n >= FailAt(k)
      BY <2>1, <2>2, VerdictAdvances
    <2>5. CASE ok[p]
      <3>1. row[k].alerting = TRUE /\ ~(streak'[k].n < RecoverAt(k))
        BY <2>2, <2>4, <2>5
      <3>2. ok[p] = TRUE
        BY <2>2, <2>5
      <3>3. streak'[k].n >= RecoverAt(k)
        BY <3>1, <2>3
      <3> QED BY <3>1, <3>2, <3>3, <2>3
    <2>6. CASE ~ok[p]
      <3>1. row[k].alerting = FALSE /\ streak'[k].n >= FailAt(k)
        BY <2>2, <2>4, <2>6
      <3>2. ok[p] = FALSE
        BY <2>2, <2>6
      <3> QED BY <3>1, <3>2, <2>3
    <2> QED BY <2>5, <2>6
  <1>2. AlertInv /\ [Next]_vars => [\A k \in Keys : Earned(k)]_vars
    BY <1>1
  <1>3. VerdictIsEarned <=> [][\A k \in Keys : Earned(k)]_vars
    BY PTL DEF VerdictIsEarned
  <1> QED BY <1>2, <1>3, AlertInvariant, PTL DEF Spec

(* The alarm for the proxy ports of a node goes on only while the row for  *)
(* its SSH says it answered last, or is about to.                          *)
THEOREM OutagesRaiseOneAlarm == Spec => OneAlarmPerOutage
  <1> DEFINE Single == used["switch"] = 0 =>
               \A n \in Nodes :
                 LET ssh == <<n, "node_unreachable">>
                     xray == <<n, "xray_down">>
                 IN {ssh, xray} \subseteq Keys /\ row'[xray].alerting
                      /\ ~row[xray].alerting
                    => streak[ssh].ok \/ [key |-> ssh, ok |-> TRUE] \in todo
  <1>1. ASSUME AlertInv, [Next]_vars PROVE Single
    <2> SUFFICES ASSUME used["switch"] = 0, NEW n \in Nodes,
                        Ssh(n) \in Keys, Xray(n) \in Keys,
                        row'[Xray(n)].alerting, ~row[Xray(n)].alerting
                 PROVE  streak[Ssh(n)].ok \/ [key |-> Ssh(n), ok |-> TRUE] \in todo
      BY DEF Ssh, Xray
    <2>0. TypeOK' /\ RowsFit'
      BY <1>1, AlertStep DEF AlertInv, VerdictInv
    <2>1. row'[Xray(n)].id # NoId /\ row'[Xray(n)].alerting # row[Xray(n)].alerting
      <3>1. row'[Xray(n)] # Blank
        BY DEF Blank
      <3> QED BY <3>1, <2>0 DEF RowsFit, Stored
    <2>2. PICK p \in Procs : pc[p] = "save" /\ key[p] = Xray(n)
      BY <1>1, <2>1, OnlySavesDecide
    <2>3. p = Health
      <3>1. p \in Reporters => key[p][2] = "sync_failed"
        BY <1>1, <2>2 DEF AlertInv, TurnsFit, Observing
      <3> QED BY <2>2, <3>1 DEF Xray, Procs
    <2>4. XrayDue(n) /\ ~InHand(Ssh(n))
      BY <2>2, <2>3 DEF XrayDue, InHand, Observing, Ssh, Xray
    <2>5. NodeFits(n)
      BY <1>1 DEF AlertInv, RoundFits
    <2> QED BY <2>4, <2>5 DEF NodeFits
  <1>2. AlertInv /\ [Next]_vars => [Single]_vars
    BY <1>1
  <1>3. OneAlarmPerOutage <=> [][Single]_vars
    BY PTL DEF OneAlarmPerOutage
  <1> QED BY <1>2, <1>3, AlertInvariant, PTL DEF Spec
=============================================================================
