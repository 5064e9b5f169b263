-------------------------- MODULE ConfigSyncProofs --------------------------
(***************************************************************************)
(* Proofs about ConfigSync, for any number of nodes, servers, requests and *)
(* configurations and any bounds.                                          *)
(***************************************************************************)
EXTENDS ConfigSync, TLAPS

-----------------------------------------------------------------------------
(* Facts about the values the state is made of.                            *)

LEMMA Choices == AnyNode \in Nodes /\ AnyAddr \in Addrs
  BY ConfigSyncAssumption DEF AnyNode, AnyAddr

LEMMA FirstRowType == FirstRow \in Row
  BY Choices DEF FirstRow, Row, Status, Hash

LEMMA IdleCheckType ==
    IdleCheck \in [pc : CheckPc, at : Nodes, todo : SUBSET Nodes, seen : Row,
                   cfg : Hash]
  BY Choices, FirstRowType DEF IdleCheck, CheckPc, Hash

(* A write to one file of one server keeps the function's type.            *)
LEMMA FileWrite ==
  ASSUME NEW S, NEW f \in [Nodes -> [Addrs -> S]],
         NEW n \in Nodes, NEW a \in Addrs, NEW c \in S
  PROVE  [f EXCEPT ![n][a] = c] \in [Nodes -> [Addrs -> S]]
  <1>1. [f[n] EXCEPT ![a] = c] \in [Addrs -> S]
    OBVIOUS
  <1> QED
    BY <1>1

(* What a file holds after such a write.                                   *)
LEMMA FileRead ==
  ASSUME NEW S, NEW f \in [Nodes -> [Addrs -> S]],
         NEW m \in Nodes, NEW b \in Addrs, NEW c,
         NEW n \in Nodes, NEW a \in Addrs
  PROVE  [f EXCEPT ![m][b] = c][n][a] = IF n = m /\ a = b THEN c ELSE f[n][a]
  <1>1. CASE n = m
    <2>1. [f EXCEPT ![m][b] = c][n] = [f[m] EXCEPT ![b] = c]
      BY <1>1
    <2> QED
      BY <1>1, <2>1
  <1>2. CASE n # m
    BY <1>2
  <1> QED
    BY <1>1, <1>2

LEMMA RowStatus ==
  ASSUME NEW r \in Row, NEW s \in Status
  PROVE  [r EXCEPT !.status = s] \in Row
  BY DEF Row

LEMMA RowParts ==
  ASSUME NEW r \in Row
  PROVE  r.status \in Status /\ r.hash \in Hash /\ r.addr \in Addrs
  BY DEF Row

LEMMA StatusWriteType ==
  ASSUME row \in [Nodes -> Row], NEW n \in Nodes, NEW s \in Status,
         UpdateStatus(n, s)
  PROVE  row' \in [Nodes -> Row]
  BY DEF UpdateStatus, Row

LEMMA LastSyncType ==
  ASSUME row \in [Nodes -> Row], NEW n \in Nodes, NEW s \in Status,
         NEW h \in Hash, UpdateLastSync(n, s, h)
  PROVE  row' \in [Nodes -> Row]
  BY DEF UpdateLastSync, Row

(* Marking any set of rows.                                                *)
LEMMA MarkType ==
  ASSUME row \in [Nodes -> Row], NEW S,
         row' = [n \in Nodes |-> IF n \in S
                                 THEN [row[n] EXCEPT !.status = "drifted"]
                                 ELSE row[n]]
  PROVE  row' \in [Nodes -> Row]
  <1>1. "drifted" \in Status
    BY DEF Status
  <1>2. ASSUME NEW n \in Nodes
        PROVE  (IF n \in S THEN [row[n] EXCEPT !.status = "drifted"]
                           ELSE row[n]) \in Row
    BY <1>1, RowStatus
  <1> QED
    BY <1>2

Jobs(p, a, t, s, c) ==
    /\ p \in [Workers -> WorkerPc]
    /\ a \in [Workers -> Nodes]
    /\ t \in [Workers -> SUBSET Nodes]
    /\ s \in [Workers -> Row]
    /\ c \in [Workers -> Hash]

LEMMA GotoType ==
  ASSUME pc \in [Workers -> WorkerPc], NEW w \in Workers,
         NEW label \in WorkerPc, Goto(w, label)
  PROVE  pc' \in [Workers -> WorkerPc]
  BY DEF Goto

LEMMA FinishType ==
  ASSUME Jobs(pc, at, todo, seen, cfg), NEW w \in Workers, Finish(w)
  PROVE  Jobs(pc', at', todo', seen', cfg')
  BY Choices, FirstRowType DEF Jobs, Finish, Goto, WorkerPc, Hash

LEMMA SpendType ==
  ASSUME used \in [Kinds -> Nat], NEW k \in Kinds, Spend(k)
  PROVE  used' \in [Kinds -> Nat]
  BY DEF Spend

-----------------------------------------------------------------------------
(* Type correctness.                                                       *)

LEMMA InitType == Init => TypeOK
  <1> SUFFICES ASSUME Init PROVE TypeOK
    OBVIOUS
  <1> USE ConfigSyncAssumption, Choices, FirstRowType, IdleCheckType DEF Init
  <1>1. row \in [Nodes -> Row] /\ src \in [Nodes -> Hash]
    OBVIOUS
  <1>2. /\ disk \in [Nodes -> [Addrs -> Content]]
        /\ tmp \in [Nodes -> [Addrs -> Content]]
        /\ installed \in [Nodes -> [Addrs -> SUBSET Content]]
    BY DEF Content
  <1>3. /\ lock \in [Nodes -> Workers \cup {NoWorker}]
        /\ alert \in [Nodes -> BOOLEAN]
        /\ lastResult \in [Nodes -> {"none", "ok", "fail"}]
    OBVIOUS
  <1>4. /\ pc \in [Workers -> WorkerPc]
        /\ at \in [Workers -> Nodes]
        /\ todo \in [Workers -> SUBSET Nodes]
        /\ seen \in [Workers -> Row]
        /\ cfg \in [Workers -> Hash]
    BY DEF WorkerPc, Hash
  <1>5. used \in [Kinds -> Nat]
    OBVIOUS
  <1> QED
    BY <1>1, <1>2, <1>3, <1>4, <1>5 DEF TypeOK

LEMMA SyncType ==
  ASSUME TypeOK, NEW w \in Workers, SyncStart(w) \/ SyncStep(w)
  PROVE  TypeOK'
  <1> USE DEF TypeOK, rowVars, hostVars, jobVars, histVars
  <1>0. /\ at[w] \in Nodes /\ cfg[w] \in Hash /\ seen[w] \in Row
        /\ seen[w].addr \in Addrs
    BY RowParts
  <1>1. CASE SyncStart(w)
    <2>1. pc' \in [Workers -> WorkerPc]
      BY <1>1, GotoType DEF SyncStart, WorkerPc
    <2>2. todo' \in [Workers -> SUBSET Nodes]
      BY <1>1 DEF SyncStart, ActiveNodes, DriftedNodes
    <2> QED
      BY <1>1, <2>1, <2>2 DEF SyncStart
  <1>2. ASSUME NEW n \in Nodes, SyncLock(w, n)
        PROVE  TypeOK'
    <2>1. pc' \in [Workers -> WorkerPc]
      BY <1>2, GotoType DEF SyncLock, WorkerPc
    <2> QED
      BY <1>2, <2>1 DEF SyncLock
  <1>3. CASE SyncFind(w)
    <2>1. pc' \in [Workers -> WorkerPc]
      BY <1>3, GotoType DEF SyncFind, WorkerPc
    <2>2. [FirstRow EXCEPT !.addr = row[at[w]].addr] \in Row
      BY <1>0, FirstRowType DEF Row
    <2> QED
      BY <1>3, <2>1, <2>2 DEF SyncFind
  <1>4. CASE SyncBuild(w)
    <2>1. pc' \in [Workers -> WorkerPc]
      BY <1>4, GotoType DEF SyncBuild, WorkerPc
    <2> QED
      BY <1>0, <1>4, <2>1 DEF SyncBuild
  <1>5. CASE UploadTmp(w)
    <2>1. pc' \in [Workers -> WorkerPc]
      BY <1>5, GotoType DEF UploadTmp, WorkerPc
    <2>2. cfg[w] \in Content /\ Foreign \in Content
      BY <1>0 DEF Content, Hash
    <2>3. tmp' \in {tmp, [tmp EXCEPT ![at[w]][seen[w].addr] = cfg[w]],
                    [tmp EXCEPT ![at[w]][seen[w].addr] = Foreign]}
      BY <1>5 DEF UploadTmp
    <2>4. tmp' \in [Nodes -> [Addrs -> Content]]
      <3>1. [tmp EXCEPT ![at[w]][seen[w].addr] = cfg[w]]
              \in [Nodes -> [Addrs -> Content]]
        BY <1>0, <2>2, FileWrite
      <3>2. [tmp EXCEPT ![at[w]][seen[w].addr] = Foreign]
              \in [Nodes -> [Addrs -> Content]]
        BY <1>0, <2>2, FileWrite
      <3> QED
        BY <2>3, <3>1, <3>2
    <2> QED
      BY <1>5, <2>1, <2>4 DEF UploadTmp
  <1>6. CASE UploadMove(w)
    <2> DEFINE n == at[w]
               a == seen[w].addr
    <2>1. pc' \in [Workers -> WorkerPc]
      BY <1>6, GotoType DEF UploadMove, WorkerPc
    <2>2. tmp[n][a] \in Content /\ NoConfig \in Content
      BY <1>0 DEF Content
    <2>3. disk' \in [Nodes -> [Addrs -> Content]]
      <3>1. disk' \in {disk, [disk EXCEPT ![n][a] = tmp[n][a]]}
        BY <1>6 DEF UploadMove
      <3>2. [disk EXCEPT ![n][a] = tmp[n][a]] \in [Nodes -> [Addrs -> Content]]
        BY <1>0, <2>2, FileWrite
      <3> QED
        BY <3>1, <3>2
    <2>4. tmp' \in [Nodes -> [Addrs -> Content]]
      <3>1. tmp' \in {tmp, [tmp EXCEPT ![n][a] = NoConfig]}
        BY <1>6 DEF UploadMove
      <3>2. [tmp EXCEPT ![n][a] = NoConfig] \in [Nodes -> [Addrs -> Content]]
        BY <1>0, <2>2, FileWrite
      <3> QED
        BY <3>1, <3>2
    <2>5. installed' \in [Nodes -> [Addrs -> SUBSET Content]]
      <3>1. installed' \in {installed,
              [installed EXCEPT ![n][a] = installed[n][a] \cup {tmp[n][a]}]}
        BY <1>6 DEF UploadMove
      <3>2. installed[n][a] \cup {tmp[n][a]} \in SUBSET Content
        BY <1>0, <2>2
      <3>3. [installed EXCEPT ![n][a] = installed[n][a] \cup {tmp[n][a]}]
              \in [Nodes -> [Addrs -> SUBSET Content]]
        BY <1>0, <3>2, FileWrite
      <3> QED
        BY <3>1, <3>3
    <2> QED
      BY <1>6, <2>1, <2>3, <2>4, <2>5 DEF UploadMove
  <1>7. CASE ReloadXray(w)
    <2>1. pc' \in [Workers -> WorkerPc]
      BY <1>7, GotoType DEF ReloadXray, WorkerPc
    <2> QED
      BY <1>7, <2>1 DEF ReloadXray
  <1>8. CASE SyncRecord(w)
    <2>1. pc' \in [Workers -> WorkerPc]
      BY <1>8, GotoType DEF SyncRecord, WorkerPc
    <2>2. row' \in [Nodes -> Row]
      BY <1>0, <1>8, LastSyncType DEF SyncRecord, Status
    <2> QED
      BY <1>0, <1>8, <2>1, <2>2 DEF SyncRecord
  <1>9. CASE FailNode(w)
    <2>1. pc' \in [Workers -> WorkerPc]
      BY <1>9, GotoType DEF FailNode, WorkerPc
    <2>2. row' \in [Nodes -> Row]
      BY <1>0, <1>9, StatusWriteType DEF FailNode, Status
    <2> QED
      BY <1>0, <1>9, <2>1, <2>2 DEF FailNode
  <1>10. CASE SyncReport(w)
    <2>1. Jobs(pc', at', todo', seen', cfg')
      <3>1. CASE todo[w] = {}
        BY <1>10, <3>1, FinishType DEF SyncReport, Jobs
      <3>2. CASE todo[w] # {}
        <4>1. /\ Goto(w, "next")
              /\ at' = [at EXCEPT ![w] = AnyNode]
              /\ seen' = [seen EXCEPT ![w] = FirstRow]
              /\ cfg' = [cfg EXCEPT ![w] = NoConfig]
              /\ UNCHANGED todo
          BY <1>10, <3>2 DEF SyncReport
        <4>2. pc' \in [Workers -> WorkerPc]
          BY <4>1, GotoType DEF WorkerPc
        <4> QED
          BY <4>1, <4>2, Choices, FirstRowType DEF Jobs, Hash
      <3> QED
        BY <3>1, <3>2
    <2>2. alert' \in [Nodes -> BOOLEAN]
      BY <1>0, <1>10 DEF SyncReport
    <2>3. lock' \in [Nodes -> Workers \cup {NoWorker}]
      BY <1>0, <1>10 DEF SyncReport
    <2> QED
      BY <1>10, <2>1, <2>2, <2>3 DEF SyncReport, Jobs
  <1> QED
    BY <1>1, <1>2, <1>3, <1>4, <1>5, <1>6, <1>7, <1>8, <1>9, <1>10
       DEF SyncStep

LEMMA EditType ==
  ASSUME TypeOK, NEW w \in Workers, EditStep(w)
  PROVE  TypeOK'
  <1> USE DEF TypeOK, rowVars, hostVars, jobVars, histVars
  <1>0. /\ Jobs(pc, at, todo, seen, cfg)
        /\ at[w] \in Nodes /\ seen[w] \in Row
    BY DEF Jobs
  <1>1. CASE EditShared(w)
    <2>1. pc' \in [Workers -> WorkerPc]
      BY <1>1, GotoType DEF EditShared, WorkerPc
    <2>2. used' \in [Kinds -> Nat]
      BY <1>1, SpendType DEF EditShared, Kinds
    <2> QED
      BY <1>1, <2>1, <2>2 DEF EditShared, SourceChange
  <1>2. CASE EditGroup(w)
    <2>1. pc' \in [Workers -> WorkerPc]
      BY <1>2, GotoType DEF EditGroup, WorkerPc
    <2>2. used' \in [Kinds -> Nat]
      BY <1>2, SpendType DEF EditGroup, Kinds
    <2>3. PICK S \in SUBSET Nodes : /\ SourceChange(S)
                                    /\ todo' = [todo EXCEPT ![w] = S]
      BY <1>2 DEF EditGroup
    <2>4. src' \in [Nodes -> Hash]
      BY <2>3 DEF SourceChange
    <2>5. todo' \in [Workers -> SUBSET Nodes]
      BY <2>3
    <2> QED
      BY <1>2, <2>1, <2>2, <2>4, <2>5 DEF EditGroup
  <1>3. CASE Mark(w)
    <2>1. PICK S : row' = [n \in Nodes |->
                             IF n \in S
                             THEN [row[n] EXCEPT !.status = "drifted"]
                             ELSE row[n]]
      <3>1. CASE MarkAllDrifted
        <4>1. row' = [n \in Nodes |->
                        IF n \in {m \in Nodes : row[m].active}
                        THEN [row[n] EXCEPT !.status = "drifted"]
                        ELSE row[n]]
          BY <3>1 DEF MarkAllDrifted
        <4> QED
          BY <4>1
      <3> QED
        BY <1>3, <3>1 DEF Mark
    <2>2. row' \in [Nodes -> Row]
      BY <2>1, MarkType
    <2>3. Jobs(pc', at', todo', seen', cfg')
      BY <1>0, <1>3, FinishType DEF Mark
    <2> QED
      BY <1>3, <2>2, <2>3 DEF Mark, Jobs
  <1>4. ASSUME NEW n \in Nodes, UpdateFind(w, n) \/ ReplaceFind(w, n)
        PROVE  TypeOK'
    <2>1. pc' \in [Workers -> WorkerPc]
      BY <1>4, GotoType DEF UpdateFind, ReplaceFind, WorkerPc
    <2>2. used' \in [Kinds -> Nat]
      BY <1>4, SpendType DEF UpdateFind, ReplaceFind, Kinds
    <2>3. /\ at' \in [Workers -> Nodes]
          /\ seen' \in [Workers -> Row]
      <3>1. /\ at' = [at EXCEPT ![w] = n]
            /\ seen' = [seen EXCEPT ![w] = row[n]]
        BY <1>4 DEF UpdateFind, ReplaceFind
      <3> QED
        BY <3>1
    <2> QED
      BY <1>4, <2>1, <2>2, <2>3 DEF UpdateFind, ReplaceFind
  <1>5. CASE UpdateSave(w)
    <2>1. Jobs(pc', at', todo', seen', cfg')
      BY <1>0, <1>5, FinishType DEF UpdateSave
    <2> QED
      BY <1>0, <1>5, <2>1 DEF UpdateSave, Jobs, SourceChange
  <1>6. CASE UpdateSaveAddr(w)
    <2>1. Jobs(pc', at', todo', seen', cfg')
      BY <1>0, <1>6, FinishType DEF UpdateSaveAddr
    <2>2. used' \in [Kinds -> Nat]
      BY <1>6, SpendType DEF UpdateSaveAddr, Kinds
    <2>3. ASSUME NEW a \in Addrs
          PROVE  [seen[w] EXCEPT !.status = "drifted", !.addr = a] \in Row
      BY <1>0 DEF Row, Status
    <2>4. row' \in [Nodes -> Row]
      <3>1. PICK a \in Addrs :
              row' = [row EXCEPT ![at[w]] =
                        [seen[w] EXCEPT !.status = "drifted", !.addr = a]]
        BY <1>6 DEF UpdateSaveAddr
      <3>2. [seen[w] EXCEPT !.status = "drifted", !.addr = a] \in Row
        BY <2>3
      <3> QED
        BY <1>0, <3>1, <3>2
    <2> QED
      BY <1>6, <2>1, <2>2, <2>4 DEF UpdateSaveAddr, Jobs
  <1>7. CASE ReplaceSave(w)
    <2>1. ASSUME NEW a \in Addrs
          PROVE  [seen[w] EXCEPT !.status = "pending", !.hash = NoConfig,
                                 !.addr = a] \in Row
      BY <1>0 DEF Row, Status, Hash
    <2>2. row' \in [Nodes -> Row]
      <3>1. PICK a \in Addrs :
              row' = [row EXCEPT ![at[w]] =
                        [seen[w] EXCEPT !.status = "pending", !.hash = NoConfig,
                                        !.addr = a]]
        BY <1>7 DEF ReplaceSave
      <3>2. [seen[w] EXCEPT !.status = "pending", !.hash = NoConfig, !.addr = a]
              \in Row
        BY <2>1
      <3> QED
        BY <1>0, <3>1, <3>2
    <2>3. Jobs(pc', at', todo', seen', cfg')
      <3>1. CASE Finish(w)
        BY <1>0, <3>1, FinishType
      <3>2. CASE /\ todo' = [todo EXCEPT ![w] = {at[w]}]
                 /\ Goto(w, "next")
                 /\ at' = [at EXCEPT ![w] = AnyNode]
                 /\ seen' = [seen EXCEPT ![w] = FirstRow]
                 /\ UNCHANGED cfg
        <4>1. pc' \in [Workers -> WorkerPc]
          BY <3>2, GotoType DEF WorkerPc
        <4>2. todo' \in [Workers -> SUBSET Nodes] /\ at' \in [Workers -> Nodes]
              /\ seen' \in [Workers -> Row]
          BY <1>0, <3>2, Choices, FirstRowType
        <4> QED
          BY <3>2, <4>1, <4>2 DEF Jobs
      <3> QED
        BY <1>7, <3>1, <3>2 DEF ReplaceSave
    <2> QED
      BY <1>7, <2>2, <2>3 DEF ReplaceSave, Jobs
  <1> QED
    BY <1>1, <1>2, <1>3, <1>4, <1>5, <1>6, <1>7 DEF EditStep

CheckRecord == [pc : CheckPc, at : Nodes, todo : SUBSET Nodes, seen : Row,
                cfg : Hash]

LEMMA CheckRecordType ==
  ASSUME TypeOK
  PROVE  /\ NextNode \in CheckRecord
         /\ \A label \in CheckPc : Then(label) \in CheckRecord
         /\ chk.at \in Nodes /\ chk.cfg \in Hash /\ chk.seen \in Row
  BY FirstRowType, Choices
     DEF TypeOK, CheckRecord, NextNode, Then, IdleCheck, CheckPc, Hash

LEMMA CheckType ==
  ASSUME TypeOK, CheckStep
  PROVE  TypeOK'
  <1>0. UNCHANGED chkFrame
    BY DEF CheckStep, CheckTick, CheckEnd, CheckFind, CheckBuild,
           CheckReadFails, CheckReadOk, CheckMark, CheckConfirm
  <1>1. chk' \in CheckRecord
    <2> USE CheckRecordType DEF CheckPc
    <2>1. CASE CheckTick
      BY <2>1 DEF CheckTick, ActiveNodes, TypeOK, CheckRecord
    <2>2. CASE CheckEnd
      BY <2>2, IdleCheckType DEF CheckEnd, CheckRecord
    <2>3. ASSUME NEW n \in Nodes, CheckFind(n)
          PROVE  chk' \in CheckRecord
      <3>1. [row[n] EXCEPT !.active = TRUE] \in Row
        BY ZenonT(40) DEF TypeOK, Row
      <3> QED
        BY <2>3, <3>1 DEF CheckFind, TypeOK, CheckRecord
    <2>4. CASE CheckBuild
      BY <2>4 DEF CheckBuild, TypeOK, CheckRecord
    <2>5. CASE CheckReadFails \/ CheckReadOk
      BY <2>5 DEF CheckReadFails, CheckReadOk
    <2>6. CASE CheckMark \/ CheckConfirm
      BY <2>6 DEF CheckMark, CheckConfirm
    <2> QED
      BY <2>1, <2>2, <2>3, <2>4, <2>5, <2>6 DEF CheckStep
  <1>2. row' \in [Nodes -> Row]
    <2> USE CheckRecordType DEF TypeOK, Status
    <2>1. CASE CheckMark
      BY <2>1, StatusWriteType DEF CheckMark
    <2>2. CASE CheckConfirm
      BY <2>2, LastSyncType DEF CheckConfirm
    <2>3. CASE UNCHANGED row
      BY <2>3
    <2> QED
      BY <2>1, <2>2, <2>3 DEF CheckStep, CheckTick, CheckEnd, CheckFind,
         CheckBuild, CheckReadFails, CheckReadOk
  <1> QED
    BY <1>0, <1>1, <1>2
       DEF TypeOK, CheckRecord, chkFrame, hostVars, jobVars, histVars

LEMMA EnvironmentType ==
  ASSUME TypeOK,
         \/ EditSilently
         \/ \E n \in Nodes : ToggleActive(n)
         \/ \E n \in Nodes, a \in Addrs : HostChanged(n, a)
         \/ Crash
         \/ UNCHANGED vars
  PROVE  TypeOK'
  <1> USE SpendType DEF TypeOK, rowVars, hostVars, jobVars, histVars, Kinds
  <1>1. CASE EditSilently
    BY <1>1 DEF EditSilently, SourceChange
  <1>2. ASSUME NEW n \in Nodes, ToggleActive(n)
        PROVE  TypeOK'
    <2>1. [row[n] EXCEPT !.active = ~@] \in Row
      BY ZenonT(40) DEF Row
    <2>2. row' = [row EXCEPT ![n] = [row[n] EXCEPT !.active = ~@]]
      BY <1>2 DEF ToggleActive
    <2> QED
      BY <1>2, <2>1, <2>2 DEF ToggleActive
  <1>3. ASSUME NEW n \in Nodes, NEW a \in Addrs, HostChanged(n, a)
        PROVE  TypeOK'
    <2>1. NoConfig \in Content /\ Foreign \in Content
      BY DEF Content
    <2>2. disk' \in [Nodes -> [Addrs -> Content]]
      <3>1. /\ [disk EXCEPT ![n][a] = Foreign] \in [Nodes -> [Addrs -> Content]]
            /\ [disk EXCEPT ![n][a] = NoConfig] \in [Nodes -> [Addrs -> Content]]
        BY <2>1, FileWrite
      <3> QED
        BY <1>3, <3>1 DEF HostChanged
    <2>3. tmp' \in [Nodes -> [Addrs -> Content]]
      <3>1. [tmp EXCEPT ![n][a] = NoConfig] \in [Nodes -> [Addrs -> Content]]
        BY <2>1, FileWrite
      <3> QED
        BY <1>3, <3>1 DEF HostChanged
    <2>4. used' \in [Kinds -> Nat]
      BY <1>3 DEF HostChanged
    <2> QED
      BY <1>3, <2>2, <2>3, <2>4 DEF HostChanged
  <1>4. CASE Crash
    <2>1. Jobs(pc', at', todo', seen', cfg')
      BY <1>4, Choices, FirstRowType DEF Crash, Jobs, WorkerPc, Hash
    <2>2. used' \in [Kinds -> Nat]
      BY <1>4 DEF Crash
    <2> QED
      BY <1>4, <2>1, <2>2, IdleCheckType DEF Crash, Jobs
  <1>5. CASE UNCHANGED vars
    BY <1>5 DEF vars
  <1> QED
    BY <1>1, <1>2, <1>3, <1>4, <1>5

LEMMA TypeStep == TypeOK /\ [Next]_vars => TypeOK'
  BY SyncType, EditType, CheckType, EnvironmentType DEF Next

(* Every variable keeps to its domain.                                     *)
THEOREM TypeCorrect == Spec => []TypeOK
  BY InitType, TypeStep, PTL DEF Spec

-----------------------------------------------------------------------------
(* Mutual exclusion of pushes.                                             *)

(* A step of w moves only w's local variables.                             *)
LEMMA OwnStep ==
  ASSUME TypeOK, NEW w \in Workers,
         SyncStart(w) \/ SyncStep(w) \/ EditStep(w)
  PROVE  \A v \in Workers \ {w} : /\ pc'[v] = pc[v]
                                  /\ at'[v] = at[v]
                                  /\ seen'[v] = seen[v]
                                  /\ cfg'[v] = cfg[v]
  <1> USE DEF Goto, Finish, jobVars, TypeOK
  <1>1. CASE SyncStart(w) \/ \E n \in Nodes : SyncLock(w, n)
    BY <1>1 DEF SyncStart, SyncLock
  <1>2. CASE SyncFind(w) \/ SyncBuild(w) \/ UploadTmp(w) \/ UploadMove(w)
    BY <1>2 DEF SyncFind, SyncBuild, UploadTmp, UploadMove
  <1>3. CASE ReloadXray(w) \/ SyncRecord(w) \/ FailNode(w)
    BY <1>3 DEF ReloadXray, SyncRecord, FailNode
  <1>4. CASE SyncReport(w)
    BY <1>4 DEF SyncReport
  <1>5. CASE EditShared(w) \/ EditGroup(w) \/ Mark(w)
    BY <1>5 DEF EditShared, EditGroup, Mark
  <1>6. CASE \E n \in Nodes : UpdateFind(w, n) \/ ReplaceFind(w, n)
    BY <1>6 DEF UpdateFind, ReplaceFind
  <1>7. CASE UpdateSave(w) \/ UpdateSaveAddr(w) \/ ReplaceSave(w)
    BY <1>7 DEF UpdateSave, UpdateSaveAddr, ReplaceSave
  <1> QED
    BY <1>1, <1>2, <1>3, <1>4, <1>5, <1>6, <1>7 DEF SyncStep, EditStep

(* Where a step of w may lead: it enters a push by taking the lock, leaves *)
(* it by giving the lock up, and otherwise stays inside or outside.        *)
LEMMA PushStep ==
  ASSUME TypeOK, NEW w \in Workers,
         SyncStart(w) \/ SyncStep(w) \/ EditStep(w)
  PROVE  \/ /\ lock' = lock
            /\ pc[w] \notin Pushing /\ pc'[w] \notin Pushing
         \/ /\ lock' = lock
            /\ pc[w] \in Pushing /\ pc'[w] \in Pushing /\ at'[w] = at[w]
         \/ \E n \in Nodes :
              /\ lock[n] = NoWorker /\ lock' = [lock EXCEPT ![n] = w]
              /\ pc[w] \notin Pushing /\ pc'[w] \in Pushing /\ at'[w] = n
         \/ /\ lock' = [lock EXCEPT ![at[w]] = NoWorker]
            /\ pc[w] \in Pushing /\ pc'[w] \notin Pushing
  <1> USE DEF Goto, Finish, jobVars, TypeOK, Pushing
  <1>1. CASE SyncStart(w) \/ \E n \in Nodes : SyncLock(w, n)
    BY <1>1 DEF SyncStart, SyncLock
  <1>2. CASE SyncFind(w) \/ SyncBuild(w) \/ UploadTmp(w) \/ UploadMove(w)
    BY <1>2 DEF SyncFind, SyncBuild, UploadTmp, UploadMove
  <1>3. CASE ReloadXray(w) \/ SyncRecord(w) \/ FailNode(w)
    BY <1>3 DEF ReloadXray, SyncRecord, FailNode
  <1>4. CASE SyncReport(w)
    BY <1>4 DEF SyncReport
  <1>5. CASE EditShared(w) \/ EditGroup(w) \/ Mark(w)
    BY <1>5 DEF EditShared, EditGroup, Mark
  <1>6. CASE \E n \in Nodes : UpdateFind(w, n) \/ ReplaceFind(w, n)
    BY <1>6 DEF UpdateFind, ReplaceFind
  <1>7. CASE UpdateSave(w) \/ UpdateSaveAddr(w) \/ ReplaceSave(w)
    BY <1>7, ZenonT(40) DEF UpdateSave, UpdateSaveAddr, ReplaceSave
  <1> QED
    BY <1>1, <1>2, <1>3, <1>4, <1>5, <1>6, <1>7 DEF SyncStep, EditStep

(* The drift check writes rows and nothing else.                           *)
LEMMA CheckFrame ==
  ASSUME CheckStep
  PROVE  UNCHANGED chkFrame
  <1>1. CheckTick \/ CheckEnd => UNCHANGED chkFrame
    BY DEF CheckTick, CheckEnd
  <1>2. (\E n \in Nodes : CheckFind(n)) => UNCHANGED chkFrame
    BY DEF CheckFind
  <1>3. CheckBuild => UNCHANGED chkFrame
    BY DEF CheckBuild
  <1>4. CheckReadFails \/ CheckReadOk => UNCHANGED chkFrame
    BY DEF CheckReadFails, CheckReadOk
  <1>5. CheckMark \/ CheckConfirm => UNCHANGED chkFrame
    BY DEF CheckMark, CheckConfirm
  <1> QED
    BY <1>1, <1>2, <1>3, <1>4, <1>5 DEF CheckStep

LEMMA LockInit == Init => LockDiscipline
  BY ConfigSyncAssumption DEF Init, LockDiscipline, Holds, Pushing

LEMMA LockStep == TypeOK /\ LockDiscipline /\ [Next]_vars => LockDiscipline'
  <1> SUFFICES ASSUME TypeOK, LockDiscipline, [Next]_vars
               PROVE  LockDiscipline'
    OBVIOUS
  <1>1. ASSUME NEW w \in Workers, SyncStart(w) \/ SyncStep(w) \/ EditStep(w)
        PROVE  LockDiscipline'
    <2> SUFFICES ASSUME NEW n \in Nodes, NEW v \in Workers
                 PROVE  (lock[n] = v <=> Holds(v, n))'
      BY DEF LockDiscipline
    <2>1. lock[n] = v <=> Holds(v, n)
      BY DEF LockDiscipline
    <2>2. lock[n] = w <=> Holds(w, n)
      BY DEF LockDiscipline
    <2>3. v # w => pc'[v] = pc[v] /\ at'[v] = at[v]
      BY <1>1, OwnStep
    <2>4. v # NoWorker /\ w # NoWorker
      BY ConfigSyncAssumption
    <2> QED
      BY <1>1, <2>1, <2>2, <2>3, <2>4, PushStep DEF Holds, TypeOK
  <1>2. CASE Crash
    BY <1>2, ConfigSyncAssumption DEF Crash, LockDiscipline, Holds, Pushing
  <1>3. CASE UNCHANGED <<lock, pc, at>>
    BY <1>3 DEF LockDiscipline, Holds
  <1>4. EditSilently \/ (\E n \in Nodes : ToggleActive(n)) \/ CheckStep
        \/ (\E n \in Nodes, a \in Addrs : HostChanged(n, a))
        \/ UNCHANGED vars
        => UNCHANGED <<lock, pc, at>>
    BY CheckFrame DEF EditSilently, ToggleActive, HostChanged, chkFrame, jobVars, vars
  <1> QED
    BY <1>1, <1>2, <1>3, <1>4 DEF Next

(* Who holds a node's lock is exactly who is pushing to the node, so two   *)
(* pushes never run against one node (nodelock.go).                        *)
THEOREM Exclusion == Spec => []LockDiscipline
  BY InitType, TypeStep, LockInit, LockStep, PTL DEF Spec

-----------------------------------------------------------------------------
(* What a push moves into place is its own configuration.                  *)

(* The rest of Next: nothing a push has read or built changes.             *)
Elsewhere ==
    \/ EditSilently
    \/ \E n \in Nodes : ToggleActive(n)
    \/ CheckStep
    \/ \E n \in Nodes, a \in Addrs : HostChanged(n, a)
    \/ UNCHANGED vars

LEMMA NextCases ==
  [Next]_vars <=> \/ \E w \in Workers : SyncStart(w) \/ SyncStep(w) \/ EditStep(w)
                  \/ Crash
                  \/ Elsewhere
  BY DEF Next, Elsewhere

LEMMA ElsewhereFrame ==
  ASSUME Elsewhere
  PROVE  UNCHANGED <<jobVars, lock, installed>>
  <1>1. CheckStep => UNCHANGED <<jobVars, lock, installed>>
    BY CheckFrame DEF chkFrame, histVars
  <1> QED
    BY <1>1 DEF Elsewhere, EditSilently, ToggleActive, HostChanged, jobVars,
                histVars, vars

(* Apart from UploadTmp and UploadMove, worker steps leave the servers.    *)
LEMMA HostFrame ==
  ASSUME NEW w \in Workers, SyncStart(w) \/ SyncStep(w) \/ EditStep(w)
  PROVE  UploadTmp(w) \/ UploadMove(w) \/ UNCHANGED <<disk, tmp, installed>>
  <1> USE DEF hostVars, histVars
  <1>1. CASE SyncStart(w) \/ \E n \in Nodes : SyncLock(w, n)
    BY <1>1 DEF SyncStart, SyncLock
  <1>2. CASE SyncFind(w) \/ SyncBuild(w) \/ ReloadXray(w) \/ SyncRecord(w)
    BY <1>2 DEF SyncFind, SyncBuild, ReloadXray, SyncRecord
  <1>3. CASE FailNode(w) \/ SyncReport(w)
    BY <1>3 DEF FailNode, SyncReport
  <1>4. CASE EditStep(w)
    <2>1. CASE EditShared(w) \/ EditGroup(w) \/ Mark(w)
      BY <2>1 DEF EditShared, EditGroup, Mark
    <2>2. CASE \E n \in Nodes : UpdateFind(w, n) \/ ReplaceFind(w, n)
      BY <2>2 DEF UpdateFind, ReplaceFind
    <2>3. CASE UpdateSave(w) \/ UpdateSaveAddr(w)
      BY <2>3 DEF UpdateSave, UpdateSaveAddr
    <2>4. CASE ReplaceSave(w)
      BY <2>4 DEF ReplaceSave
    <2> QED
      BY <1>4, <2>1, <2>2, <2>3, <2>4 DEF EditStep
  <1> QED
    BY <1>1, <1>2, <1>3, <1>4 DEF SyncStep

(* The history of a server only grows.                                     *)
LEMMA InstalledGrows ==
  ASSUME TypeOK, [Next]_vars, NEW n \in Nodes, NEW a \in Addrs
  PROVE  installed[n][a] \subseteq installed'[n][a]
  <1>1. ASSUME NEW w \in Workers, UploadMove(w)
        PROVE  installed[n][a] \subseteq installed'[n][a]
    <2>1. /\ at[w] \in Nodes /\ seen[w].addr \in Addrs
      BY RowParts DEF TypeOK
    <2>2. \/ installed' = installed
          \/ \E c : installed' = [installed EXCEPT ![at[w]][seen[w].addr] =
                                    installed[at[w]][seen[w].addr] \cup {c}]
      BY <1>1 DEF UploadMove
    <2>3. installed \in [Nodes -> [Addrs -> SUBSET Content]]
      BY DEF TypeOK
    <2>4. ASSUME NEW c, installed' = [installed EXCEPT ![at[w]][seen[w].addr] =
                                    installed[at[w]][seen[w].addr] \cup {c}]
          PROVE  installed[n][a] \subseteq installed'[n][a]
      BY <2>1, <2>3, <2>4, FileRead
    <2> QED
      BY <2>2, <2>4
  <1>2. ASSUME NEW w \in Workers, UploadTmp(w)
        PROVE  installed' = installed
    BY <1>2 DEF UploadTmp, histVars
  <1>3. CASE Crash
    BY <1>3 DEF Crash, histVars
  <1> QED
    BY <1>1, <1>2, <1>3, NextCases, ElsewhereFrame, HostFrame

(* Two pushes are never to the same node.                                  *)
LEMMA Apart ==
  ASSUME TypeOK, LockDiscipline, NEW v \in Workers, NEW w \in Workers, v # w,
         pc[v] \in Pushing, pc[w] \in Pushing
  PROVE  at[v] # at[w]
  BY DEF TypeOK, LockDiscipline, Holds

(* A push leaves the temporary files of the other pushes alone.            *)
LEMMA TmpApart ==
  ASSUME TypeOK, LockDiscipline, NEW v \in Workers, NEW w \in Workers, v # w,
         pc[v] \in Pushing, SyncStart(w) \/ SyncStep(w) \/ EditStep(w)
  PROVE  tmp'[at[v]] = tmp[at[v]]
  <1>1. CASE UploadTmp(w)
    <2>1. at[v] # at[w]
      BY <1>1, Apart DEF UploadTmp, Pushing
    <2>2. PICK c : tmp' = tmp \/ tmp' = [tmp EXCEPT ![at[w]][seen[w].addr] = c]
      BY <1>1 DEF UploadTmp
    <2> QED
      BY <2>1, <2>2 DEF TypeOK
  <1>2. CASE UploadMove(w)
    <2>1. at[v] # at[w]
      BY <1>2, Apart DEF UploadMove, Pushing
    <2> QED
      BY <1>2, <2>1 DEF UploadMove, TypeOK
  <1> QED
    BY <1>1, <1>2, HostFrame

PushInv == TmpIsOwn /\ ReachesServer

LEMMA PushInit == Init => PushInv
  BY DEF Init, PushInv, TmpIsOwn, ReachesServer

(* What the step of a push itself establishes for the push.                *)
LEMMA OwnPush ==
  ASSUME TypeOK, PushInv, NEW w \in Workers,
         SyncStart(w) \/ SyncStep(w) \/ EditStep(w)
  PROVE  /\ pc'[w] = "move" => tmp'[at'[w]][seen'[w].addr] = cfg'[w]
         /\ pc'[w] \in {"upload", "move", "reload", "record"} =>
              cfg'[w] \in Config
         /\ pc'[w] \in {"reload", "record"} =>
              cfg'[w] \in installed'[at'[w]][seen'[w].addr]
  <1> USE DEF TypeOK, Goto, Finish, jobVars, histVars
  <1>0. at[w] \in Nodes /\ seen[w].addr \in Addrs /\ src[at[w]] \in Hash
    BY RowParts
  <1>1. CASE SyncStart(w) \/ \E n \in Nodes : SyncLock(w, n)
    BY <1>1 DEF SyncStart, SyncLock
  <1>2. CASE SyncFind(w)
    BY <1>2 DEF SyncFind
  <1>3. CASE SyncBuild(w)
    BY <1>0, <1>3 DEF SyncBuild, Hash
  <1>4. CASE UploadTmp(w)
    <2>1. cfg[w] \in Config
      BY <1>4 DEF UploadTmp, PushInv, ReachesServer
    <2>2. pc'[w] = "move" => tmp' = [tmp EXCEPT ![at[w]][seen[w].addr] = cfg[w]]
      BY <1>4 DEF UploadTmp
    <2>3. pc'[w] \in {"move", "fail"}
      BY <1>4 DEF UploadTmp
    <2> QED
      BY <1>0, <1>4, <2>1, <2>2, <2>3 DEF UploadTmp
  <1>5. CASE UploadMove(w)
    <2>1. /\ cfg[w] \in Config
          /\ tmp[at[w]][seen[w].addr] \in {cfg[w], NoConfig}
      BY <1>5 DEF UploadMove, PushInv, ReachesServer, TmpIsOwn
    <2>2. CASE pc'[w] = "reload"
      <3>1. /\ tmp[at[w]][seen[w].addr] # NoConfig
            /\ installed' = [installed EXCEPT ![at[w]][seen[w].addr] =
                               @ \cup {tmp[at[w]][seen[w].addr]}]
        BY <1>5, <2>2 DEF UploadMove
      <3>2. cfg[w] \in installed'[at[w]][seen[w].addr]
        BY <1>0, <2>1, <3>1
      <3> QED
        BY <1>5, <2>1, <2>2, <3>2 DEF UploadMove
    <2>3. pc'[w] \in {"reload", "fail"}
      BY <1>5 DEF UploadMove
    <2> QED
      BY <2>2, <2>3
  <1>6. CASE ReloadXray(w)
    BY <1>6 DEF ReloadXray, PushInv, ReachesServer
  <1>7. CASE SyncRecord(w) \/ FailNode(w)
    BY <1>7 DEF SyncRecord, FailNode
  <1>8. CASE SyncReport(w)
    BY <1>8 DEF SyncReport
  <1>9. CASE EditShared(w) \/ EditGroup(w) \/ Mark(w)
    BY <1>9 DEF EditShared, EditGroup, Mark
  <1>10. CASE \E n \in Nodes : UpdateFind(w, n) \/ ReplaceFind(w, n)
    BY <1>10 DEF UpdateFind, ReplaceFind
  <1>11. CASE UpdateSave(w) \/ UpdateSaveAddr(w) \/ ReplaceSave(w)
    BY <1>11, ZenonT(40) DEF UpdateSave, UpdateSaveAddr, ReplaceSave
  <1> QED
    BY <1>1, <1>2, <1>3, <1>4, <1>5, <1>6, <1>7, <1>8, <1>9, <1>10, <1>11
       DEF SyncStep, EditStep

LEMMA PushInvStep ==
  ASSUME TypeOK, LockDiscipline, PushInv, [Next]_vars
  PROVE  PushInv'
  <1>1. ASSUME NEW w \in Workers, SyncStart(w) \/ SyncStep(w) \/ EditStep(w)
        PROVE  PushInv'
    <2>1. TmpIsOwn'
      <3> SUFFICES ASSUME NEW v \in Workers, pc'[v] = "move"
                   PROVE  tmp'[at'[v]][seen'[v].addr] \in {cfg'[v], NoConfig}
        BY DEF TmpIsOwn
      <3>1. CASE v = w
        BY <1>1, <3>1, OwnPush
      <3>2. CASE v # w
        <4>1. /\ pc[v] = "move" /\ at'[v] = at[v]
              /\ seen'[v] = seen[v] /\ cfg'[v] = cfg[v]
          BY <1>1, <3>2, OwnStep
        <4>2. tmp'[at[v]] = tmp[at[v]]
          BY <1>1, <3>2, <4>1, TmpApart DEF Pushing
        <4> QED
          BY <4>1, <4>2 DEF PushInv, TmpIsOwn
      <3> QED
        BY <3>1, <3>2
    <2>2. ReachesServer'
      <3> SUFFICES ASSUME NEW v \in Workers
                   PROVE  /\ pc'[v] \in {"upload", "move", "reload", "record"}
                              => cfg'[v] \in Config
                          /\ pc'[v] \in {"reload", "record"} =>
                               cfg'[v] \in installed'[at'[v]][seen'[v].addr]
        BY DEF ReachesServer
      <3>1. CASE v = w
        BY <1>1, <3>1, OwnPush
      <3>2. CASE v # w
        <4>1. /\ pc'[v] = pc[v] /\ at'[v] = at[v]
              /\ seen'[v] = seen[v] /\ cfg'[v] = cfg[v]
          BY <1>1, <3>2, OwnStep
        <4>2. at[v] \in Nodes /\ seen[v].addr \in Addrs
          BY RowParts DEF TypeOK
        <4>3. installed[at[v]][seen[v].addr] \subseteq installed'[at[v]][seen[v].addr]
          BY <4>2, InstalledGrows
        <4> QED
          BY <4>1, <4>3 DEF PushInv, ReachesServer
      <3> QED
        BY <3>1, <3>2
    <2> QED
      BY <2>1, <2>2 DEF PushInv
  <1>2. CASE Crash
    BY <1>2 DEF Crash, PushInv, TmpIsOwn, ReachesServer
  <1>3. CASE Elsewhere
    <2>1. UNCHANGED <<jobVars, lock, installed>>
      BY <1>3, ElsewhereFrame
    <2>2. ReachesServer'
      BY <2>1 DEF PushInv, ReachesServer, jobVars
    <2>3. ASSUME NEW v \in Workers, pc[v] = "move"
          PROVE  tmp'[at[v]][seen[v].addr] \in {cfg[v], NoConfig}
      <3>1. at[v] \in Nodes /\ seen[v].addr \in Addrs
        BY RowParts DEF TypeOK
      <3>2. tmp[at[v]][seen[v].addr] \in {cfg[v], NoConfig}
        BY <2>3 DEF PushInv, TmpIsOwn
      <3>3. ASSUME NEW n \in Nodes, NEW a \in Addrs, HostChanged(n, a)
            PROVE  tmp'[at[v]][seen[v].addr] \in {tmp[at[v]][seen[v].addr], NoConfig}
        <4>1. tmp' = tmp \/ tmp' = [tmp EXCEPT ![n][a] = NoConfig]
          BY <3>3 DEF HostChanged
        <4>2. tmp \in [Nodes -> [Addrs -> Content]]
          BY DEF TypeOK
        <4> QED
          BY <3>1, <4>1, <4>2, FileRead
      <3>4. UNCHANGED tmp \/ \E n \in Nodes, a \in Addrs : HostChanged(n, a)
        BY <1>3 DEF Elsewhere, EditSilently, ToggleActive, CheckStep,
           CheckTick, CheckEnd, CheckFind, CheckBuild, CheckReadFails,
           CheckReadOk, CheckMark, CheckConfirm, chkFrame, hostVars, vars
      <3> QED
        BY <3>2, <3>3, <3>4
    <2>4. TmpIsOwn'
      BY <2>1, <2>3 DEF TmpIsOwn, jobVars
    <2> QED
      BY <2>2, <2>4 DEF PushInv
  <1> QED
    BY <1>1, <1>2, <1>3, NextCases

(* What a push is about to move into place is its own configuration, or    *)
(* nothing (UploadContent under nodeLocks).                                *)
THEOREM OwnTmp == Spec => []TmpIsOwn
  <1>1. Init => TypeOK /\ LockDiscipline /\ PushInv
    BY InitType, LockInit, PushInit
  <1>2. TypeOK /\ LockDiscipline /\ PushInv /\ [Next]_vars
          => (TypeOK /\ LockDiscipline /\ PushInv)'
    BY TypeStep, LockStep, PushInvStep
  <1>3. PushInv => TmpIsOwn
    BY DEF PushInv
  <1> QED
    BY <1>1, <1>2, <1>3, PTL DEF Spec

-----------------------------------------------------------------------------
(* What the table records has been delivered.                              *)

HonestInv == /\ DiskInstalled /\ StaleRowsHonest /\ CheckHonest
             /\ SyncedIsWatched /\ HashWasDelivered

LEMMA HonestInit == Init => HonestInv
  BY DEF Init, HonestInv, DiskInstalled, StaleRowsHonest, CheckHonest,
         SyncedIsWatched, HashWasDelivered, FirstRow, IdleCheck

(* What was delivered stays delivered.                                     *)
LEMMA DeliveredStays ==
  ASSUME TypeOK, [Next]_vars, NEW n \in Nodes, NEW c, Delivered(n, c)
  PROVE  Delivered(n, c)'
  BY InstalledGrows DEF Delivered

(* A row is honest: synced implies a hash, and the hash was delivered.     *)
Honest(i, n, r) ==
    /\ r.status = "synced" => r.hash # NoConfig
    /\ r.hash # NoConfig => \E a \in Addrs : r.hash \in i[n][a]

LEMMA TableHonest ==
  HonestInv => \A n \in Nodes : Honest(installed, n, row[n])
  BY DEF HonestInv, SyncedIsWatched, HashWasDelivered, Honest, Delivered

LEMMA HonestStays ==
  ASSUME TypeOK, [Next]_vars, NEW n \in Nodes, NEW r,
         Honest(installed, n, r)
  PROVE  Honest(installed', n, r)
  BY InstalledGrows DEF Honest

LEMMA DiskStep ==
  ASSUME TypeOK, DiskInstalled, [Next]_vars
  PROVE  DiskInstalled'
  <1> SUFFICES ASSUME NEW n \in Nodes, NEW a \in Addrs
               PROVE  disk'[n][a] \in installed'[n][a] \cup {NoConfig, Foreign}
    BY DEF DiskInstalled
  <1>1. disk[n][a] \in installed'[n][a] \cup {NoConfig, Foreign}
    BY InstalledGrows DEF DiskInstalled
  <1>2. ASSUME NEW w \in Workers, UploadMove(w)
        PROVE  disk'[n][a] \in installed'[n][a] \cup {NoConfig, Foreign}
    <2> DEFINE m == at[w]
               b == seen[w].addr
    <2>1. m \in Nodes /\ b \in Addrs
      BY RowParts DEF TypeOK
    <2>2. \/ disk' = disk
          \/ /\ disk' = [disk EXCEPT ![m][b] = tmp[m][b]]
             /\ installed' = [installed EXCEPT ![m][b] =
                                installed[m][b] \cup {tmp[m][b]}]
      BY <1>2 DEF UploadMove
    <2>3. CASE disk' = disk
      BY <1>1, <2>3
    <2>4. CASE /\ disk' = [disk EXCEPT ![m][b] = tmp[m][b]]
               /\ installed' = [installed EXCEPT ![m][b] =
                                  installed[m][b] \cup {tmp[m][b]}]
      <3>1. CASE n = m /\ a = b
        BY <2>1, <2>4, <3>1 DEF TypeOK
      <3>2. CASE ~(n = m /\ a = b)
        <4>1. disk'[n][a] = disk[n][a]
          BY <2>1, <2>4, <3>2 DEF TypeOK
        <4> QED
          BY <1>1, <4>1
      <3> QED
        BY <3>1, <3>2
    <2> QED
      BY <2>2, <2>3, <2>4
  <1>3. ASSUME NEW m \in Nodes, NEW b \in Addrs, HostChanged(m, b)
        PROVE  disk'[n][a] \in {disk[n][a], NoConfig, Foreign}
    <2>1. \/ disk' = [disk EXCEPT ![m][b] = Foreign]
          \/ disk' = [disk EXCEPT ![m][b] = NoConfig]
      BY <1>3 DEF HostChanged
    <2>2. disk \in [Nodes -> [Addrs -> Content]]
      BY DEF TypeOK
    <2>3. ASSUME NEW c, disk' = [disk EXCEPT ![m][b] = c]
          PROVE  disk'[n][a] \in {disk[n][a], c}
      BY <2>2, <2>3, FileRead
    <2> QED
      BY <2>1, <2>3
  <1>4. ASSUME NEW w \in Workers, UploadTmp(w)
        PROVE  UNCHANGED disk
    BY <1>4 DEF UploadTmp
  <1>5. CASE Crash
    BY <1>1, <1>5 DEF Crash, hostVars
  <1>6. Elsewhere => \/ UNCHANGED disk
                     \/ \E m \in Nodes, b \in Addrs : HostChanged(m, b)
    BY CheckFrame DEF Elsewhere, EditSilently, ToggleActive, chkFrame, hostVars, vars
  <1> QED
    BY <1>1, <1>2, <1>3, <1>4, <1>5, <1>6, NextCases, HostFrame

(* Every row that changes becomes an honest one.                           *)
LEMMA RowStep ==
  ASSUME TypeOK, PushInv, HonestInv, [Next]_vars, NEW n \in Nodes
  PROVE  Honest(installed, n, row'[n])
  <1> DEFINE Demoted(r) == r.status # "synced" /\ r.hash = row[n].hash
  <1> USE DEF TypeOK
  <1>0. Honest(installed, n, row[n]) /\ row[n] \in Row
    BY TableHonest
  <1>1. ASSUME NEW r, Demoted(r)
        PROVE  Honest(installed, n, r)
    BY <1>0, <1>1 DEF Honest
  <1>2. ASSUME NEW w \in Workers, SyncStart(w) \/ SyncStep(w)
        PROVE  Honest(installed, n, row'[n])
    <2>1. CASE SyncRecord(w)
      <3>1. /\ cfg[w] \in Config
            /\ cfg[w] \in installed[at[w]][seen[w].addr]
        BY <2>1 DEF SyncRecord, PushInv, ReachesServer
      <3>2. seen[w].addr \in Addrs /\ at[w] \in Nodes
        BY RowParts
      <3>3. CASE n = at[w]
        <4>1. row'[n].status = "synced" /\ row'[n].hash = cfg[w]
          BY <1>0, <2>1, <3>3 DEF SyncRecord, UpdateLastSync, Row
        <4> QED
          BY <3>1, <3>2, <3>3, <4>1, ConfigSyncAssumption DEF Honest, Delivered
      <3>4. CASE n # at[w]
        BY <1>0, <2>1, <3>4 DEF SyncRecord, UpdateLastSync
      <3> QED
        BY <3>3, <3>4
    <2>2. CASE FailNode(w)
      <3>1. row'[n] = row[n] \/ Demoted(row'[n])
        BY <1>0, <2>2 DEF FailNode, UpdateStatus, Row
      <3> QED
        BY <1>0, <1>1, <3>1
    <2>3. SyncRecord(w) \/ FailNode(w) \/ UNCHANGED row
      BY <1>2 DEF SyncStep, SyncStart, SyncLock, SyncFind, SyncBuild, UploadTmp,
         UploadMove, ReloadXray, SyncReport, rowVars
    <2> QED
      BY <1>0, <2>1, <2>2, <2>3
  <1>3. ASSUME NEW w \in Workers, EditStep(w)
        PROVE  Honest(installed, n, row'[n])
    <2>0. pc[w] \in {"save", "swap"} => Honest(installed, at[w], seen[w]) /\ seen[w] \in Row
      BY DEF HonestInv, StaleRowsHonest, Honest, Delivered
    <2>1. CASE Mark(w)
      <3>1. row'[n] = row[n] \/ row'[n] = [row[n] EXCEPT !.status = "drifted"]
        BY <2>1 DEF Mark, MarkAllDrifted
      <3>2. Demoted([row[n] EXCEPT !.status = "drifted"])
        BY <1>0 DEF Row
      <3> QED
        BY <1>0, <1>1, <3>1, <3>2
    <2>2. CASE UpdateSave(w)
      <3>1. row'[n] = row[n] \/ (n = at[w] /\ row'[n] = seen[w])
        BY <2>2 DEF UpdateSave
      <3> QED
        BY <1>0, <2>0, <2>2, <3>1 DEF UpdateSave
    <2>3. CASE UpdateSaveAddr(w)
      <3>1. PICK a \in Addrs :
              row' = [row EXCEPT ![at[w]] =
                        [seen[w] EXCEPT !.status = "drifted", !.addr = a]]
        BY <2>3 DEF UpdateSaveAddr
      <3>2. Honest(installed, at[w], seen[w]) /\ seen[w] \in Row
        BY <2>0, <2>3 DEF UpdateSaveAddr
      <3>3. Honest(installed, at[w], [seen[w] EXCEPT !.status = "drifted", !.addr = a])
        BY <3>2 DEF Honest, Row
      <3> QED
        BY <1>0, <3>1, <3>3
    <2>4. CASE ReplaceSave(w)
      <3>1. PICK a \in Addrs :
              row' = [row EXCEPT ![at[w]] =
                        [seen[w] EXCEPT !.status = "pending",
                                        !.hash = NoConfig, !.addr = a]]
        BY <2>4 DEF ReplaceSave
      <3>2. Honest(installed, at[w], [seen[w] EXCEPT !.status = "pending",
                                          !.hash = NoConfig, !.addr = a])
        BY DEF Honest, Row
      <3> QED
        BY <1>0, <3>1, <3>2
    <2>5. Mark(w) \/ UpdateSave(w) \/ UpdateSaveAddr(w) \/ ReplaceSave(w)
          \/ UNCHANGED row
      BY <1>3 DEF EditStep, EditShared, EditGroup, UpdateFind, ReplaceFind, rowVars
    <2> QED
      BY <1>0, <2>1, <2>2, <2>3, <2>4, <2>5
  <1>4. CASE CheckMark
    <2>1. row'[n] = row[n] \/ Demoted(row'[n])
      BY <1>0, <1>4 DEF CheckMark, UpdateStatus, Row
    <2> QED
      BY <1>0, <1>1, <2>1
  <1>5. CASE CheckConfirm
    <2>1. chk.cfg \in Config /\ Delivered(chk.at, chk.cfg)
      BY <1>5 DEF CheckConfirm, HonestInv, CheckHonest
    <2>2. \/ row'[n] = row[n]
          \/ n = chk.at /\ row'[n].hash = chk.cfg
      BY <1>0, <1>5 DEF CheckConfirm, UpdateLastSync, Row
    <2> QED
      BY <1>0, <2>1, <2>2, ConfigSyncAssumption DEF Honest, Delivered
  <1>6. ASSUME NEW m \in Nodes, ToggleActive(m)
        PROVE  Honest(installed, n, row'[n])
    <2>1. row'[n] = row[n] \/ row'[n] = [row[n] EXCEPT !.active = ~@]
      BY <1>6 DEF ToggleActive
    <2>2. Honest(installed, n, [row[n] EXCEPT !.active = ~@])
      BY <1>0 DEF Honest, Row
    <2> QED
      BY <1>0, <2>1, <2>2
  <1>7. Crash \/ Elsewhere => \/ CheckMark \/ CheckConfirm \/ UNCHANGED row
                             \/ \E m \in Nodes : ToggleActive(m)
    BY DEF Crash, Elsewhere, EditSilently, HostChanged, CheckStep, CheckTick,
       CheckEnd, CheckFind, CheckBuild, CheckReadFails, CheckReadOk, rowVars,
       vars
  <1> QED
    BY <1>0, <1>2, <1>3, <1>4, <1>5, <1>6, <1>7, NextCases

(* Rows kept for a later full-row save are honest when they are read.      *)
LEMMA StaleStep ==
  ASSUME TypeOK, HonestInv, [Next]_vars
  PROVE  StaleRowsHonest'
  <1> SUFFICES ASSUME NEW v \in Workers, pc'[v] \in {"save", "swap"}
               PROVE  Honest(installed', at'[v], seen'[v])
    BY DEF StaleRowsHonest, Honest, Delivered
  <1> USE DEF TypeOK
  <1>1. CASE /\ pc[v] \in {"save", "swap"}
             /\ at'[v] = at[v] /\ seen'[v] = seen[v]
    <2>1. Honest(installed, at[v], seen[v])
      BY <1>1 DEF HonestInv, StaleRowsHonest, Honest, Delivered
    <2>2. at[v] \in Nodes
      OBVIOUS
    <2> QED
      BY <1>1, <2>1, <2>2, HonestStays
  <1>2. ASSUME NEW n \in Nodes, UpdateFind(v, n) \/ ReplaceFind(v, n)
        PROVE  Honest(installed', at'[v], seen'[v])
    <2>1. at'[v] = n /\ seen'[v] = row[n]
      BY <1>2 DEF UpdateFind, ReplaceFind
    <2>2. Honest(installed, n, row[n])
      BY TableHonest
    <2> QED
      BY <2>1, <2>2, HonestStays
  <1>3. ASSUME NEW w \in Workers, SyncStart(w) \/ SyncStep(w) \/ EditStep(w), v # w
        PROVE  pc'[v] = pc[v] /\ at'[v] = at[v] /\ seen'[v] = seen[v]
    BY <1>3, OwnStep
  <1>4. ASSUME SyncStart(v) \/ SyncStep(v)
        PROVE  FALSE
    <2> USE DEF Goto, Finish
    <2>1. CASE SyncStart(v) \/ \E n \in Nodes : SyncLock(v, n)
      BY <2>1 DEF SyncStart, SyncLock
    <2>2. CASE SyncFind(v) \/ SyncBuild(v) \/ UploadTmp(v) \/ UploadMove(v)
      BY <2>2 DEF SyncFind, SyncBuild, UploadTmp, UploadMove
    <2>3. CASE ReloadXray(v) \/ SyncRecord(v) \/ FailNode(v) \/ SyncReport(v)
      BY <2>3 DEF ReloadXray, SyncRecord, FailNode, SyncReport
    <2> QED
      BY <1>4, <2>1, <2>2, <2>3 DEF SyncStep
  <1>5. ASSUME EditStep(v)
        PROVE  \E n \in Nodes : UpdateFind(v, n) \/ ReplaceFind(v, n)
    <2> USE DEF Goto, Finish
    <2>1. CASE EditShared(v) \/ EditGroup(v) \/ Mark(v)
      BY <2>1 DEF EditShared, EditGroup, Mark
    <2>2. CASE UpdateSave(v) \/ UpdateSaveAddr(v) \/ ReplaceSave(v)
      BY <2>2 DEF UpdateSave, UpdateSaveAddr, ReplaceSave
    <2> QED
      BY <1>5, <2>1, <2>2 DEF EditStep
  <1>6. CASE Crash
    BY <1>6 DEF Crash
  <1>7. CASE Elsewhere
    BY <1>1, <1>7, ElsewhereFrame DEF jobVars
  <1> QED
    BY <1>1, <1>2, <1>3, <1>4, <1>5, <1>6, <1>7, NextCases

(* What the drift loop is about to confirm, it has read on the server.     *)
LEMMA CheckHonestStep ==
  ASSUME TypeOK, HonestInv, [Next]_vars
  PROVE  CheckHonest'
  <1> USE DEF TypeOK
  <1>0. CheckHonest /\ DiskInstalled
    BY DEF HonestInv
  <1>1. chk.at \in Nodes /\ chk.seen.addr \in Addrs /\ chk.cfg \in Hash
        /\ src[chk.at] \in Hash
    BY RowParts
  <1>2. CASE UNCHANGED chk
    BY <1>0, <1>1, <1>2, DeliveredStays DEF CheckHonest
  <1>3. ASSUME chk'.pc \notin {"read", "confirm"}
        PROVE  CheckHonest'
    BY <1>3 DEF CheckHonest
  <1>4. CASE CheckBuild
    <2>1. CASE chk'.pc = "read"
      <3>1. src[chk.at] # NoConfig /\ chk' = [chk EXCEPT !.pc = "read",
                                                        !.cfg = src[chk.at]]
        BY <1>4, <2>1 DEF CheckBuild, NextNode, IdleCheck, Then
      <3> QED
        BY <1>1, <3>1 DEF CheckHonest, Hash
    <2>2. chk'.pc # "confirm"
      BY <1>4 DEF CheckBuild, NextNode, IdleCheck, Then
    <2> QED
      BY <1>3, <2>1, <2>2
  <1>5. CASE CheckReadOk
    <2>1. CASE chk'.pc = "confirm"
      <3>1. /\ disk[chk.at][chk.seen.addr] = chk.cfg
            /\ chk'.at = chk.at /\ chk'.cfg = chk.cfg
            /\ chk.pc = "read"
        BY <1>5, <2>1 DEF CheckReadOk, NextNode, IdleCheck, Then
      <3>2. chk.cfg \in Config
        BY <1>0, <3>1 DEF CheckHonest
      <3>3. chk.cfg \in installed[chk.at][chk.seen.addr]
        BY <1>0, <1>1, <3>1, <3>2, ConfigSyncAssumption, ZenonT(40) DEF DiskInstalled
      <3>4. Delivered(chk.at, chk.cfg)
        BY <1>1, <3>3 DEF Delivered
      <3>5. Delivered(chk.at, chk.cfg)'
        BY <1>1, <3>1, <3>4, DeliveredStays
      <3> QED
        BY <3>1, <3>2, <3>5 DEF CheckHonest, Delivered
    <2>2. chk'.pc # "read"
      BY <1>5 DEF CheckReadOk, NextNode, IdleCheck, Then
    <2> QED
      BY <1>3, <2>1, <2>2
  <1>6. ASSUME \/ CheckTick \/ CheckEnd \/ CheckReadFails \/ CheckMark
               \/ CheckConfirm \/ Crash
        PROVE  chk'.pc \notin {"read", "confirm"}
    <2>1. CASE CheckTick
      BY <2>1 DEF CheckTick
    <2>2. CASE CheckEnd \/ Crash
      BY <2>2 DEF CheckEnd, Crash, IdleCheck
    <2>3. CASE CheckReadFails \/ CheckMark \/ CheckConfirm
      BY <2>3 DEF CheckReadFails, CheckMark, CheckConfirm, NextNode, IdleCheck
    <2> QED
      BY <1>6, <2>1, <2>2, <2>3
  <1>7. ASSUME NEW n \in Nodes, CheckFind(n)
        PROVE  chk'.pc \notin {"read", "confirm"}
    BY <1>7 DEF CheckFind
  <1>8. ASSUME NEW w \in Workers, SyncStart(w) \/ SyncStep(w) \/ EditStep(w)
        PROVE  UNCHANGED chk
    <2>1. SyncStart(w) \/ SyncStep(w) => UNCHANGED chk
      BY DEF SyncStart, SyncStep, SyncLock, SyncFind, SyncBuild, UploadTmp,
         UploadMove, ReloadXray, SyncRecord, FailNode, SyncReport
    <2>2. EditShared(w) \/ EditGroup(w) \/ Mark(w) => UNCHANGED chk
      BY DEF EditShared, EditGroup, Mark
    <2>3. (\E n \in Nodes : UpdateFind(w, n) \/ ReplaceFind(w, n)) => UNCHANGED chk
      BY DEF UpdateFind, ReplaceFind
    <2>4. UpdateSave(w) \/ UpdateSaveAddr(w) => UNCHANGED chk
      BY DEF UpdateSave, UpdateSaveAddr
    <2>5. ReplaceSave(w) => UNCHANGED chk
      BY DEF ReplaceSave
    <2> QED
      BY <1>8, <2>1, <2>2, <2>3, <2>4, <2>5 DEF EditStep
  <1>9. Elsewhere => CheckStep \/ UNCHANGED chk
    BY DEF Elsewhere, EditSilently, ToggleActive, HostChanged, vars
  <1> QED
    BY <1>2, <1>3, <1>4, <1>5, <1>6, <1>7, <1>8, <1>9, NextCases DEF CheckStep

LEMMA HonestStep ==
  ASSUME TypeOK, PushInv, HonestInv, [Next]_vars
  PROVE  HonestInv'
  <1>1. DiskInstalled' /\ StaleRowsHonest' /\ CheckHonest'
    BY DiskStep, StaleStep, CheckHonestStep DEF HonestInv
  <1>2. ASSUME NEW n \in Nodes
        PROVE  Honest(installed', n, row'[n])
    BY RowStep, HonestStays
  <1>3. SyncedIsWatched' /\ HashWasDelivered'
    BY <1>2 DEF SyncedIsWatched, HashWasDelivered, Honest, Delivered
  <1> QED
    BY <1>1, <1>3 DEF HonestInv

(* The inductive invariant, and what an operator may conclude from it.     *)
THEOREM SyncInvHolds == Spec => []SyncInv
  <1>1. SyncInv <=> TypeOK /\ LockDiscipline /\ PushInv /\ HonestInv
    BY DEF SyncInv, PushInv, HonestInv
  <1>2. Init => SyncInv
    BY <1>1, InitType, LockInit, PushInit, HonestInit
  <1>3. SyncInv /\ [Next]_vars => SyncInv'
    <2> SUFFICES ASSUME SyncInv, [Next]_vars PROVE SyncInv'
      OBVIOUS
    <2>1. TypeOK' /\ LockDiscipline' /\ PushInv' /\ HonestInv'
      BY <1>1, TypeStep, LockStep, PushInvStep, HonestStep
    <2> QED
      BY <2>1 DEF SyncInv, PushInv, HonestInv
  <1> QED
    BY <1>2, <1>3, PTL DEF Spec

(* A node shown as synced has a hash, so CheckDriftAll never skips it.     *)
THEOREM SyncedNodesAreWatched == Spec => []SyncedIsWatched
  <1>1. SyncInv => SyncedIsWatched
    BY DEF SyncInv
  <1> QED
    BY <1>1, SyncInvHolds, PTL

(* A recorded hash is that of a configuration that was once delivered to a *)
(* server of the node.                                                     *)
THEOREM HashesWereDelivered == Spec => []HashWasDelivered
  <1>1. SyncInv => HashWasDelivered
    BY DEF SyncInv
  <1> QED
    BY <1>1, SyncInvHolds, PTL


-----------------------------------------------------------------------------
(* Only a hand edit puts foreign content in place.                         *)

Tampered == used["tamper"] > 0

(* A step that is bounded is counted, and no other step counts.            *)
LEMMA CountStep ==
  ASSUME [Next]_vars
  PROVE  used' = used \/ \E k \in Kinds : Spend(k)
  <1>1. ASSUME NEW w \in Workers, SyncStart(w) \/ SyncStep(w)
        PROVE  used' = used
    BY <1>1 DEF SyncStart, SyncStep, SyncLock, SyncFind, SyncBuild,
       UploadTmp, UploadMove, ReloadXray, SyncRecord, FailNode, SyncReport
  <1>2. ASSUME NEW w \in Workers, EditStep(w)
        PROVE  used' = used \/ Spend("edit") \/ Spend("save") \/ Spend("move")
    <2>1. EditShared(w) \/ EditGroup(w) => Spend("edit")
      BY DEF EditShared, EditGroup
    <2>2. (\E n \in Nodes : UpdateFind(w, n)) => Spend("save")
      BY DEF UpdateFind
    <2>3. (\E n \in Nodes : ReplaceFind(w, n)) => Spend("move")
      BY DEF ReplaceFind
    <2>4. UpdateSaveAddr(w) => Spend("move")
      BY DEF UpdateSaveAddr
    <2>5. Mark(w) \/ UpdateSave(w) => used' = used
      BY DEF Mark, UpdateSave
    <2>6. ReplaceSave(w) => used' = used
      BY DEF ReplaceSave
    <2> QED
      BY <1>2, <2>1, <2>2, <2>3, <2>4, <2>5, <2>6 DEF EditStep
  <1>3. Crash => Spend("crash")
    BY DEF Crash
  <1>4. Elsewhere => \/ used' = used
                     \/ Spend("edit") \/ Spend("toggle") \/ Spend("tamper")
    <2>1. EditSilently => Spend("edit")
      BY DEF EditSilently
    <2>2. (\E n \in Nodes : ToggleActive(n)) => Spend("toggle")
      BY DEF ToggleActive
    <2>3. (\E n \in Nodes, a \in Addrs : HostChanged(n, a)) => Spend("tamper")
      BY DEF HostChanged
    <2>4. CheckStep \/ UNCHANGED vars => used' = used
      BY CheckFrame DEF chkFrame, vars
    <2> QED
      BY <2>1, <2>2, <2>3, <2>4 DEF Elsewhere
  <1> QED
    BY <1>1, <1>2, <1>3, <1>4, NextCases DEF Kinds

(* A hand edit of a server is never forgotten.                             *)
LEMMA TamperStays ==
  ASSUME TypeOK, [Next]_vars, Tampered
  PROVE  Tampered'
  <1>1. \A k \in Kinds : Spend(k) => Tampered'
    BY DEF Spend, TypeOK, Kinds, Tampered
  <1> QED
    BY <1>1, CountStep DEF Tampered

LEMMA WholeStep ==
  ASSUME TypeOK, PushInv, NeverHalfWritten, [Next]_vars
  PROVE  NeverHalfWritten'
  <1> SUFFICES ASSUME NEW n \in Nodes, NEW a \in Addrs, disk'[n][a] = Foreign
               PROVE  Tampered'
    BY DEF NeverHalfWritten, Tampered
  <1>1. CASE disk'[n][a] = disk[n][a]
    BY <1>1, TamperStays DEF NeverHalfWritten, Tampered
  <1>2. ASSUME NEW w \in Workers, UploadMove(w)
        PROVE  disk'[n][a] = disk[n][a]
    <2> DEFINE m == at[w]
               b == seen[w].addr
    <2>1. /\ m \in Nodes /\ b \in Addrs
          /\ disk \in [Nodes -> [Addrs -> Content]]
      BY RowParts DEF TypeOK
    <2>2. tmp[m][b] \in {cfg[w], NoConfig} /\ cfg[w] \in Config
      BY <1>2 DEF UploadMove, PushInv, TmpIsOwn, ReachesServer
    <2>3. tmp[m][b] # Foreign
      BY <2>2, ConfigSyncAssumption
    <2>4. disk' = disk \/ disk' = [disk EXCEPT ![m][b] = tmp[m][b]]
      BY <1>2 DEF UploadMove
    <2>5. disk'[n][a] \in {disk[n][a], tmp[m][b]}
      BY <2>1, <2>4, FileRead
    <2> QED
      BY <2>3, <2>5
  <1>3. ASSUME NEW m \in Nodes, NEW b \in Addrs, HostChanged(m, b)
        PROVE  Tampered'
    BY <1>3 DEF HostChanged, Spend, TypeOK, Kinds, Tampered
  <1>4. ASSUME NEW w \in Workers, UploadTmp(w)
        PROVE  disk' = disk
    BY <1>4 DEF UploadTmp
  <1>5. CASE Crash
    BY <1>1, <1>5 DEF Crash, hostVars
  <1>6. Elsewhere => \/ disk' = disk
                     \/ \E m \in Nodes, b \in Addrs : HostChanged(m, b)
    BY CheckFrame DEF Elsewhere, EditSilently, ToggleActive, chkFrame, hostVars, vars
  <1> QED
    BY <1>1, <1>2, <1>3, <1>4, <1>5, <1>6, NextCases, HostFrame

(* UploadContent, under nodeLocks: a server nobody edits by hand only ever *)
(* has a whole generated configuration, wherever a push or the panel dies. *)
THEOREM FilesAreWhole == Spec => []NeverHalfWritten
  <1>1. Init => NeverHalfWritten
    BY ConfigSyncAssumption DEF Init, NeverHalfWritten
  <1>2. SyncInv => TypeOK /\ PushInv
    BY DEF SyncInv, PushInv
  <1>3. SyncInv /\ NeverHalfWritten /\ [Next]_vars => NeverHalfWritten'
    BY <1>2, WholeStep
  <1> QED
    BY <1>1, <1>3, SyncInvHolds, PTL DEF Spec

-----------------------------------------------------------------------------
(* The alert follows the results.                                          *)

Reporting == {"reportOk", "reportFail"}
Unbroken  == used["crash"] = 0

(* A push that recorded its result is about to report that result, and     *)
(* where no push is, the alert already has it.                             *)
ReportsAreTrue ==
    \A w \in Workers :
        pc[w] \in Reporting => (pc[w] = "reportFail" <=> lastResult[at[w]] = "fail")
AlertsAreTrue ==
    \A n \in Nodes :
        \/ alert[n] <=> lastResult[n] = "fail"
        \/ \E w \in Workers : pc[w] \in Reporting /\ at[w] = n
AlertInv == Unbroken => ReportsAreTrue /\ AlertsAreTrue

(* Apart from the three steps at the end of a push, a worker's step leaves *)
(* the results, the alerts and who is about to report.                     *)
LEMMA QuietSteps ==
  ASSUME TypeOK, NEW w \in Workers, SyncStart(w) \/ SyncStep(w) \/ EditStep(w)
  PROVE  \/ SyncRecord(w) \/ FailNode(w) \/ SyncReport(w)
         \/ /\ UNCHANGED <<alert, lastResult>>
            /\ pc[w] \notin Reporting /\ pc'[w] \notin Reporting
  <1> USE DEF Goto, Finish, TypeOK, Reporting, histVars
  <1>1. CASE SyncStart(w) \/ \E n \in Nodes : SyncLock(w, n)
    BY <1>1 DEF SyncStart, SyncLock
  <1>2. CASE SyncFind(w) \/ SyncBuild(w) \/ UploadTmp(w)
    BY <1>2 DEF SyncFind, SyncBuild, UploadTmp
  <1>3. CASE UploadMove(w) \/ ReloadXray(w)
    BY <1>3 DEF UploadMove, ReloadXray
  <1>4. CASE EditShared(w) \/ EditGroup(w) \/ Mark(w)
    BY <1>4 DEF EditShared, EditGroup, Mark
  <1>5. CASE \E n \in Nodes : UpdateFind(w, n) \/ ReplaceFind(w, n)
    BY <1>5 DEF UpdateFind, ReplaceFind
  <1>6. CASE UpdateSave(w)
    BY <1>6 DEF UpdateSave
  <1>7. CASE UpdateSaveAddr(w)
    BY <1>7 DEF UpdateSaveAddr
  <1>8. CASE ReplaceSave(w)
    BY <1>8 DEF ReplaceSave
  <1> QED
    BY <1>1, <1>2, <1>3, <1>4, <1>5, <1>6, <1>7, <1>8 DEF SyncStep, EditStep

LEMMA UnbrokenBefore ==
  ASSUME TypeOK, [Next]_vars, Unbroken'
  PROVE  Unbroken
  <1>1. \A k \in Kinds : Spend(k) => Unbroken
    BY DEF Spend, TypeOK, Kinds, Unbroken
  <1> QED
    BY <1>1, CountStep DEF Unbroken

(* A result is recorded: nobody else is about to report for that node.     *)
LEMMA ResultStep ==
  ASSUME TypeOK, LockDiscipline, ReportsAreTrue, AlertsAreTrue,
         NEW w \in Workers, SyncRecord(w) \/ FailNode(w)
  PROVE  ReportsAreTrue' /\ AlertsAreTrue'
  <1> DEFINE n == at[w]
  <1>1. /\ n \in Nodes /\ at' = at /\ alert' = alert
        /\ pc[w] \in Pushing
        /\ \/ /\ lastResult' = [lastResult EXCEPT ![n] = "ok"]
              /\ pc' = [pc EXCEPT ![w] = "reportOk"]
           \/ /\ lastResult' = [lastResult EXCEPT ![n] = "fail"]
              /\ pc' = [pc EXCEPT ![w] = "reportFail"]
    BY DEF SyncRecord, FailNode, Goto, Pushing, TypeOK
  <1>2. /\ pc'[w] \in Reporting
        /\ pc'[w] = "reportFail" <=> lastResult'[n] = "fail"
        /\ \A m \in Nodes : m # n => lastResult'[m] = lastResult[m]
        /\ \A v \in Workers : v # w => pc'[v] = pc[v]
    BY <1>1 DEF TypeOK, Reporting
  <1>3. ASSUME NEW v \in Workers, v # w, pc[v] \in Reporting
        PROVE  at[v] # n
    <2>1. pc[v] \in Pushing
      BY <1>3 DEF Reporting, Pushing
    <2> QED
      BY <1>1, <1>3, <2>1 DEF LockDiscipline, Holds
  <1>4. ReportsAreTrue'
    <2> SUFFICES ASSUME NEW v \in Workers, pc'[v] \in Reporting
                 PROVE  pc'[v] = "reportFail" <=> lastResult'[at'[v]] = "fail"
      BY DEF ReportsAreTrue
    <2>1. CASE v = w
      BY <1>1, <1>2, <2>1
    <2>2. CASE v # w
      <3>1. pc'[v] = pc[v] /\ at[v] # n /\ at[v] \in Nodes
        BY <1>2, <1>3, <2>2 DEF TypeOK
      <3> QED
        BY <1>1, <1>2, <3>1 DEF ReportsAreTrue
    <2> QED
      BY <2>1, <2>2
  <1>5. AlertsAreTrue'
    <2> SUFFICES ASSUME NEW m \in Nodes
                 PROVE  \/ alert'[m] <=> lastResult'[m] = "fail"
                        \/ \E v \in Workers : pc'[v] \in Reporting /\ at'[v] = m
      BY DEF AlertsAreTrue
    <2>1. CASE m = n
      BY <1>1, <1>2, <2>1
    <2>2. CASE m # n
      <3>1. \/ alert[m] <=> lastResult[m] = "fail"
            \/ \E v \in Workers : pc[v] \in Reporting /\ at[v] = m
        BY DEF AlertsAreTrue
      <3> QED
        BY <1>1, <1>2, <2>2, <3>1
    <2> QED
      BY <2>1, <2>2
  <1> QED
    BY <1>4, <1>5

LEMMA ReportStep ==
  ASSUME TypeOK, ReportsAreTrue, AlertsAreTrue, NEW w \in Workers, SyncReport(w)
  PROVE  ReportsAreTrue' /\ AlertsAreTrue'
  <1> DEFINE n == at[w]
  <1>1. /\ n \in Nodes /\ pc[w] \in Reporting
        /\ alert' = [alert EXCEPT ![n] = (pc[w] = "reportFail")]
        /\ lastResult' = lastResult
        /\ pc'[w] \notin Reporting
    BY DEF SyncReport, Goto, Finish, Reporting, histVars, TypeOK
  <1>2. \A v \in Workers : v # w => pc'[v] = pc[v] /\ at'[v] = at[v]
    BY OwnStep DEF SyncStep
  <1>3. ReportsAreTrue'
    BY <1>1, <1>2 DEF ReportsAreTrue
  <1>4. AlertsAreTrue'
    <2> SUFFICES ASSUME NEW m \in Nodes
                 PROVE  \/ alert'[m] <=> lastResult'[m] = "fail"
                        \/ \E v \in Workers : pc'[v] \in Reporting /\ at'[v] = m
      BY DEF AlertsAreTrue
    <2>1. CASE m = n
      <3>1. alert'[n] <=> pc[w] = "reportFail"
        BY <1>1 DEF TypeOK
      <3> QED
        BY <1>1, <2>1, <3>1 DEF ReportsAreTrue
    <2>2. CASE m # n
      <3>1. \/ alert[m] <=> lastResult[m] = "fail"
            \/ \E v \in Workers : pc[v] \in Reporting /\ at[v] = m
        BY DEF AlertsAreTrue
      <3>2. alert'[m] = alert[m]
        BY <1>1, <2>2 DEF TypeOK
      <3> QED
        BY <1>1, <1>2, <2>2, <3>1, <3>2
    <2> QED
      BY <2>1, <2>2
  <1> QED
    BY <1>3, <1>4

LEMMA AlertStep ==
  ASSUME TypeOK, LockDiscipline, AlertInv, [Next]_vars
  PROVE  AlertInv'
  <1> SUFFICES ASSUME Unbroken' PROVE ReportsAreTrue' /\ AlertsAreTrue'
    BY DEF AlertInv
  <1>1. ReportsAreTrue /\ AlertsAreTrue
    BY UnbrokenBefore DEF AlertInv
  <1>2. ASSUME NEW w \in Workers, SyncStart(w) \/ SyncStep(w) \/ EditStep(w)
        PROVE  ReportsAreTrue' /\ AlertsAreTrue'
    <2>1. CASE SyncRecord(w) \/ FailNode(w)
      BY <1>1, <2>1, ResultStep
    <2>2. CASE SyncReport(w)
      BY <1>1, <2>2, ReportStep
    <2>3. CASE /\ UNCHANGED <<alert, lastResult>>
               /\ pc[w] \notin Reporting /\ pc'[w] \notin Reporting
      <3>1. \A v \in Workers : v # w => pc'[v] = pc[v] /\ at'[v] = at[v]
        BY <1>2, OwnStep
      <3>2. ReportsAreTrue'
        BY <1>1, <2>3, <3>1 DEF ReportsAreTrue
      <3>3. AlertsAreTrue'
        BY <1>1, <2>3, <3>1 DEF AlertsAreTrue
      <3> QED
        BY <3>2, <3>3
    <2> QED
      BY <1>2, <2>1, <2>2, <2>3, QuietSteps
  <1>3. CASE Crash
    <2>1. used["crash"] \in Nat /\ used'["crash"] = used["crash"] + 1
      BY <1>3 DEF Crash, Spend, TypeOK, Kinds
    <2> QED
      BY <2>1 DEF Unbroken
  <1>4. CASE Elsewhere
    <2>1. UNCHANGED <<alert, histVars, jobVars>>
      <3>1. EditSilently \/ (\E n \in Nodes : ToggleActive(n)) =>
                UNCHANGED <<alert, histVars, jobVars>>
        BY DEF EditSilently, ToggleActive
      <3>2. (\E n \in Nodes, a \in Addrs : HostChanged(n, a)) =>
                UNCHANGED <<alert, histVars, jobVars>>
        BY DEF HostChanged
      <3>3. CheckStep \/ UNCHANGED vars => UNCHANGED <<alert, histVars, jobVars>>
        BY CheckFrame DEF chkFrame, jobVars, histVars, vars
      <3> QED
        BY <1>4, <3>1, <3>2, <3>3 DEF Elsewhere
    <2>2. UNCHANGED <<alert, lastResult, pc, at>>
      BY <2>1 DEF histVars, jobVars
    <2> QED
      BY <1>1, <2>2 DEF ReportsAreTrue, AlertsAreTrue
  <1> QED
    BY <1>2, <1>3, <1>4, NextCases

(* sync.go, reportSyncAlert before the deferred unlock: when no push holds *)
(* a node, its alert says what the last sync said, as long as the panel    *)
(* did not die between the two writes.                                     *)
THEOREM AlertsFollowSyncs == Spec => []AlertFollowsLastSync
  <1>1. Init => AlertInv
    BY DEF Init, AlertInv, ReportsAreTrue, AlertsAreTrue, Reporting
  <1>2. SyncInv => TypeOK /\ LockDiscipline
    BY DEF SyncInv
  <1>3. SyncInv /\ AlertInv /\ [Next]_vars => AlertInv'
    BY <1>2, AlertStep
  <1>4. SyncInv /\ AlertInv => AlertFollowsLastSync
    <2> SUFFICES ASSUME TypeOK, LockDiscipline, ReportsAreTrue, AlertsAreTrue,
                        NEW n \in Nodes, lock[n] = NoWorker
                 PROVE  alert[n] <=> lastResult[n] = "fail"
      BY <1>2 DEF AlertFollowsLastSync, AlertInv, Unbroken
    <2>1. ASSUME NEW w \in Workers, pc[w] \in Reporting, at[w] = n PROVE FALSE
      BY <2>1, ConfigSyncAssumption DEF LockDiscipline, Holds, Pushing, Reporting
    <2> QED
      BY <2>1 DEF AlertsAreTrue
  <1> QED
    BY <1>1, <1>3, <1>4, SyncInvHolds, PTL DEF Spec

-----------------------------------------------------------------------------
(***************************************************************************)
(* ConfigSync implements ServerFile: whatever the interleaving, a server's *)
(* config.json is only replaced as a whole, by the configuration built in  *)
(* the one push whose turn it is.                                          *)
(***************************************************************************)

(* A worker holds no configuration before it has built one.                *)
FreshCfg == \A w \in Workers :
    pc[w] \notin {"upload", "move", "reload", "record", "fail", "reportOk",
                  "reportFail"} => cfg[w] = NoConfig

LEMMA FreshInit == Init => FreshCfg
  BY DEF Init, FreshCfg

LEMMA FreshStep ==
  ASSUME TypeOK, FreshCfg, [Next]_vars
  PROVE  FreshCfg'
  <1> SUFFICES ASSUME NEW v \in Workers,
                      pc'[v] \notin {"upload", "move", "reload", "record",
                                     "fail", "reportOk", "reportFail"}
               PROVE  cfg'[v] = NoConfig
    BY DEF FreshCfg
  <1> USE DEF TypeOK, Goto, Finish, FreshCfg, jobVars
  <1>1. ASSUME NEW w \in Workers, SyncStart(w) \/ SyncStep(w) \/ EditStep(w),
               v # w
        PROVE  cfg'[v] = NoConfig
    BY <1>1, OwnStep
  <1>2. ASSUME SyncStart(v) \/ SyncStep(v)
        PROVE  cfg'[v] = NoConfig
    <2>1. CASE SyncStart(v) \/ \E n \in Nodes : SyncLock(v, n)
      BY <2>1 DEF SyncStart, SyncLock
    <2>2. CASE SyncFind(v) \/ SyncBuild(v) \/ UploadTmp(v) \/ UploadMove(v)
      BY <2>2 DEF SyncFind, SyncBuild, UploadTmp, UploadMove
    <2>3. CASE ReloadXray(v) \/ SyncRecord(v) \/ FailNode(v)
      BY <2>3 DEF ReloadXray, SyncRecord, FailNode
    <2>4. CASE SyncReport(v)
      BY <2>4 DEF SyncReport
    <2> QED
      BY <1>2, <2>1, <2>2, <2>3, <2>4 DEF SyncStep
  <1>3. ASSUME EditStep(v)
        PROVE  cfg'[v] = NoConfig
    <2>1. CASE EditShared(v) \/ EditGroup(v) \/ Mark(v)
      BY <2>1 DEF EditShared, EditGroup, Mark
    <2>2. CASE \E n \in Nodes : UpdateFind(v, n) \/ ReplaceFind(v, n)
      BY <2>2 DEF UpdateFind, ReplaceFind
    <2>3. CASE UpdateSave(v) \/ UpdateSaveAddr(v) \/ ReplaceSave(v)
      BY <2>3 DEF UpdateSave, UpdateSaveAddr, ReplaceSave
    <2> QED
      BY <1>3, <2>1, <2>2, <2>3 DEF EditStep
  <1>4. CASE Crash
    BY <1>4 DEF Crash
  <1>5. CASE Elsewhere
    BY <1>5, ElsewhereFrame
  <1> QED
    BY <1>1, <1>2, <1>3, <1>4, <1>5, NextCases

-----------------------------------------------------------------------------
(* Steps of ConfigSync as steps of ServerFile.                             *)

LEMMA InitRefines == Init => File!FileInit
  BY DEF Init, File!FileInit, Decided, Kinds

(* Nothing ServerFile sees changes: the locks stand, and those who hold    *)
(* one keep what they have built.                                          *)
LEMMA DecidedSame ==
  ASSUME UNCHANGED lock,
         \A n \in Nodes : lock[n] # NoWorker => cfg'[lock[n]] = cfg[lock[n]]
  PROVE  UNCHANGED Decided
  BY DEF Decided

LEMMA LockStepRefines ==
  ASSUME SyncInv, FreshCfg, NEW w \in Workers, NEW n \in Nodes, SyncLock(w, n)
  PROVE  File!Begin(n, w)
  <1>1. /\ lock[n] = NoWorker /\ lock' = [lock EXCEPT ![n] = w]
        /\ UNCHANGED <<cfg, disk, used>>
    BY DEF SyncLock, hostVars
  <1>2. cfg[w] = NoConfig
    BY DEF SyncLock, FreshCfg
  <1>3. UNCHANGED Decided
    BY <1>1, <1>2 DEF Decided, SyncInv, TypeOK
  <1> QED
    BY <1>1, <1>3 DEF File!Begin

(* The lock of a pushing worker's node is its own.                         *)
LEMMA Turn ==
  ASSUME SyncInv, NEW w \in Workers, pc[w] \in Pushing
  PROVE  /\ at[w] \in Nodes /\ lock[at[w]] = w /\ w # NoWorker
         /\ Decided[at[w]] = cfg[w]
         /\ \A n \in Nodes \ {at[w]} : lock[n] # w
  BY ConfigSyncAssumption
     DEF SyncInv, TypeOK, LockDiscipline, Holds, Decided

LEMMA BuildRefines ==
  ASSUME SyncInv, FreshCfg, NEW w \in Workers, SyncBuild(w)
  PROVE  \/ \E c \in Config : File!Decide(at[w], c)
         \/ UNCHANGED <<disk, lock, Decided, used>>
  <1>1. /\ at[w] \in Nodes /\ lock[at[w]] = w /\ w # NoWorker
        /\ Decided[at[w]] = cfg[w]
        /\ \A n \in Nodes \ {at[w]} : lock[n] # w
    BY Turn DEF SyncBuild, Pushing
  <1>2. cfg[w] = NoConfig
    BY DEF SyncBuild, FreshCfg
  <1>3. /\ cfg' = [cfg EXCEPT ![w] = src[at[w]]]
        /\ UNCHANGED <<disk, lock, used>>
    BY DEF SyncBuild, hostVars
  <1>4. Decided' = [Decided EXCEPT ![at[w]] = src[at[w]]]
    <2>1. \A n \in Nodes : lock[n] \in Workers \cup {NoWorker}
      BY DEF SyncInv, TypeOK
    <2> QED
      BY <1>1, <1>3, <2>1 DEF Decided, SyncInv, TypeOK
  <1>5. CASE src[at[w]] = NoConfig
    <2>1. Decided' = Decided
      BY <1>1, <1>2, <1>4, <1>5 DEF Decided
    <2> QED
      BY <1>3, <2>1
  <1>6. CASE src[at[w]] # NoConfig
    <2>1. src[at[w]] \in Config
      BY <1>1, <1>6 DEF SyncInv, TypeOK, Hash
    <2> QED
      BY <1>1, <1>2, <1>3, <1>4, <2>1 DEF File!Decide
  <1> QED
    BY <1>5, <1>6

LEMMA MoveRefines ==
  ASSUME SyncInv, NEW w \in Workers, UploadMove(w)
  PROVE  \/ \E a \in Addrs : File!Install(at[w], a)
         \/ UNCHANGED <<disk, lock, Decided, used>>
  <1>1. /\ at[w] \in Nodes /\ Decided[at[w]] = cfg[w]
    BY Turn DEF UploadMove, Pushing
  <1>2. /\ cfg[w] \in Config /\ seen[w].addr \in Addrs
        /\ tmp[at[w]][seen[w].addr] \in {cfg[w], NoConfig}
    BY RowParts DEF UploadMove, SyncInv, TypeOK, TmpIsOwn, ReachesServer
  <1>3. UNCHANGED <<lock, cfg, used>>
    BY DEF UploadMove
  <1>4. UNCHANGED Decided
    BY <1>3 DEF Decided
  <1>5. \/ UNCHANGED disk
        \/ /\ tmp[at[w]][seen[w].addr] # NoConfig
           /\ disk' = [disk EXCEPT ![at[w]][seen[w].addr] =
                        tmp[at[w]][seen[w].addr]]
    BY DEF UploadMove
  <1> QED
    BY <1>1, <1>2, <1>3, <1>4, <1>5, ConfigSyncAssumption DEF File!Install

LEMMA ReportRefines ==
  ASSUME SyncInv, NEW w \in Workers, SyncReport(w)
  PROVE  File!End(at[w])
  <1>1. /\ at[w] \in Nodes /\ lock[at[w]] = w /\ w # NoWorker
        /\ \A n \in Nodes \ {at[w]} : lock[n] # w
    BY Turn DEF SyncReport, Pushing
  <1>2. /\ lock' = [lock EXCEPT ![at[w]] = NoWorker]
        /\ cfg' = [cfg EXCEPT ![w] = NoConfig]
        /\ UNCHANGED <<disk, used>>
    BY DEF SyncReport, Finish, hostVars
  <1>3. Decided' = [Decided EXCEPT ![at[w]] = NoConfig]
    <2>1. \A n \in Nodes : lock[n] \in Workers \cup {NoWorker}
      BY DEF SyncInv, TypeOK
    <2> QED
      BY <1>1, <1>2, <2>1 DEF Decided, SyncInv, TypeOK
  <1> QED
    BY <1>1, <1>2, <1>3 DEF File!End

LEMMA ChangeRefines ==
  ASSUME SyncInv, NEW n \in Nodes, NEW a \in Addrs, HostChanged(n, a)
  PROVE  File!Changed(n, a)
  <1>1. UNCHANGED <<lock, cfg>>
    BY DEF HostChanged, jobVars
  <1>2. used'["tamper"] = used["tamper"] + 1
    BY DEF HostChanged, Spend, SyncInv, TypeOK, Kinds
  <1>3. UNCHANGED Decided
    BY <1>1 DEF Decided
  <1> QED
    BY <1>1, <1>2, <1>3 DEF HostChanged, File!Changed

LEMMA CrashRefines ==
  ASSUME SyncInv, Crash
  PROVE  File!Die
  <1>1. used'["tamper"] = used["tamper"]
    BY DEF Crash, Spend, SyncInv, TypeOK, Kinds
  <1> QED
    BY <1>1 DEF Crash, File!Die, Decided, hostVars

(* All other steps stutter.                                                *)
LEMMA WorkerStutters ==
  ASSUME SyncInv, NEW w \in Workers,
         \/ SyncStart(w) \/ SyncFind(w) \/ UploadTmp(w) \/ ReloadXray(w)
         \/ SyncRecord(w) \/ FailNode(w) \/ EditStep(w)
  PROVE  UNCHANGED <<disk, lock, Decided, used["tamper"]>>
  <1>1. UNCHANGED <<disk, lock>>
    BY DEF SyncStart, SyncFind, UploadTmp, ReloadXray, SyncRecord, FailNode,
       EditStep, EditShared, EditGroup, Mark, UpdateFind, ReplaceFind,
       UpdateSave, UpdateSaveAddr, ReplaceSave, hostVars
  <1>2. ~EditStep(w) => UNCHANGED <<cfg, used>>
    BY DEF SyncStart, SyncFind, UploadTmp, ReloadXray, SyncRecord, FailNode
  <1>3. EditStep(w) => pc[w] \notin Pushing
    BY DEF EditStep, EditShared, EditGroup, Mark, UpdateFind, ReplaceFind,
       UpdateSave, UpdateSaveAddr, ReplaceSave, Pushing
  <1>4. UNCHANGED used["tamper"]
    <2>1. EditStep(w) => \/ UNCHANGED used
                         \/ \E k \in {"edit", "save", "move"} : Spend(k)
      BY DEF EditStep, EditShared, EditGroup, Mark, UpdateFind, ReplaceFind,
         UpdateSave, UpdateSaveAddr, ReplaceSave
    <2> QED
      BY <1>2, <2>1 DEF Spend, SyncInv, TypeOK, Kinds
  <1>5. ASSUME NEW n \in Nodes, lock[n] # NoWorker
        PROVE  cfg'[lock[n]] = cfg[lock[n]]
    <2>1. lock[n] \in Workers /\ Holds(lock[n], n)
      BY <1>5 DEF SyncInv, TypeOK, LockDiscipline
    <2>2. CASE lock[n] = w
      BY <1>2, <1>3, <2>1, <2>2 DEF Holds
    <2>3. CASE lock[n] # w
      BY <2>1, <2>3, OwnStep DEF SyncStep, SyncInv
    <2> QED
      BY <2>2, <2>3
  <1> QED
    BY <1>1, <1>4, <1>5, DecidedSame

LEMMA ElsewhereStutters ==
  ASSUME SyncInv, Elsewhere
  PROVE  \/ \E n \in Nodes, a \in Addrs : HostChanged(n, a)
         \/ UNCHANGED <<disk, lock, Decided, used["tamper"]>>
  <1>1. UNCHANGED Decided
    BY ElsewhereFrame DEF Decided, jobVars
  <1>2. \/ \E n \in Nodes, a \in Addrs : HostChanged(n, a)
        \/ /\ UNCHANGED disk
           /\ UNCHANGED used \/ Spend("edit") \/ Spend("toggle")
    BY DEF Elsewhere, EditSilently, ToggleActive, CheckStep, CheckTick,
       CheckEnd, CheckFind, CheckBuild, CheckReadFails, CheckReadOk,
       CheckMark, CheckConfirm, chkFrame, hostVars, vars
  <1>3. Spend("edit") \/ Spend("toggle") => UNCHANGED used["tamper"]
    BY DEF Spend, SyncInv, TypeOK, Kinds
  <1> QED
    BY <1>1, <1>2, <1>3, ElsewhereFrame

LEMMA StepRefines ==
  ASSUME SyncInv, FreshCfg, [Next]_vars
  PROVE  [File!FileNext]_<<disk, lock, Decided, used["tamper"]>>
  <1>1. ASSUME NEW w \in Workers, SyncStart(w) \/ SyncStep(w) \/ EditStep(w)
        PROVE  [File!FileNext]_<<disk, lock, Decided, used["tamper"]>>
    <2>1. CASE \E n \in Nodes : SyncLock(w, n)
      BY <2>1, LockStepRefines DEF File!FileNext
    <2>2. CASE SyncBuild(w)
      BY <2>2, BuildRefines, Turn DEF File!FileNext, SyncBuild, Pushing
    <2>3. CASE UploadMove(w)
      BY <2>3, MoveRefines, Turn DEF File!FileNext, UploadMove, Pushing
    <2>4. CASE SyncReport(w)
      BY <2>4, ReportRefines, Turn DEF File!FileNext, SyncReport, Pushing
    <2> QED
      BY <1>1, <2>1, <2>2, <2>3, <2>4, WorkerStutters DEF SyncStep
  <1>2. CASE Crash
    BY <1>2, CrashRefines DEF File!FileNext
  <1>3. CASE Elsewhere
    BY <1>3, ElsewhereStutters, ChangeRefines DEF File!FileNext
  <1> QED
    BY <1>1, <1>2, <1>3, NextCases

(* UploadContent and nodeLocks implement ServerFile.                       *)
THEOREM Implements == Spec => AtomicInstall
  <1>1. Init => FreshCfg /\ File!FileInit
    BY FreshInit, InitRefines
  <1>2. SyncInv /\ FreshCfg /\ [Next]_vars => FreshCfg'
    BY FreshStep DEF SyncInv
  <1>3. SyncInv /\ FreshCfg /\ [Next]_vars
          => [File!FileNext]_(File!fileVars)
    BY StepRefines DEF File!fileVars
  <1> QED
    BY <1>1, <1>2, <1>3, SyncInvHolds, PTL
       DEF Spec, AtomicInstall, File!FileSpec
=============================================================================
