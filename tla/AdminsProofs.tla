---------------------------- MODULE AdminsProofs ----------------------------
(***************************************************************************)
(* Proofs about Admins, for any accounts, requests at a time, seeds and    *)
(* bounds.                                                                 *)
(***************************************************************************)
EXTENDS Admins, TLAPS

(* The first configured account, if there is one, has a name and a         *)
(* password.                                                               *)
FirstSeedIsWhole == Len(Seeds) > 0 => Seeds[1]

(* Requests run while the panel is up.                                     *)
JobsNeedThePanel == panel # "up" => \A w \in Workers : job[w].pc = "idle"

(* The save makes no super administrator of the row that was read an       *)
(* ordinary account.                                                       *)
Harmless(j) == IsSuperAdmin(j.row) => j.role = "super" /\ j.active

(* What a request that nobody overtook knows: the row as it is, and that   *)
(* another super administrator is there if it takes one away.              *)
JobKnows(j) ==
    j.alone =>
        /\ j.pc \in {"check", "save", "drop"} =>
               j.row = admin[j.target] /\ Here(j.row)
        /\ j.pc = "save" => Harmless(j) \/ EnsureNotLastSuperAdmin(j.target)
        /\ j.pc = "drop" => ~IsSuperAdmin(j.row) \/ EnsureNotLastSuperAdmin(j.target)

SomeSuperAdmin == \E i \in Ids : IsSuperAdmin(admin[i])

MannedWhileSeeding ==
    FirstSeedIsWhole /\ ~overtaken =>
        Manned /\ (panel = "seeding" /\ seed > 1 => SomeSuperAdmin)

AdminsInv == /\ TypeOK /\ DecisionsStand /\ JobsNeedThePanel
             /\ \A w \in Workers : JobKnows(job[w])
             /\ MannedWhileSeeding

-----------------------------------------------------------------------------
(* Types.                                                                  *)

LEMMA IdleType == Idle \in Job /\ Idle.pc = "idle"
  <1>1. AnyId \in Ids
    BY AdminsAssumption DEF AnyId
  <1>2. NoAccount \in Account
    BY DEF NoAccount, Account, Roles
  <1> QED
    BY <1>1, <1>2 DEF Idle, Job, Stages, Kinds, Roles

LEMMA FreshType ==
  ASSUME NEW role \in Roles, NEW number \in Nat
  PROVE  Fresh(role, number) \in Account
  BY DEF Fresh, Account

LEMMA JobParts ==
  ASSUME NEW j \in Job
  PROVE  /\ j.pc \in Stages /\ j.kind \in Kinds /\ j.target \in Ids /\ j.role \in Roles
         /\ j.active \in BOOLEAN /\ j.number \in Nat /\ j.row \in Account
         /\ j.alone \in BOOLEAN
  BY DEF Job

LEMMA FoundType ==
  ASSUME NEW j \in Job, NEW row \in Account, NEW pc \in Stages
  PROVE  LET f == [j EXCEPT !.row = row, !.alone = TRUE]
         IN /\ [f EXCEPT !.number = 0, !.own = TRUE, !.pc = pc] \in Job
            /\ [f EXCEPT !.number = 0, !.pc = pc] \in Job
            /\ [f EXCEPT !.pc = pc] \in Job
  BY DEF Job

LEMMA StageType ==
  ASSUME NEW j \in Job, NEW pc \in Stages
  PROVE  [j EXCEPT !.pc = pc] \in Job
  BY DEF Job

(* One job moves, the others stay as they are.                             *)
LEMMA StepParts ==
  ASSUME TypeOK, NEW w \in Workers, NEW next \in Job, Step(w, next)
  PROVE  /\ job' \in [Workers -> Job] /\ job'[w] = next
         /\ \A v \in Workers : v # w => job'[v] = job[v]
  BY DEF TypeOK, Step

(* A write ends its job, and the others are no longer alone.               *)
LEMMA WriteParts ==
  ASSUME TypeOK, NEW w \in Workers, Write(w)
  PROVE  /\ job' \in [Workers -> Job] /\ job'[w] = Idle
         /\ \A v \in Workers : v # w => ~job'[v].alone
  <1>1. \A v \in Workers : /\ [job[v] EXCEPT !.alone = FALSE] \in Job
                           /\ [job[v] EXCEPT !.alone = FALSE].alone = FALSE
    BY DEF TypeOK, Job
  <1> QED
    BY <1>1, IdleType DEF Write

LEMMA SpendType ==
  ASSUME TypeOK, NEW e \in Events, Spend(e)
  PROVE  used' \in [Events -> Nat]
  BY DEF TypeOK, Spend

LEMMA InitType == Init => TypeOK
  <1> SUFFICES ASSUME Init PROVE TypeOK
    OBVIOUS
  <1>1. NoAccount \in Account
    BY DEF NoAccount, Account, Roles
  <1>2. admin \in [Ids -> Account] /\ decided \in [Ids -> Account]
    BY <1>1 DEF Init
  <1>3. job \in [Workers -> Job]
    BY IdleType DEF Init
  <1>4. used \in [Events -> Nat] /\ seed \in Nat \ {0}
    BY DEF Init
  <1> QED
    BY <1>2, <1>3, <1>4 DEF Init, TypeOK

LEMMA PanelType == TypeOK /\ (Start \/ Seed \/ Stop) => TypeOK'
  <1> SUFFICES ASSUME TypeOK, Start \/ Seed \/ Stop PROVE TypeOK'
    OBVIOUS
  <1>1. CASE Start
    BY <1>1 DEF Start, TypeOK
  <1>2. CASE Seed
    <2>1. CASE seed > Len(Seeds)
      BY <1>2, <2>1 DEF Seed, TypeOK
    <2>2. CASE ~(seed > Len(Seeds)) /\ Seeds[seed]
      <3>1. PICK i \in Ids : LET new == Fresh(IF seed = 1 THEN "super" ELSE "admin", 0)
                             IN /\ admin' = [admin EXCEPT ![i] = new]
                                /\ decided' = [decided EXCEPT ![i] = new]
        BY <1>2, <2>2 DEF Seed
      <3>2. Fresh(IF seed = 1 THEN "super" ELSE "admin", 0) \in Account
        BY FreshType DEF Roles
      <3>3. admin' \in [Ids -> Account] /\ decided' \in [Ids -> Account]
        BY <3>1, <3>2 DEF TypeOK
      <3>4. seed' = seed + 1 /\ UNCHANGED <<panel, job, used, overtaken>>
        BY <1>2, <2>2 DEF Seed
      <3> QED
        BY <3>3, <3>4 DEF TypeOK
    <2>3. CASE ~(seed > Len(Seeds)) /\ ~Seeds[seed]
      BY <1>2, <2>3 DEF Seed, TypeOK
    <2> QED
      BY <2>1, <2>2, <2>3
  <1>3. CASE Stop
    <2>1. used' \in [Events -> Nat]
      BY <1>3, SpendType DEF Stop, Events
    <2> QED
      BY <1>3, <2>1, IdleType DEF Stop, TypeOK
  <1> QED
    BY <1>1, <1>2, <1>3

FindStep(w) == FindUpdate(w) \/ FindDelete(w) \/ FindPassword(w) \/ Check(w)

LEMMA FindType ==
  ASSUME TypeOK, NEW w \in Workers, FindStep(w)
  PROVE  TypeOK'
  <1> DEFINE j == job[w]
  <1>1. j \in Job /\ j.target \in Ids /\ admin[j.target] \in Account
    BY JobParts DEF TypeOK
  <1>2. \A pc \in Stages : /\ [Found(w) EXCEPT !.number = 0, !.own = TRUE, !.pc = pc] \in Job
                           /\ [Found(w) EXCEPT !.number = 0, !.pc = pc] \in Job
                           /\ [Found(w) EXCEPT !.pc = pc] \in Job
                           /\ [j EXCEPT !.pc = pc] \in Job
    BY <1>1, FoundType, StageType DEF Found
  <1>3. UNCHANGED <<admin, panel, seed, used, decided, overtaken>>
    BY DEF FindStep, FindUpdate, FindDelete, FindPassword, Check
  <1>4. \E next \in Job : Step(w, next)
    <2>0. {"check", "save", "drop", "password"} \subseteq Stages
      BY DEF Stages
    <2>1. CASE FindUpdate(w)
      <3> DEFINE pc == IF \/ j.role # admin[j.target].role /\ admin[j.target].role = "super"
                          \/ admin[j.target].active /\ ~j.active /\ j.role = "super"
                       THEN "check" ELSE "save"
      <3>1. \/ Step(w, Idle)
            \/ Step(w, [Found(w) EXCEPT !.number = 0, !.own = TRUE, !.pc = pc])
        BY <2>1 DEF FindUpdate
      <3>2. pc \in Stages
        BY <2>0
      <3> HIDE DEF pc
      <3> QED
        BY <3>1, <3>2, <1>2, IdleType
    <2>2. CASE FindDelete(w)
      <3> DEFINE pc == IF IsSuperAdmin(admin[j.target]) THEN "check" ELSE "drop"
      <3>1. \/ Step(w, Idle)
            \/ Step(w, [Found(w) EXCEPT !.number = 0, !.pc = pc])
        BY <2>2 DEF FindDelete
      <3>2. pc \in Stages
        BY <2>0
      <3> HIDE DEF pc
      <3> QED
        BY <3>1, <3>2, <1>2, IdleType
    <2>3. CASE FindPassword(w)
      <3>1. Step(w, Idle) \/ Step(w, [Found(w) EXCEPT !.pc = "password"])
        BY <2>3 DEF FindPassword
      <3> QED
        BY <3>1, <2>0, <1>2, IdleType
    <2>4. CASE Check(w)
      <3> DEFINE pc == IF j.kind = "update" THEN "save" ELSE "drop"
      <3>1. Step(w, Idle) \/ Step(w, [j EXCEPT !.pc = pc])
        BY <2>4 DEF Check
      <3>2. pc \in Stages
        BY <2>0
      <3> HIDE DEF pc
      <3> QED
        BY <3>1, <3>2, <1>2, IdleType
    <2> QED
      BY <2>1, <2>2, <2>3, <2>4 DEF FindStep
  <1>5. job' \in [Workers -> Job]
    BY <1>4, StepParts
  <1> QED
    BY <1>3, <1>5 DEF TypeOK

WriteStep(w) ==
    \/ \E self \in Ids : Create(w, self)
    \/ Update(w) \/ Delete(w) \/ UpdatePasswordHash(w)

LEMMA RowWrites ==
  ASSUME NEW row \in Account
  PROVE  /\ \A role \in Roles, active \in BOOLEAN :
                LET new == [row EXCEPT !.role = role, !.active = active]
                IN /\ new \in Account /\ new.is = row.is /\ new.role = role
                   /\ new.active = active
         /\ LET new == [row EXCEPT !.is = "gone"]
            IN new \in Account /\ new.is = "gone"
         /\ \A number \in Nat :
                LET new == [row EXCEPT !.password = IF Here(row) THEN number ELSE @]
                IN /\ new \in Account /\ new.is = row.is /\ new.role = row.role
                   /\ new.active = row.active
  BY DEF Account

(* What the writes leave: the same of the table and of the decisions as    *)
(* long as both were the same, apart from the row that is saved whole.     *)
LEMMA CreateParts ==
  ASSUME TypeOK, NEW w \in Workers, NEW self \in Ids, Create(w, self)
  PROVE  \E i \in Ids, new \in Account :
             /\ decided[i].is = "unborn" /\ Here(new)
             /\ admin' = [admin EXCEPT ![i] = new]
             /\ decided' = [decided EXCEPT ![i] = new]
  <1>1. used["request"] + 1 \in Nat
    BY DEF TypeOK, Events
  <1>2. PICK i \in Ids, role \in Roles :
            LET new == Fresh(role, used["request"] + 1)
            IN /\ NextId(i)
               /\ admin' = [admin EXCEPT ![i] = new]
               /\ decided' = [decided EXCEPT ![i] = new]
    BY DEF Create
  <1>3. Fresh(role, used["request"] + 1) \in Account
    BY <1>1, FreshType
  <1> QED
    BY <1>2, <1>3 DEF NextId, Fresh, Here

LEMMA UpdateParts ==
  ASSUME TypeOK, NEW w \in Workers, Update(w)
  PROVE  LET j == job[w]
             new == [j.row EXCEPT !.role = j.role, !.active = j.active]
             made == [decided[j.target] EXCEPT !.role = j.role, !.active = j.active]
         IN /\ new \in Account /\ made \in Account
            /\ new.is = j.row.is /\ new.role = j.role /\ new.active = j.active
            /\ admin' = [admin EXCEPT ![j.target] = new]
            /\ decided' = [decided EXCEPT ![j.target] = made]
  <1> DEFINE j == job[w]
  <1>1. j \in Job /\ j.target \in Ids /\ decided[j.target] \in Account
    BY JobParts DEF TypeOK
  <1>2. /\ j.row \in Account /\ j.role \in Roles /\ j.active \in BOOLEAN
    BY <1>1, JobParts
  <1>3. admin' = [admin EXCEPT ![j.target] =
                     [j.row EXCEPT !.role = j.role, !.active = j.active]]
    BY DEF Update
  <1>4. decided' = [decided EXCEPT ![j.target] =
                       [decided[j.target] EXCEPT !.role = j.role, !.active = j.active]]
    BY <1>1 DEF Update, TypeOK
  <1>5. LET new == [j.row EXCEPT !.role = j.role, !.active = j.active]
        IN /\ new \in Account /\ new.is = j.row.is /\ new.role = j.role
           /\ new.active = j.active
    BY <1>2 DEF Account
  <1>6. [decided[j.target] EXCEPT !.role = j.role, !.active = j.active] \in Account
    BY <1>1, <1>2, RowWrites
  <1> QED
    BY <1>3, <1>4, <1>5, <1>6

LEMMA DeleteParts ==
  ASSUME TypeOK, NEW w \in Workers, Delete(w)
  PROVE  LET t == job[w].target
         IN /\ [admin[t] EXCEPT !.is = "gone"] \in Account
            /\ [decided[t] EXCEPT !.is = "gone"] \in Account
            /\ admin' = [admin EXCEPT ![t] = [admin[t] EXCEPT !.is = "gone"]]
            /\ decided' = [decided EXCEPT ![t] = [decided[t] EXCEPT !.is = "gone"]]
  <1> DEFINE t == job[w].target
  <1>1. t \in Ids /\ admin[t] \in Account /\ decided[t] \in Account
    BY JobParts DEF TypeOK
  <1> QED
    BY <1>1, RowWrites DEF Delete, TypeOK

LEMMA PasswordParts ==
  ASSUME TypeOK, NEW w \in Workers, UpdatePasswordHash(w)
  PROVE  LET j == job[w]
             New(row) == [row EXCEPT !.password = IF Here(row) THEN j.number ELSE @]
         IN /\ New(admin[j.target]) \in Account /\ New(decided[j.target]) \in Account
            /\ admin' = [admin EXCEPT ![j.target] = New(admin[j.target])]
            /\ decided' = [decided EXCEPT ![j.target] = New(decided[j.target])]
  <1> DEFINE j == job[w]
  <1>1. /\ j.target \in Ids /\ j.number \in Nat
        /\ admin[j.target] \in Account /\ decided[j.target] \in Account
    BY JobParts DEF TypeOK
  <1> QED
    BY <1>1, RowWrites DEF UpdatePasswordHash, TypeOK

LEMMA WriteType ==
  ASSUME TypeOK, NEW w \in Workers, WriteStep(w)
  PROVE  TypeOK'
  <1>1. job' \in [Workers -> Job]
    BY WriteParts DEF WriteStep, Create, Update, Delete, UpdatePasswordHash
  <1>2. admin' \in [Ids -> Account] /\ decided' \in [Ids -> Account]
    <2>1. job[w].target \in Ids
      BY JobParts DEF TypeOK
    <2>2. ASSUME NEW self \in Ids, Create(w, self)
          PROVE  admin' \in [Ids -> Account] /\ decided' \in [Ids -> Account]
      BY <2>2, CreateParts DEF TypeOK
    <2>3. CASE Update(w)
      BY <2>1, <2>3, UpdateParts DEF TypeOK
    <2>4. CASE Delete(w)
      BY <2>1, <2>4, DeleteParts, ZenonT(40) DEF TypeOK
    <2>5. CASE UpdatePasswordHash(w)
      BY <2>1, <2>5, PasswordParts, ZenonT(40) DEF TypeOK
    <2> QED
      BY <2>2, <2>3, <2>4, <2>5 DEF WriteStep
  <1>3. used' \in [Events -> Nat]
    BY SpendType DEF WriteStep, Create, Update, Delete, UpdatePasswordHash, TypeOK, Events
  <1>4. UNCHANGED <<panel, seed>> /\ overtaken' \in BOOLEAN
    BY DEF WriteStep, Create, Update, Delete, UpdatePasswordHash, TypeOK
  <1> QED
    BY <1>1, <1>2, <1>3, <1>4 DEF TypeOK

LEMMA AdmitKeepsType ==
  ASSUME TypeOK, NEW w \in Workers, NEW kind \in Kinds, NEW self \in Ids,
         NEW target \in Ids, Admit(w, kind, self, target)
  PROVE  /\ TypeOK' /\ job'[w].pc = "find"
         /\ \A v \in Workers : v # w => job'[v] = job[v]
         /\ panel = "up"
         /\ UNCHANGED <<admin, panel, seed, decided, overtaken>>
  <1> DEFINE own == (target = self)
             number == used["request"] + 1
             next(role, active) ==
                 [Idle EXCEPT !.pc = "find", !.kind = kind, !.own = own,
                              !.target = target, !.role = role, !.active = active,
                              !.number = number]
  <1>1. number \in Nat /\ own \in BOOLEAN
    BY DEF TypeOK, Events
  <1>2. PICK role \in Roles, active \in BOOLEAN : Step(w, next(role, active))
    BY DEF Admit
  <1> HIDE DEF own, number
  <1>3. next(role, active) \in Job /\ next(role, active).pc = "find"
    BY <1>1, IdleType DEF Job, Stages
  <1> HIDE DEF next
  <1>4. /\ job' \in [Workers -> Job] /\ job'[w].pc = "find"
        /\ \A v \in Workers : v # w => job'[v] = job[v]
    BY <1>2, <1>3, StepParts
  <1>5. used' \in [Events -> Nat]
    BY SpendType DEF Admit, Events
  <1>6. panel = "up" /\ UNCHANGED <<admin, panel, seed, decided, overtaken>>
    BY DEF Admit
  <1> QED
    BY <1>4, <1>5, <1>6 DEF TypeOK

LEMMA RequestCases ==
  ASSUME NEW w \in Workers, Request(w)
  PROVE  \/ \E kind \in Kinds, self, target \in Ids : Admit(w, kind, self, target)
         \/ FindStep(w) \/ WriteStep(w)
  BY DEF Request, FindStep, WriteStep

LEMMA StepType == TypeOK /\ [Next]_vars => TypeOK'
  <1> SUFFICES ASSUME TypeOK, [Next]_vars PROVE TypeOK'
    OBVIOUS
  <1>1. CASE UNCHANGED vars
    BY <1>1 DEF vars, TypeOK
  <1>2. CASE Start \/ Seed \/ Stop
    BY <1>2, PanelType
  <1>3. ASSUME NEW w \in Workers, Request(w) PROVE TypeOK'
    BY <1>3, RequestCases, AdmitKeepsType, FindType, WriteType
  <1> QED
    BY <1>1, <1>2, <1>3 DEF Next

-----------------------------------------------------------------------------
(* What the requests know.                                                 *)

AllKnow == \A w \in Workers : JobKnows(job[w])

(* A request knows what it knew as long as nobody writes, and has to know  *)
(* nothing once overtaken or outside its count and its write.              *)
LEMMA KnowsStill ==
  ASSUME NEW v, JobKnows(job[v]), admin' = admin, job'[v] = job[v]
  PROVE  JobKnows(job[v])'
  BY DEF JobKnows, Harmless, EnsureNotLastSuperAdmin

LEMMA KnowsNothing ==
  ASSUME NEW v, ~job'[v].alone \/ job'[v].pc \notin {"check", "save", "drop"}
  PROVE  JobKnows(job[v])'
  BY DEF JobKnows

LEMMA PanelKnows ==
  ASSUME TypeOK, JobsNeedThePanel, AllKnow, Start \/ Seed \/ Stop
  PROVE  JobsNeedThePanel' /\ AllKnow'
  <1>1. CASE Start
    BY <1>1, KnowsStill DEF Start, JobsNeedThePanel, AllKnow
  <1>2. CASE Seed
    <2>1. job' = job /\ \A w \in Workers : job[w].pc = "idle"
      BY <1>2 DEF Seed, JobsNeedThePanel
    <2> QED
      BY <2>1, KnowsNothing DEF JobsNeedThePanel, AllKnow
  <1>3. CASE Stop
    <2>1. \A w \in Workers : job'[w].pc = "idle"
      BY <1>3, IdleType DEF Stop
    <2> QED
      BY <2>1, KnowsNothing DEF JobsNeedThePanel, AllKnow
  <1> QED
    BY <1>1, <1>2, <1>3

LEMMA AdmitKnows ==
  ASSUME TypeOK, JobsNeedThePanel, AllKnow, NEW w \in Workers, NEW kind \in Kinds,
         NEW self \in Ids, NEW target \in Ids, Admit(w, kind, self, target)
  PROVE  JobsNeedThePanel' /\ AllKnow'
  <1>1. /\ job'[w].pc = "find" /\ panel = "up"
        /\ \A v \in Workers : v # w => job'[v] = job[v]
        /\ UNCHANGED <<admin, panel, seed, decided, overtaken>>
    BY AdmitKeepsType
  <1>2. ASSUME NEW v \in Workers PROVE JobKnows(job[v])'
    BY <1>1, KnowsStill, KnowsNothing DEF AllKnow
  <1> QED
    BY <1>1, <1>2 DEF JobsNeedThePanel, AllKnow

(* What the row that was read tells: a save that is not counted first is   *)
(* harmless, a deletion that is not counted takes no super administrator.  *)
LEMMA FoundKnows ==
  ASSUME TypeOK, NEW w \in Workers, FindUpdate(w) \/ FindDelete(w) \/ FindPassword(w)
  PROVE  JobKnows(job[w])'
  <1> DEFINE j == job[w]
             row == admin[j.target]
  <1>1. j \in Job /\ row \in Account
    BY JobParts DEF TypeOK
  <1>2. job'[w] = Idle => JobKnows(job[w])'
    BY IdleType, KnowsNothing
  <1>3. CASE FindUpdate(w)
    <2> DEFINE guarded == \/ j.role # row.role /\ row.role = "super"
                          \/ row.active /\ ~j.active /\ j.role = "super"
               pc == IF guarded THEN "check" ELSE "save"
               next == [Found(w) EXCEPT !.number = 0, !.own = TRUE, !.pc = pc]
    <2>1. Step(w, Idle) \/ (Here(row) /\ Step(w, next))
      BY <1>3 DEF FindUpdate
    <2>2. /\ next.pc = pc /\ next.row = row /\ next.target = j.target
          /\ next.role = j.role /\ next.active = j.active
      BY <1>1 DEF Found, Job
    <2>3. pc = "save" => Harmless(next)
      BY <2>2, <1>1 DEF Harmless, IsSuperAdmin, Account
    <2>4. admin' = admin /\ (job'[w] = Idle \/ (Here(row) /\ job'[w] = next))
      BY <1>3, <2>1 DEF Step, FindUpdate, TypeOK
    <2>5. pc # "drop"
      OBVIOUS
    <2> HIDE DEF pc, next
    <2> QED
      BY <1>2, <2>2, <2>3, <2>4, <2>5 DEF JobKnows, Harmless
  <1>4. CASE FindDelete(w)
    <2> DEFINE pc == IF IsSuperAdmin(row) THEN "check" ELSE "drop"
               next == [Found(w) EXCEPT !.number = 0, !.pc = pc]
    <2>1. Step(w, Idle) \/ (Here(row) /\ Step(w, next))
      BY <1>4 DEF FindDelete
    <2>2. next.pc = pc /\ next.row = row /\ next.target = j.target
      BY <1>1 DEF Found, Job
    <2>3. pc # "save" /\ (pc = "drop" => ~IsSuperAdmin(row))
      OBVIOUS
    <2>4. admin' = admin /\ (job'[w] = Idle \/ (Here(row) /\ job'[w] = next))
      BY <1>4, <2>1 DEF Step, FindDelete, TypeOK
    <2> HIDE DEF pc, next
    <2> QED
      BY <1>2, <2>2, <2>3, <2>4 DEF JobKnows
  <1>5. CASE FindPassword(w)
    <2> DEFINE next == [Found(w) EXCEPT !.pc = "password"]
    <2>1. Step(w, Idle) \/ Step(w, next)
      BY <1>5 DEF FindPassword
    <2>2. next.pc = "password"
      BY <1>1 DEF Found, Job
    <2>3. job'[w] = Idle \/ job'[w] = next
      BY <2>1 DEF Step, TypeOK
    <2> HIDE DEF next
    <2> QED
      BY <1>2, <2>2, <2>3, KnowsNothing
  <1> QED
    BY <1>3, <1>4, <1>5

LEMMA CheckKnows ==
  ASSUME TypeOK, NEW w \in Workers, JobKnows(job[w]), Check(w)
  PROVE  JobKnows(job[w])'
  <1> DEFINE j == job[w]
             pc == IF j.kind = "update" THEN "save" ELSE "drop"
             next == [j EXCEPT !.pc = pc]
  <1>1. j \in Job
    BY DEF TypeOK
  <1>2. /\ admin' = admin /\ j.pc = "check"
        /\ \/ Step(w, Idle)
           \/ EnsureNotLastSuperAdmin(j.target) /\ Step(w, next)
    BY DEF Check
  <1>3. \/ job'[w] = Idle
        \/ EnsureNotLastSuperAdmin(j.target) /\ job'[w] = next
    BY <1>2 DEF Step, TypeOK
  <1>4. next.row = j.row /\ next.target = j.target /\ next.alone = j.alone
    BY <1>1 DEF Job
  <1>5. CASE job'[w] = Idle
    BY <1>5, IdleType, KnowsNothing
  <1>6. CASE EnsureNotLastSuperAdmin(j.target) /\ job'[w] = next
    <2> HIDE DEF next
    <2>1. /\ j'.row = j.row /\ j'.target = j.target /\ j'.alone = j.alone
      BY <1>6, <1>4
    <2>2. j.alone => j.row = admin[j.target] /\ Here(j.row)
      BY <1>2 DEF JobKnows
    <2>3. \E i \in Ids \ {j.target} : IsSuperAdmin(admin[i])
      BY <1>6 DEF EnsureNotLastSuperAdmin
    <2> QED
      BY <1>2, <2>1, <2>2, <2>3 DEF JobKnows, EnsureNotLastSuperAdmin
  <1> QED
    BY <1>3, <1>5, <1>6

LEMMA FindKnows ==
  ASSUME TypeOK, JobsNeedThePanel, AllKnow, NEW w \in Workers, FindStep(w)
  PROVE  JobsNeedThePanel' /\ AllKnow'
  <1>1. /\ UNCHANGED <<admin, panel, seed, used, decided, overtaken>>
        /\ job[w].pc # "idle"
    BY DEF FindStep, FindUpdate, FindDelete, FindPassword, Check
  <1>2. \A v \in Workers : v # w => job'[v] = job[v]
    BY DEF FindStep, FindUpdate, FindDelete, FindPassword, Check, Step, TypeOK
  <1>3. JobKnows(job[w])'
    BY FoundKnows, CheckKnows DEF FindStep, AllKnow
  <1>4. ASSUME NEW v \in Workers PROVE JobKnows(job[v])'
    BY <1>1, <1>2, <1>3, KnowsStill DEF AllKnow
  <1> QED
    BY <1>1, <1>4 DEF JobsNeedThePanel, AllKnow

LEMMA WriteKnows ==
  ASSUME TypeOK, JobsNeedThePanel, NEW w \in Workers, WriteStep(w)
  PROVE  panel = "up" /\ JobsNeedThePanel' /\ AllKnow'
  <1>1. panel' = panel /\ Write(w)
    BY DEF WriteStep, Create, Update, Delete, UpdatePasswordHash
  <1>2. panel = "up"
    BY DEF WriteStep, Create, Update, Delete, UpdatePasswordHash, JobsNeedThePanel
  <1>3. ASSUME NEW v \in Workers PROVE JobKnows(job[v])'
    BY <1>1, WriteParts, IdleType, KnowsNothing
  <1> QED
    BY <1>1, <1>2, <1>3 DEF JobsNeedThePanel, AllKnow

-----------------------------------------------------------------------------
(* The decisions stand.                                                    *)

LEMMA PanelStands ==
  ASSUME DecisionsStand, Start \/ Seed \/ Stop
  PROVE  DecisionsStand'
  <1>1. CASE Start \/ Stop
    BY <1>1 DEF Start, Stop, DecisionsStand
  <1>2. CASE Seed
    BY <1>2 DEF Seed, DecisionsStand
  <1> QED
    BY <1>1, <1>2

(* A save of a whole row that nobody overtook changes what it was asked    *)
(* to; every other write changes the table the way it changes the          *)
(* decisions.                                                              *)
LEMMA WriteStands ==
  ASSUME TypeOK, DecisionsStand, NEW w \in Workers, JobKnows(job[w]), WriteStep(w)
  PROVE  DecisionsStand'
  <1> SUFFICES ASSUME ~overtaken' PROVE admin' = decided'
    BY DEF DecisionsStand
  <1>1. ~overtaken /\ admin = decided
    BY DEF WriteStep, Create, Update, Delete, UpdatePasswordHash, DecisionsStand, TypeOK
  <1>2. CASE \E self \in Ids : Create(w, self)
    BY <1>1, <1>2, CreateParts
  <1>3. CASE Update(w)
    <2> DEFINE j == job[w]
               New(row) == [row EXCEPT !.role = j.role, !.active = j.active]
    <2>1. j.row = admin[j.target]
      BY <1>1, <1>3 DEF Update, JobKnows
    <2>2. /\ admin' = [admin EXCEPT ![j.target] = New(j.row)]
          /\ decided' = [decided EXCEPT ![j.target] = New(decided[j.target])]
      BY <1>3, UpdateParts
    <2> HIDE DEF New
    <2> QED
      BY <1>1, <2>1, <2>2
  <1>4. CASE Delete(w)
    BY <1>1, <1>4, DeleteParts
  <1>5. CASE UpdatePasswordHash(w)
    <2> DEFINE j == job[w]
               New(row) == [row EXCEPT !.password = IF Here(row) THEN j.number ELSE @]
    <2>1. /\ admin' = [admin EXCEPT ![j.target] = New(admin[j.target])]
          /\ decided' = [decided EXCEPT ![j.target] = New(decided[j.target])]
      BY <1>5, PasswordParts
    <2> HIDE DEF New
    <2> QED
      BY <1>1, <2>1
  <1> QED
    BY <1>2, <1>3, <1>4, <1>5 DEF WriteStep

-----------------------------------------------------------------------------
(* A super administrator is left.                                          *)

LEMMA PanelManned ==
  ASSUME TypeOK, DecisionsStand, MannedWhileSeeding, Start \/ Seed \/ Stop
  PROVE  MannedWhileSeeding'
  <1> SUFFICES ASSUME FirstSeedIsWhole, ~overtaken'
               PROVE  Manned' /\ (panel' = "seeding" /\ seed' > 1 => SomeSuperAdmin')
    BY DEF MannedWhileSeeding
  <1>1. ~overtaken /\ admin = decided
    BY DEF Start, Seed, Stop, DecisionsStand
  <1>2. Manned /\ (panel = "seeding" /\ seed > 1 => SomeSuperAdmin)
    BY <1>1 DEF MannedWhileSeeding
  <1>3. CASE Start \/ Stop
    BY <1>2, <1>3 DEF Start, Stop, Manned
  <1>4. CASE Seed /\ seed > Len(Seeds)
    BY <1>2, <1>4 DEF Seed, Manned
  <1>5. CASE Seed /\ ~(seed > Len(Seeds)) /\ ~Seeds[seed]
    <2>1. seed # 1
      BY <1>5 DEF FirstSeedIsWhole
    <2>2. seed > 1 /\ panel = "seeding" /\ admin' = admin
      BY <1>5, <2>1 DEF TypeOK, Seed
    <2> QED
      BY <1>2, <2>2 DEF SomeSuperAdmin, Manned
  <1>6. CASE Seed /\ ~(seed > Len(Seeds)) /\ Seeds[seed]
    <2> DEFINE new == Fresh(IF seed = 1 THEN "super" ELSE "admin", 0)
    <2>1. PICK i \in Ids : NextId(i) /\ admin' = [admin EXCEPT ![i] = new]
      BY <1>6 DEF Seed
    <2>2. SomeSuperAdmin'
      <3>1. CASE seed = 1
        <4>1. IsSuperAdmin(new)
          BY <3>1 DEF Fresh, IsSuperAdmin, Here
        <4>2. IsSuperAdmin(admin'[i])
          BY <2>1, <4>1 DEF TypeOK
        <4> QED
          BY <4>2 DEF SomeSuperAdmin
      <3>2. CASE seed # 1
        <4>1. seed > 1 /\ panel = "seeding"
          BY <1>6, <3>2 DEF TypeOK, Seed
        <4>2. PICK k \in Ids : IsSuperAdmin(admin[k])
          BY <1>2, <4>1 DEF SomeSuperAdmin
        <4>3. k # i
          BY <1>1, <2>1, <4>2 DEF NextId, IsSuperAdmin, Here
        <4>4. admin'[k] = admin[k]
          BY <2>1, <4>3 DEF TypeOK
        <4> QED
          BY <4>2, <4>4 DEF SomeSuperAdmin
      <3> QED
        BY <3>1, <3>2
    <2> QED
      BY <2>2 DEF SomeSuperAdmin, Manned
  <1> QED
    BY <1>3, <1>4, <1>5, <1>6

(* A super administrator in a row that a write leaves alone is still one.  *)
LEMMA OthersStay ==
  ASSUME TypeOK, NEW t \in Ids, NEW new, admin' = [admin EXCEPT ![t] = new],
         NEW k \in Ids, IsSuperAdmin(admin[k]), k # t
  PROVE  SomeSuperAdmin'
  BY DEF TypeOK, SomeSuperAdmin

LEMMA TargetStays ==
  ASSUME TypeOK, NEW t \in Ids, NEW new, admin' = [admin EXCEPT ![t] = new],
         IsSuperAdmin(new)
  PROVE  SomeSuperAdmin'
  <1>1. admin'[t] = new
    BY DEF TypeOK
  <1> QED
    BY <1>1 DEF SomeSuperAdmin

LEMMA WriteManned ==
  ASSUME TypeOK, DecisionsStand, MannedWhileSeeding, NEW w \in Workers,
         JobKnows(job[w]), panel = "up", WriteStep(w)
  PROVE  MannedWhileSeeding'
  <1> SUFFICES ASSUME FirstSeedIsWhole, ~overtaken' PROVE Manned'
    BY DEF MannedWhileSeeding, WriteStep, Create, Update, Delete, UpdatePasswordHash
  <1> SUFFICES ASSUME \E i \in Ids : Here(admin'[i]) PROVE SomeSuperAdmin'
    BY DEF Manned, SomeSuperAdmin
  <1> DEFINE j == job[w]
  <1>1. ~overtaken /\ admin = decided
    BY DEF WriteStep, Create, Update, Delete, UpdatePasswordHash, DecisionsStand, TypeOK
  <1>2. (\E i \in Ids : Here(admin[i])) => \E i \in Ids : IsSuperAdmin(admin[i])
    BY <1>1 DEF MannedWhileSeeding, Manned
  <1>3. j \in Job /\ j.target \in Ids
    BY JobParts DEF TypeOK
  <1>4. ASSUME NEW self \in Ids, Create(w, self) PROVE SomeSuperAdmin'
    <2>1. PICK i \in Ids, new \in Account : /\ decided[i].is = "unborn"
                                            /\ admin' = [admin EXCEPT ![i] = new]
      BY <1>4, CreateParts
    <2>2. IsSuperAdmin(admin[self]) /\ self # i
      BY <1>1, <1>4, <2>1 DEF Create, IsSuperAdmin, Here
    <2> QED
      BY <2>1, <2>2, OthersStay
  <1>5. CASE Update(w)
    <2> DEFINE new == [j.row EXCEPT !.role = j.role, !.active = j.active]
    <2>1. j.pc = "save" /\ j.alone
      BY <1>1, <1>5 DEF Update
    <2>2. /\ j.row = admin[j.target] /\ Here(j.row)
          /\ Harmless(j) \/ EnsureNotLastSuperAdmin(j.target)
      BY <2>1 DEF JobKnows
    <2>3. /\ admin' = [admin EXCEPT ![j.target] = new]
          /\ new.is = j.row.is /\ new.role = j.role /\ new.active = j.active
      BY <1>5, UpdateParts
    <2>4. PICK k \in Ids : IsSuperAdmin(admin[k])
      BY <1>2, <1>3, <2>2
    <2>5. CASE EnsureNotLastSuperAdmin(j.target)
      BY <1>3, <2>3, <2>5, OthersStay DEF EnsureNotLastSuperAdmin
    <2>6. CASE Harmless(j) /\ k = j.target
      <3>1. j.role = "super" /\ j.active
        BY <2>2, <2>4, <2>6 DEF Harmless
      <3>2. IsSuperAdmin(new)
        BY <2>2, <2>3, <3>1 DEF IsSuperAdmin, Here
      <3> QED
        BY <1>3, <2>3, <3>2, TargetStays
    <2>7. CASE k # j.target
      BY <1>3, <2>3, <2>4, <2>7, OthersStay
    <2> QED
      BY <2>2, <2>5, <2>6, <2>7
  <1>6. CASE Delete(w)
    <2>1. j.pc = "drop" /\ j.alone
      BY <1>1, <1>6 DEF Delete
    <2>2. /\ j.row = admin[j.target] /\ Here(j.row)
          /\ ~IsSuperAdmin(j.row) \/ EnsureNotLastSuperAdmin(j.target)
      BY <2>1 DEF JobKnows
    <2>3. admin' = [admin EXCEPT ![j.target] = [admin[j.target] EXCEPT !.is = "gone"]]
      BY <1>6, DeleteParts
    <2>4. PICK k \in Ids : IsSuperAdmin(admin[k])
      BY <1>2, <1>3, <2>2
    <2>5. CASE EnsureNotLastSuperAdmin(j.target)
      BY <1>3, <2>3, <2>5, OthersStay DEF EnsureNotLastSuperAdmin
    <2>6. CASE ~IsSuperAdmin(j.row)
      BY <1>3, <2>2, <2>3, <2>4, <2>6, OthersStay
    <2> QED
      BY <2>2, <2>5, <2>6
  <1>7. CASE UpdatePasswordHash(w)
    <2> DEFINE row == admin[j.target]
               new == [row EXCEPT !.password = IF Here(row) THEN j.number ELSE @]
    <2>1. row \in Account /\ admin' = [admin EXCEPT ![j.target] = new]
      BY <1>3, <1>7, PasswordParts DEF TypeOK
    <2>2. new.is = row.is /\ new.role = row.role /\ new.active = row.active
      BY <2>1 DEF Account
    <2>3. \A i \in Ids : Here(admin'[i]) <=> Here(admin[i])
      <3> HIDE DEF new
      <3> QED
        BY <1>3, <2>1, <2>2 DEF TypeOK, Here
    <2>4. PICK k \in Ids : IsSuperAdmin(admin[k])
      BY <1>2, <2>3
    <2>5. CASE k = j.target
      <3>1. IsSuperAdmin(new)
        BY <2>2, <2>4, <2>5 DEF IsSuperAdmin, Here
      <3> QED
        BY <1>3, <2>1, <3>1, TargetStays
    <2>6. CASE k # j.target
      BY <1>3, <2>1, <2>4, <2>6, OthersStay
    <2> QED
      BY <2>5, <2>6
  <1> QED
    BY <1>4, <1>5, <1>6, <1>7 DEF WriteStep

-----------------------------------------------------------------------------
(* The invariant.                                                          *)

LEMMA InitAdmins == Init => AdminsInv
  <1> SUFFICES ASSUME Init PROVE AdminsInv
    OBVIOUS
  <1>1. TypeOK
    BY InitType
  <1>2. DecisionsStand
    BY DEF Init, DecisionsStand
  <1>3. \A w \in Workers : job[w].pc = "idle"
    BY IdleType DEF Init
  <1>4. JobsNeedThePanel /\ \A w \in Workers : JobKnows(job[w])
    BY <1>3 DEF JobsNeedThePanel, JobKnows
  <1>5. MannedWhileSeeding
    <2>1. \A i \in Ids : ~Here(admin[i])
      BY DEF Init, NoAccount, Here
    <2> QED
      BY <2>1 DEF Init, MannedWhileSeeding, Manned
  <1> QED
    BY <1>1, <1>2, <1>4, <1>5 DEF AdminsInv

LEMMA NextAdmins == AdminsInv /\ [Next]_vars => AdminsInv'
  <1> SUFFICES ASSUME AdminsInv, [Next]_vars PROVE AdminsInv'
    OBVIOUS
  <1>1. TypeOK /\ DecisionsStand /\ JobsNeedThePanel /\ AllKnow /\ MannedWhileSeeding
    BY DEF AdminsInv, AllKnow
  <1>2. TypeOK'
    BY <1>1, StepType
  <1>3. DecisionsStand' /\ JobsNeedThePanel' /\ AllKnow' /\ MannedWhileSeeding'
    <2>1. CASE UNCHANGED vars
      <3>1. AllKnow'
        BY <1>1, <2>1, KnowsStill DEF vars, AllKnow
      <3> QED
        BY <1>1, <2>1, <3>1 DEF vars, DecisionsStand, JobsNeedThePanel,
                                MannedWhileSeeding, Manned, SomeSuperAdmin
    <2>2. CASE Start \/ Seed \/ Stop
      BY <1>1, <2>2, PanelStands, PanelKnows, PanelManned
    <2>3. ASSUME NEW w \in Workers, Request(w)
          PROVE  DecisionsStand' /\ JobsNeedThePanel' /\ AllKnow' /\ MannedWhileSeeding'
      <3>1. ASSUME UNCHANGED <<admin, panel, seed, decided, overtaken>>
            PROVE  DecisionsStand' /\ MannedWhileSeeding'
        BY <1>1, <3>1 DEF DecisionsStand, MannedWhileSeeding, Manned, SomeSuperAdmin
      <3>2. ASSUME NEW kind \in Kinds, NEW self \in Ids, NEW target \in Ids,
                   Admit(w, kind, self, target)
            PROVE  DecisionsStand' /\ JobsNeedThePanel' /\ AllKnow' /\ MannedWhileSeeding'
        <4>1. UNCHANGED <<admin, panel, seed, decided, overtaken>>
          BY <3>2 DEF Admit
        <4> QED
          BY <1>1, <3>1, <3>2, <4>1, AdmitKnows
      <3>3. CASE FindStep(w)
        <4>1. UNCHANGED <<admin, panel, seed, decided, overtaken>>
          BY <3>3 DEF FindStep, FindUpdate, FindDelete, FindPassword, Check
        <4> QED
          BY <1>1, <3>1, <3>3, <4>1, FindKnows
      <3>4. CASE WriteStep(w)
        <4>1. JobKnows(job[w])
          BY <1>1 DEF AllKnow
        <4> QED
          BY <1>1, <3>4, <4>1, WriteKnows, WriteStands, WriteManned
      <3> QED
        BY <2>3, <3>2, <3>3, <3>4, RequestCases
    <2> QED
      BY <2>1, <2>2, <2>3 DEF Next
  <1> QED
    BY <1>2, <1>3 DEF AdminsInv, AllKnow

(* Every variable keeps to its domain (admin.go, admin_seed.go,            *)
(* auth.go).                                                               *)
THEOREM AdminTypes == Spec => []TypeOK
  <1>1. Init => TypeOK
    BY InitType
  <1> QED
    BY <1>1, StepType, PTL DEF Spec

(* admin.go: whatever requests run at once and wherever the panel stops,   *)
(* every account is as the last successful requests wanted it, unless a    *)
(* save of a whole row was overtaken.                                      *)
THEOREM DecisionsAlwaysStand == Spec => []DecisionsStand
  <1>1. AdminsInv => DecisionsStand
    BY DEF AdminsInv
  <1> QED
    BY <1>1, InitAdmins, NextAdmins, PTL DEF Spec

(* admin.go, ensureNotLastSuperAdmin and SeedFromConfig: where the first   *)
(* configured account is whole, a table with accounts has an enabled super *)
(* administrator, unless a save or a deletion was overtaken.               *)
THEOREM SuperAdminAlwaysLeft ==
  ASSUME FirstSeedIsWhole
  PROVE  Spec => []SomeSuperAdminLeft
  <1>1. AdminsInv => SomeSuperAdminLeft
    BY DEF AdminsInv, MannedWhileSeeding, SomeSuperAdminLeft
  <1> QED
    BY <1>1, InitAdmins, NextAdmins, PTL DEF Spec
=============================================================================
