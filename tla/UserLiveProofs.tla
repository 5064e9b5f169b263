--------------------------- MODULE UserLiveProofs ---------------------------
(***************************************************************************)
(* Proofs about UserLive, for any users, nodes, workers and bounds.        *)
(***************************************************************************)
EXTENDS UserLive, TLAPS

LiveTypes == TypeOK /\ mode \in Modes

InPass  == {"next", "upload", "grpc", "record", "mark"}

(* A worker between a pass's nodes has the pass at hand.                   *)
PassAtHand == \A p \in Workers : job[p].pc \in InPass => job[p].passes # <<>>

(* Requests that take turns: one of any two workers is idle.               *)
TurnsAreTaken ==
    ~mode.together => \A p, q \in Workers :
        p # q => job[p].pc = "idle" \/ job[q].pc = "idle"

-----------------------------------------------------------------------------
(* The swept mark.  It takes instances in which overlapping requests       *)
(* neither renew nor save a row read before.                               *)

SweepMode(m) == m.together => "renew" \notin m.requests /\ "regroup" \notin m.requests

InSweep(j, u) == u = j.u \/ \E s \in j.sweep : s[1] = u

MarksFit ==
    /\ \A u \in Users : user[u].swept => user[u].expiry = "past"
    /\ \A u \in Users : user[u].state = "none" => user[u].expiry # "past"
    /\ \A p \in Workers :
          /\ job[p].seen.swept => job[p].seen.expiry = "past"
          /\ job[p].pc = "write" => job[p].kind \in mode.requests /\ There(job[p].seen)
    /\ job[Sweeper].pc # "idle" => \A u \in Users :
           InSweep(job[Sweeper], u) => user[u].expiry = "past" \/ user[u].state = "gone"

-----------------------------------------------------------------------------
(* The files.  They are current in instances where time and administrators *)
(* leave nodes and expiries alone, and overlapping requests save no row    *)
(* they read before, nor change what a concurrent one does not look at.    *)

FilesMode(m) ==
    /\ m.limit["node"] = 0 /\ m.limit["expire"] = 0
    /\ m.together => m.requests \subseteq {"create", "delete", "toggle", "sync"}

(* What is generated for node n from the tables b and U.                   *)
Generated(b, U, n) ==
    [base |-> b,
     users |-> {<<u, U[u].uuid>> : u \in {v \in Users : Effective(U[v]) /\ n \in U[v].on}}]

(* The nodes of some passes, and those a worker has still to come to.      *)
Reach(ps) == UNION {ps[i].on : i \in DOMAIN ps}

Holding == {"upload", "grpc", "record", "push", "pushed"}

Future(j, U) ==
    IF j.pc = "plan" THEN Reach(PassesOf(j, U[j.u], Nodes))
    ELSE IF j.pc = "rows" THEN Reach(j.passes)
    ELSE IF j.pc \in InPass THEN j.todo \cup Reach(Tail(j.passes))
    ELSE {}

Owed(J, U, n) == \E p \in Workers : n \in Future(J[p], U)

(* Its next step writes the file or the status of the node.                *)
Direct(j, n) == \/ j.pc = "editMark"
                \/ j.at = n /\ j.pc \in {"upload", "push", "mark"}

JobFits(p) ==
    LET j == job[p]
        r == user[j.u]
    IN /\ j.pc # "idle" => p # Sweeper
       /\ j.seen.expiry # "past"
       /\ j.pc = "write" =>
              /\ j.kind \in mode.requests
              /\ There(j.seen) /\ j.old = j.seen.on /\ r.state # "none"
              /\ There(r) => r.on = j.seen.on
              /\ ~mode.together => r = j.seen
       /\ j.pc = "plan" /\ mode.together => j.kind \in {"create", "delete", "toggle"}
       /\ j.pc = "editMark" => ~mode.together

LocksFit == \A p \in Workers : job[p].pc \in Holding => lock[job[p].at] = p

(* The configuration a worker holds is the one it would generate now, or   *)
(* somebody is still to come; once uploaded it is what the file holds.     *)
HeldFits ==
    \A p \in Workers :
        /\ job[p].pc \in Holding => \/ job[p].cfg = Generated(base, user, job[p].at)
                                    \/ Owed(job, user, job[p].at)
        /\ job[p].pc \in {"grpc", "record", "pushed"} => disk[job[p].at] = job[p].cfg

(* A stale file of a node that shows synced is somebody's business.        *)
StaleIsOwed ==
    \A n \in Nodes :
        node[n].status = "synced" /\ disk[n] # Generated(base, user, n) =>
            Owed(job, user, n) \/ \E p \in Workers : Direct(job[p], n)

Alive == /\ \A n \in Nodes : node[n].active
         /\ \A u \in Users : user[u].expiry # "past"
         /\ \A p \in Workers : JobFits(p)
         /\ LocksFit /\ HeldFits /\ StaleIsOwed

FilesInv == NeverCrashed => Alive

-----------------------------------------------------------------------------
(* Rows, passes and jobs.                                                  *)

LEMMA AnyParts == AnyUser \in Users /\ AnyNode \in Nodes
  BY UserLiveAssumption DEF AnyUser, AnyNode

LEMMA WorkerParts == Sweeper \in Workers /\ Procs \subseteq Workers /\ Nobody \notin Workers
  BY UserLiveAssumption DEF Workers

LEMMA RowTypes ==
  /\ Absent \in User /\ Gone \in User /\ Member \in User
  /\ NoConfig \in Config
  BY DEF Absent, Gone, Member, User, Uuids, NoConfig, Config, Versions

LEMMA UserParts ==
  ASSUME NEW r \in User
  PROVE  /\ r.state \in {"none", "there", "gone"} /\ r.active \in BOOLEAN
         /\ r.swept \in BOOLEAN /\ r.uuid \in Nat
         /\ r.expiry \in {"never", "ahead", "past"} /\ r.on \subseteq Nodes
  BY DEF User, Uuids

LEMMA JobParts ==
  ASSUME NEW j \in Job
  PROVE  /\ j.u \in Users /\ j.seen \in User /\ j.old \subseteq Nodes
         /\ j.passes \in Seq(Pass) /\ j.rows \subseteq Nodes /\ j.todo \subseteq Nodes
         /\ j.at \in Nodes /\ j.cfg \in Config /\ j.fresh \in Nat
         /\ j.sweep \subseteq Users \X User /\ j.kind \in AllRequests \cup {"sweep"}
  BY DEF Job, Uuids

LEMMA IdleType == Idle \in Job /\ Idle.pc = "idle" /\ Idle.seen = Absent /\ Idle.passes = <<>>
  <1>1. <<>> \in Seq(Pass)
    OBVIOUS
  <1> QED
    BY <1>1, AnyParts, RowTypes DEF Idle, Job, AllRequests, Uuids

(* Over makes at most one pass, over the nodes it is given.                *)
LEMMA OverParts ==
  ASSUME NEW verb \in {"add", "remove", "replace"}, NEW uuid \in Nat, NEW S \in SUBSET Nodes
  PROVE  Over(verb, uuid, S) \in Seq(Pass) /\ Reach(Over(verb, uuid, S)) = S
  <1>1. CASE S = {}
    BY <1>1 DEF Over, Reach
  <1>2. CASE S # {}
    <2> DEFINE q == [verb |-> verb, uuid |-> uuid, on |-> S]
    <2>1. q \in Pass /\ q.on = S
      BY DEF Pass, Uuids
    <2>2. Over(verb, uuid, S) = <<q>>
      BY <1>2 DEF Over
    <2> HIDE DEF q
    <2>3. <<q>> \in Seq(Pass) /\ DOMAIN <<q>> = {1} /\ <<q>>[1] = q
      BY <2>1
    <2>4. Reach(<<q>>) = S
      BY <2>1, <2>3 DEF Reach
    <2> QED
      BY <2>2, <2>3, <2>4
  <1> QED
    BY <1>1, <1>2

LEMMA PassesTwice ==
  ASSUME NEW s \in Seq(Pass), NEW t \in Seq(Pass)
  PROVE  s \o t \in Seq(Pass) /\ Reach(s \o t) = Reach(s) \cup Reach(t)
  <1>1. /\ s \o t \in Seq(Pass) /\ Len(s) \in Nat /\ Len(t) \in Nat
        /\ DOMAIN (s \o t) = 1 .. (Len(s) + Len(t))
        /\ DOMAIN s = 1 .. Len(s) /\ DOMAIN t = 1 .. Len(t)
        /\ \A i \in 1 .. Len(s) : (s \o t)[i] = s[i]
        /\ \A i \in 1 .. Len(t) : (s \o t)[i + Len(s)] = t[i]
    OBVIOUS
  <1>2. \A i \in 1 .. (Len(s) + Len(t)) :
           i \in 1 .. Len(s) \/ (i - Len(s) \in 1 .. Len(t) /\ (i - Len(s)) + Len(s) = i)
    BY <1>1
  <1>3. \A i \in 1 .. Len(t) : i + Len(s) \in 1 .. (Len(s) + Len(t))
    BY <1>1
  <1>4. \A i \in 1 .. Len(s) : i \in 1 .. (Len(s) + Len(t))
    BY <1>1
  <1>5. ASSUME NEW n, n \in Reach(s \o t) PROVE n \in Reach(s) \cup Reach(t)
    <2>1. PICK i \in 1 .. (Len(s) + Len(t)) : n \in (s \o t)[i].on
      BY <1>1, <1>5 DEF Reach
    <2>2. CASE i \in 1 .. Len(s)
      BY <1>1, <2>1, <2>2 DEF Reach
    <2>3. CASE i - Len(s) \in 1 .. Len(t) /\ (i - Len(s)) + Len(s) = i
      BY <1>1, <2>1, <2>3, SMTT(30) DEF Reach
    <2> QED
      BY <1>2, <2>2, <2>3
  <1>6. ASSUME NEW n, n \in Reach(s) \cup Reach(t) PROVE n \in Reach(s \o t)
    <2>1. CASE n \in Reach(s)
      <3>1. PICK i \in 1 .. Len(s) : n \in s[i].on
        BY <1>1, <2>1 DEF Reach
      <3> QED
        BY <1>1, <1>4, <3>1 DEF Reach
    <2>2. CASE n \in Reach(t)
      <3>1. PICK i \in 1 .. Len(t) : n \in t[i].on
        BY <1>1, <2>2 DEF Reach
      <3>2. n \in (s \o t)[i + Len(s)].on
        BY <1>1, <3>1
      <3> QED
        BY <1>1, <1>3, <3>1, <3>2 DEF Reach
    <2> QED
      BY <1>6, <2>1, <2>2
  <1> QED
    BY <1>1, <1>5, <1>6

(* The first pass and the rest.                                            *)
LEMMA PassesSplit ==
  ASSUME NEW s \in Seq(Pass), s # <<>>
  PROVE  /\ Head(s) \in Pass /\ Tail(s) \in Seq(Pass)
         /\ Head(s).on \subseteq Nodes /\ Reach(s) = Head(s).on \cup Reach(Tail(s))
  <1>1. /\ Head(s) \in Pass /\ Tail(s) \in Seq(Pass) /\ Len(s) \in Nat /\ Len(s) >= 1
        /\ DOMAIN s = 1 .. Len(s) /\ DOMAIN Tail(s) = 1 .. (Len(s) - 1)
        /\ Head(s) = s[1]
        /\ \A i \in 1 .. (Len(s) - 1) : Tail(s)[i] = s[i + 1]
    OBVIOUS
  <1>2. \A i \in 1 .. Len(s) : i = 1 \/ (i - 1 \in 1 .. (Len(s) - 1) /\ (i - 1) + 1 = i)
    BY <1>1
  <1>3. \A i \in 1 .. (Len(s) - 1) : i + 1 \in 1 .. Len(s)
    BY <1>1
  <1>4. 1 \in 1 .. Len(s)
    BY <1>1
  <1>5. ASSUME NEW n, n \in Reach(s) PROVE n \in Head(s).on \cup Reach(Tail(s))
    <2>1. PICK i \in 1 .. Len(s) : n \in s[i].on
      BY <1>1, <1>5 DEF Reach
    <2>2. CASE i = 1
      BY <1>1, <2>1, <2>2
    <2>3. CASE i - 1 \in 1 .. (Len(s) - 1) /\ (i - 1) + 1 = i
      BY <1>1, <2>1, <2>3, ZenonT(40) DEF Reach
    <2> QED
      BY <1>2, <2>2, <2>3
  <1>6. ASSUME NEW n, n \in Head(s).on \cup Reach(Tail(s)) PROVE n \in Reach(s)
    <2>1. CASE n \in Head(s).on
      BY <1>1, <1>4, <2>1 DEF Reach
    <2>2. CASE n \in Reach(Tail(s))
      <3>1. PICK i \in 1 .. (Len(s) - 1) : n \in Tail(s)[i].on
        BY <1>1, <2>2 DEF Reach
      <3> QED
        BY <1>1, <1>3, <3>1 DEF Reach
    <2> QED
      BY <1>6, <2>1, <2>2
  <1>7. Head(s).on \subseteq Nodes
    BY <1>1 DEF Pass
  <1> QED
    BY <1>1, <1>5, <1>6, <1>7

LEMMA NoReach == Reach(<<>>) = {}
  BY DEF Reach

(* What each kind of request plans.                                        *)
LEMMA PassesParts ==
  ASSUME NEW j \in Job, NEW now \in User, NEW A \in SUBSET Nodes
  PROVE  /\ PassesOf(j, now, A) \in Seq(Pass)
         /\ j.kind = "create" => Reach(PassesOf(j, now, A)) =
                IF Effective(now) THEN now.on \cap A ELSE {}
         /\ j.kind = "delete" => Reach(PassesOf(j, now, A)) = j.old
         /\ j.kind = "toggle" => Reach(PassesOf(j, now, A)) =
                IF ~j.seen.active /\ Lapsed(j.seen, now) THEN {} ELSE j.seen.on \cap A
         /\ j.kind = "reset" => Reach(PassesOf(j, now, A)) =
                IF j.seen.active /\ ~Lapsed(j.seen, now) THEN j.seen.on \cap A ELSE {}
         /\ j.kind \notin {"create", "delete", "toggle", "reset"} =>
                \A n \in Nodes : n \in Reach(PassesOf(j, now, A)) <=>
                    ~((Effective(j.seen) /\ n \in j.old)
                         <=> (Effective(now) /\ n \in now.on \cap A))
  <1> DEFINE seenNodes == j.seen.on \cap A
             before == IF Effective(j.seen) THEN j.old ELSE {}
             after == IF Effective(now) THEN now.on \cap A ELSE {}
             P == PassesOf(j, now, A)
  <1>1. /\ seenNodes \in SUBSET Nodes /\ before \in SUBSET Nodes /\ after \in SUBSET Nodes
        /\ j.old \in SUBSET Nodes /\ {} \in SUBSET Nodes
        /\ now.uuid \in Nat /\ j.seen.uuid \in Nat /\ 0 \in Nat /\ j.seen.active \in BOOLEAN
    BY JobParts, UserParts
  <1>2. CASE j.kind = "create"
    <2>1. P = Over("add", now.uuid, after)
      BY <1>2 DEF PassesOf
    <2> QED
      BY <1>1, <1>2, <2>1, OverParts
  <1>3. CASE j.kind = "delete"
    <2>1. P = Over("remove", 0, j.old)
      BY <1>3 DEF PassesOf
    <2> QED
      BY <1>1, <1>3, <2>1, OverParts
  <1>4. CASE j.kind = "toggle" /\ j.seen.active
    <2>1. P = Over("remove", 0, seenNodes)
      BY <1>4 DEF PassesOf
    <2> QED
      BY <1>1, <1>4, <2>1, OverParts
  <1>5. CASE j.kind = "toggle" /\ ~j.seen.active
    <2> DEFINE S == IF Lapsed(j.seen, now) THEN {} ELSE seenNodes
    <2>1. P = Over("add", j.seen.uuid, S)
      BY <1>5 DEF PassesOf
    <2>2. S \in SUBSET Nodes
      BY <1>1
    <2> HIDE DEF P
    <2>3. P \in Seq(Pass) /\ Reach(P) = S
      BY <1>1, <2>1, <2>2, OverParts
    <2> QED
      BY <1>5, <2>3 DEF P
  <1>6. CASE j.kind = "reset"
    <2> DEFINE S == IF j.seen.active /\ ~Lapsed(j.seen, now) THEN seenNodes ELSE {}
    <2>1. P = Over("replace", j.seen.uuid, S)
      BY <1>6 DEF PassesOf
    <2>2. S \in SUBSET Nodes
      BY <1>1
    <2> HIDE DEF P
    <2>3. P \in Seq(Pass) /\ Reach(P) = S
      BY <1>1, <2>1, <2>2, OverParts
    <2> QED
      BY <1>6, <2>3 DEF P
  <1>7. CASE j.kind \notin {"create", "delete", "toggle", "reset"}
    <2>1. P = Over("add", now.uuid, after \ before) \o Over("remove", 0, before \ after)
      BY <1>7 DEF PassesOf
    <2>2. after \ before \in SUBSET Nodes /\ before \ after \in SUBSET Nodes
      BY <1>1
    <2> HIDE DEF P, before, after
    <2>3. /\ Over("add", now.uuid, after \ before) \in Seq(Pass)
          /\ Over("remove", 0, before \ after) \in Seq(Pass)
          /\ Reach(Over("add", now.uuid, after \ before)) = after \ before
          /\ Reach(Over("remove", 0, before \ after)) = before \ after
      BY <1>1, <2>2, OverParts
    <2>4. P \in Seq(Pass) /\ Reach(P) = (after \ before) \cup (before \ after)
      BY <2>1, <2>3, PassesTwice
    <2>5. \A n \in Nodes : n \in Reach(P) <=> ~(n \in before <=> n \in after)
      BY <2>4
    <2> QED
      BY <1>7, <2>4, <2>5 DEF P, before, after
  <1> QED
    BY <1>1, <1>2, <1>3, <1>4, <1>5, <1>6, <1>7
-----------------------------------------------------------------------------
(* Types.                                                                  *)

Stages == {"idle", "write", "plan", "rows", "next", "upload", "grpc", "record", "mark",
           "push", "pushed", "editMark", "sweep"}

LEMMA StageType ==
  ASSUME NEW j \in Job, NEW pc \in Stages
  PROVE  LET k == [j EXCEPT !.pc = pc]
         IN /\ k \in Job /\ k.pc = pc /\ k.kind = j.kind /\ k.u = j.u /\ k.seen = j.seen
            /\ k.old = j.old /\ k.passes = j.passes /\ k.rows = j.rows /\ k.todo = j.todo
            /\ k.at = j.at /\ k.cfg = j.cfg /\ k.fresh = j.fresh /\ k.sweep = j.sweep
  BY DEF Job, Stages

LEMMA SetParts ==
  ASSUME LiveTypes, NEW p \in Workers, NEW next \in Job, Set(p, next)
  PROVE  /\ job' \in [Workers -> Job] /\ job'[p] = next
         /\ \A q \in Workers : q # p => job'[q] = job[q]
  BY DEF LiveTypes, TypeOK, Set

LEMMA GotoParts ==
  ASSUME LiveTypes, NEW p \in Workers, NEW pc \in Stages, Goto(p, pc)
  PROVE  /\ job' \in [Workers -> Job] /\ job'[p] = [job[p] EXCEPT !.pc = pc]
         /\ \A q \in Workers : q # p => job'[q] = job[q]
  <1>1. [job[p] EXCEPT !.pc = pc] \in Job
    BY StageType DEF LiveTypes, TypeOK
  <1> QED
    BY <1>1, SetParts DEF Goto

LEMMA SpendType ==
  ASSUME LiveTypes, NEW e \in Events, Spend(e)
  PROVE  /\ used' \in [Events -> Nat] /\ used'[e] = used[e] + 1
         /\ \A f \in Events : f # e => used'[f] = used[f]
         /\ mode.limit[e] # 0
  <1>1. used[e] \in Nat /\ mode.limit[e] \in Nat
    BY UserLiveAssumption DEF LiveTypes, TypeOK
  <1> QED
    BY <1>1 DEF LiveTypes, TypeOK, Spend

LEMMA DesiredParts ==
  ASSUME LiveTypes, NEW n \in Nodes
  PROVE  Desired(n) \in Config /\ Desired(n) = Generated(base, user, n)
  <1>1. base \in Nat /\ \A u \in Users : user[u] \in User /\ user[u].uuid \in Nat
    BY DEF LiveTypes, TypeOK, Versions, User, Uuids
  <1>2. {<<u, user[u].uuid>> : u \in {v \in Users : Effective(user[v]) /\ n \in user[v].on}}
            \in SUBSET Accounts
    BY <1>1 DEF Accounts, Uuids
  <1>3. Desired(n) = Generated(base, user, n)
    BY DEF Desired, Generated
  <1>4. Desired(n) \in Config
    BY <1>1, <1>2 DEF Desired, Config, Versions
  <1> QED
    BY <1>3, <1>4

LEMMA InitTypes == Init => LiveTypes
  <1> SUFFICES ASSUME Init PROVE LiveTypes
    OBVIOUS
  <1>1. user \in [Users -> User] /\ base \in Versions
    BY RowTypes DEF Init, Versions
  <1>2. \A n \in Nodes : Desired(n) \in Config
    <2> SUFFICES ASSUME NEW n \in Nodes PROVE Desired(n) \in Config
      OBVIOUS
    <2>1. {<<u, user[u].uuid>> : u \in {v \in Users : Effective(user[v]) /\ n \in user[v].on}}
            \in SUBSET Accounts
      BY <1>1, UserParts DEF Accounts, Uuids
    <2> QED
      BY <1>1, <2>1 DEF Desired, Config
  <1> HIDE DEF Desired
  <1>3. node \in [Nodes -> Row]
    BY <1>2 DEF Init, Row
  <1>4. disk \in [Nodes -> Config] /\ run \in [Nodes -> Config]
    BY <1>2 DEF Init
  <1>5. job \in [Workers -> Job] /\ lock \in [Nodes -> Workers \cup {Nobody}]
    BY IdleType DEF Init
  <1>6. used \in [Events -> Nat] /\ mode \in Modes
    BY DEF Init
  <1> QED
    BY <1>1, <1>3, <1>4, <1>5, <1>6 DEF LiveTypes, TypeOK

LEMMA FreshType ==
  ASSUME LiveTypes, Spend("request")
  PROVE  used' \in [Events -> Nat] /\ used'["request"] \in Nat
  BY SpendType DEF Events

LEMMA CreateParts ==
  ASSUME LiveTypes, NEW p \in Procs, NEW u \in Users, NEW S \in SUBSET Nodes, Create(p, u, S)
  PROVE  /\ LiveTypes'
         /\ \E r \in User : /\ user' = [user EXCEPT ![u] = r] /\ r.state = "there"
                            /\ r.expiry = "ahead" /\ ~r.swept /\ r.on = S /\ r.active
         /\ job'[p].pc = "plan" /\ job'[p].kind = "create" /\ job'[p].u = u
         /\ job'[p].seen = Absent
         /\ \A q \in Workers : q # p => job'[q] = job[q]
         /\ "create" \in mode.requests /\ user[u].state = "none" /\ job[p].pc = "idle"
         /\ MyTurn /\ used'["crash"] = used["crash"]
         /\ UNCHANGED <<mode, base, node, disk, run, lock>>
  <1> DEFINE r == [Member EXCEPT !.uuid = used'["request"], !.on = S]
             next == [Idle EXCEPT !.pc = "plan", !.kind = "create", !.u = u]
  <1>1. used' \in [Events -> Nat] /\ used'["request"] \in Nat
    BY FreshType DEF Create
  <1>2. r \in User /\ r.state = "there" /\ r.expiry = "ahead" /\ ~r.swept /\ r.on = S /\ r.active
    BY <1>1 DEF Member, User, Uuids
  <1>3. /\ next \in Job /\ next.pc = "plan" /\ next.kind = "create" /\ next.u = u
        /\ next.seen = Absent
    BY IdleType DEF Job, AllRequests
  <1>4. /\ user' = [user EXCEPT ![u] = r] /\ Set(p, next)
        /\ UNCHANGED <<mode, base, node, disk, run, lock>>
    BY DEF Create, hosts
  <1> HIDE DEF r, next
  <1>5. p \in Workers
    BY WorkerParts
  <1>6. /\ job' \in [Workers -> Job] /\ job'[p] = next
        /\ \A q \in Workers : q # p => job'[q] = job[q]
    BY <1>3, <1>4, <1>5, SetParts
  <1>7. user' \in [Users -> User]
    BY <1>2, <1>4 DEF LiveTypes, TypeOK
  <1>8. LiveTypes'
    BY <1>1, <1>4, <1>6, <1>7 DEF LiveTypes, TypeOK
  <1>9. /\ "create" \in mode.requests /\ user[u].state = "none" /\ job[p].pc = "idle"
        /\ MyTurn /\ used'["crash"] = used["crash"]
    BY SpendType DEF Create, Events
  <1> QED
    BY <1>2, <1>3, <1>4, <1>6, <1>8, <1>9

LEMMA ReadParts ==
  ASSUME LiveTypes, NEW p \in Procs, NEW u \in Users,
         NEW kind \in {"delete", "toggle", "reset", "regroup", "renew"}, Read(p, kind, u)
  PROVE  /\ LiveTypes'
         /\ kind \in mode.requests /\ There(user[u]) /\ job[p].pc = "idle" /\ MyTurn
         /\ job'[p].pc = "write" /\ job'[p].kind = kind /\ job'[p].u = u
         /\ job'[p].seen = user[u] /\ job'[p].old = user[u].on \cap ActiveNodes
         /\ \A q \in Workers : q # p => job'[q] = job[q]
         /\ used'["crash"] = used["crash"]
         /\ UNCHANGED <<mode, user, base, node, disk, run, lock>>
  <1> DEFINE next == [Idle EXCEPT !.pc = "write", !.kind = kind, !.u = u,
                           !.seen = user[u], !.old = user[u].on \cap ActiveNodes,
                           !.fresh = used'["request"]]
  <1>1. used' \in [Events -> Nat] /\ used'["request"] \in Nat
    BY FreshType DEF Read
  <1>2. user[u] \in User /\ user[u].on \cap ActiveNodes \subseteq Nodes
    BY UserParts DEF LiveTypes, TypeOK
  <1>3. /\ next \in Job /\ next.pc = "write" /\ next.kind = kind /\ next.u = u
        /\ next.seen = user[u] /\ next.old = user[u].on \cap ActiveNodes
    BY <1>1, <1>2, IdleType DEF Job, AllRequests, Uuids
  <1>4. /\ Set(p, next) /\ UNCHANGED <<mode, user, base, node, disk, run, lock>>
        /\ kind \in mode.requests /\ There(user[u]) /\ job[p].pc = "idle" /\ MyTurn
    BY DEF Read, hosts, tables
  <1> HIDE DEF next
  <1>5. /\ job' \in [Workers -> Job] /\ job'[p] = next
        /\ \A q \in Workers : q # p => job'[q] = job[q]
    BY <1>3, <1>4, WorkerParts, SetParts
  <1>6. LiveTypes'
    BY <1>1, <1>4, <1>5 DEF LiveTypes, TypeOK
  <1>7. used'["crash"] = used["crash"]
    BY SpendType DEF Read, Events
  <1> QED
    BY <1>3, <1>4, <1>5, <1>6, <1>7

(* The row that a request writes.                                          *)
Written(p, r) ==
    LET u == job[p].u
    IN \/ job[p].kind = "delete" /\ r = Gone
       \/ /\ job[p].kind = "toggle"
          /\ r = IF There(user[u]) THEN [user[u] EXCEPT !.active = ~job[p].seen.active]
                 ELSE user[u]
       \/ /\ job[p].kind = "reset"
          /\ r = IF There(user[u]) THEN [user[u] EXCEPT !.uuid = job[p].fresh] ELSE user[u]
       \/ /\ job[p].kind = "regroup"
          /\ \E S \in SUBSET Nodes :
                r = [job[p].seen EXCEPT !.on = S,
                        !.expiry = IF Lapsed(job[p].seen, user[u]) THEN "past" ELSE @]
       \/ /\ job[p].kind = "renew"
          /\ r = [job[p].seen EXCEPT !.expiry = "ahead", !.swept = FALSE,
                                    !.on = @ \cup user[u].on]

WriteStep(p) ==
    \/ Delete(p) \/ ToggleActive(p) \/ ResetUUID(p) \/ Renew(p)
    \/ \E S \in SUBSET Nodes : Regroup(p, S)

LEMMA WrittenType ==
  ASSUME LiveTypes, NEW p \in Procs, NEW r, Written(p, r)
  PROVE  r \in User
  <1>1. /\ job[p] \in Job /\ job[p].u \in Users /\ job[p].seen \in User /\ job[p].fresh \in Nat
        /\ user[job[p].u] \in User
    BY WorkerParts, JobParts DEF LiveTypes, TypeOK
  <1>2. job[p].seen.active \in BOOLEAN /\ user[job[p].u].on \subseteq Nodes
    BY <1>1, UserParts
  <1>3. CASE r = Gone
    BY <1>3, RowTypes
  <1>4. CASE r = user[job[p].u]
    BY <1>1, <1>4
  <1>5. CASE r = [user[job[p].u] EXCEPT !.active = ~job[p].seen.active]
    BY <1>1, <1>2, <1>5 DEF User
  <1>6. CASE r = [user[job[p].u] EXCEPT !.uuid = job[p].fresh]
    BY <1>1, <1>6 DEF User, Uuids
  <1>7. ASSUME NEW S \in SUBSET Nodes, NEW e \in {"never", "ahead", "past"},
               r = [job[p].seen EXCEPT !.on = S, !.expiry = e]
        PROVE  r \in User
    BY <1>1, <1>7 DEF User
  <1>8. CASE r = [job[p].seen EXCEPT !.expiry = "ahead", !.swept = FALSE,
                                    !.on = @ \cup user[job[p].u].on]
    BY <1>1, <1>2, <1>8 DEF User
  <1>9. CASE \E S \in SUBSET Nodes :
                r = [job[p].seen EXCEPT !.on = S,
                        !.expiry = IF Lapsed(job[p].seen, user[job[p].u]) THEN "past" ELSE @]
    <2>1. PICK S \in SUBSET Nodes :
             r = [job[p].seen EXCEPT !.on = S,
                     !.expiry = IF Lapsed(job[p].seen, user[job[p].u]) THEN "past"
                                ELSE job[p].seen.expiry]
      BY <1>9
    <2>2. job[p].seen.expiry \in {"never", "ahead", "past"}
      BY <1>1, UserParts
    <2>3. CASE Lapsed(job[p].seen, user[job[p].u])
      BY <1>7, <2>1, <2>3
    <2>4. CASE ~Lapsed(job[p].seen, user[job[p].u])
      BY <1>7, <2>1, <2>2, <2>4
    <2> QED
      BY <2>3, <2>4
  <1> QED
    BY <1>3, <1>4, <1>5, <1>6, <1>8, <1>9 DEF Written

LEMMA FreshUuid ==
  ASSUME NEW r \in User, NEW id \in Nat
  PROVE  LET f == [r EXCEPT !.uuid = id]
         IN /\ f \in User /\ f.active = r.active /\ f.on = r.on /\ f.state = r.state
            /\ f.expiry = r.expiry /\ f.swept = r.swept /\ f.uuid = id
  BY DEF User, Uuids

LEMMA WriteParts ==
  ASSUME LiveTypes, NEW p \in Procs, WriteStep(p)
  PROVE  /\ LiveTypes' /\ job[p].pc = "write" /\ job[p].u \in Users
         /\ \E r \in User : Written(p, r) /\ user' = [user EXCEPT ![job[p].u] = r]
         /\ job'[p].pc = "plan" /\ job'[p].kind = job[p].kind /\ job'[p].u = job[p].u
         /\ job'[p].old = job[p].old /\ job'[p].seen \in User
         /\ job'[p].seen.active = job[p].seen.active
         /\ job'[p].seen.on = job[p].seen.on /\ job'[p].seen.state = job[p].seen.state
         /\ job'[p].seen.expiry = job[p].seen.expiry
         /\ job'[p].seen.swept = job[p].seen.swept
         /\ job[p].kind # "reset" => job'[p].seen = job[p].seen
         /\ job[p].kind = "reset" => job'[p].seen.uuid = job[p].fresh
         /\ \A q \in Workers : q # p => job'[q] = job[q]
         /\ UNCHANGED <<mode, base, node, disk, run, lock, used>>
  <1>1. p \in Workers /\ job[p] \in Job /\ job[p].seen \in User /\ job[p].fresh \in Nat
        /\ job[p].u \in Users
    BY WorkerParts, JobParts DEF LiveTypes, TypeOK
  <1> DEFINE plain == [job[p] EXCEPT !.pc = "plan"]
             fresh == [job[p] EXCEPT !.pc = "plan", !.seen.uuid = job[p].fresh]
  <1>2. /\ plain \in Job /\ plain.pc = "plan" /\ plain.kind = job[p].kind
        /\ plain.u = job[p].u /\ plain.old = job[p].old /\ plain.seen = job[p].seen
    BY <1>1, StageType, ZenonT(80) DEF Stages
  <1>3. /\ fresh \in Job /\ fresh.pc = "plan" /\ fresh.kind = job[p].kind
        /\ fresh.u = job[p].u /\ fresh.old = job[p].old
        /\ fresh.seen = [job[p].seen EXCEPT !.uuid = job[p].fresh]
    <2>1. [job[p].seen EXCEPT !.uuid = job[p].fresh] \in User
      BY <1>1 DEF User, Uuids
    <2> QED
      BY <1>1, <2>1 DEF Job
  <1> HIDE DEF plain, fresh
  <1>4. /\ fresh.seen \in User /\ fresh.seen.active = job[p].seen.active
        /\ fresh.seen.on = job[p].seen.on /\ fresh.seen.state = job[p].seen.state
        /\ fresh.seen.expiry = job[p].seen.expiry /\ fresh.seen.swept = job[p].seen.swept
        /\ fresh.seen.uuid = job[p].fresh
    BY <1>1, <1>3, FreshUuid
  <1>5. \E r : /\ Written(p, r) /\ Write(p, r)
               /\ \/ job[p].kind # "reset" /\ Set(p, plain)
                  \/ Set(p, fresh)
    <2>1. CASE Delete(p)
      BY <2>1 DEF Delete, Written, Goto, plain
    <2>2. CASE ToggleActive(p)
      BY <2>2 DEF ToggleActive, Written, Goto, plain
    <2>3. CASE ResetUUID(p)
      BY <2>3 DEF ResetUUID, Written, fresh
    <2>4. CASE Renew(p)
      BY <2>4 DEF Renew, Written, Goto, plain
    <2>5. ASSUME NEW S \in SUBSET Nodes, Regroup(p, S)
          PROVE  \E r : Written(p, r) /\ Write(p, r) /\ job[p].kind # "reset" /\ Set(p, plain)
      BY <2>5 DEF Regroup, Written, Goto, plain
    <2> QED
      BY <2>1, <2>2, <2>3, <2>4, <2>5 DEF WriteStep
  <1>6. PICK r : /\ Written(p, r) /\ Write(p, r)
                 /\ \/ job[p].kind # "reset" /\ Set(p, plain)
                    \/ Set(p, fresh)
    BY <1>5
  <1>7. r \in User
    BY <1>6, WrittenType
  <1>8. /\ job[p].pc = "write" /\ user' = [user EXCEPT ![job[p].u] = r]
        /\ UNCHANGED <<mode, base, node, disk, run, lock, used>>
    BY <1>6 DEF Write, hosts
  <1>9. user' \in [Users -> User]
    BY <1>1, <1>7, <1>8 DEF LiveTypes, TypeOK
  <1>10. /\ job' \in [Workers -> Job] /\ \A q \in Workers : q # p => job'[q] = job[q]
         /\ \/ job[p].kind # "reset" /\ job'[p] = plain
            \/ job'[p] = fresh
    BY <1>1, <1>2, <1>3, <1>6, SetParts
  <1>11. LiveTypes'
    BY <1>8, <1>9, <1>10 DEF LiveTypes, TypeOK
  <1>12. ASSUME job[p].kind # "reset" PROVE Set(p, plain)
    BY <1>12 DEF WriteStep, Delete, ToggleActive, ResetUUID, Renew, Regroup, Goto, plain
  <1>13. job[p].kind # "reset" => job'[p] = plain
    BY <1>1, <1>2, <1>12, SetParts
  <1> QED
    BY <1>1, <1>2, <1>3, <1>4, <1>6, <1>7, <1>8, <1>10, <1>11, <1>13

(* A step of a worker that writes no user: what it has read stays.         *)
Kept(p) ==
    /\ \A q \in Workers : q # p => job'[q] = job[q]
    /\ job'[p].pc # "write" /\ job'[p].seen \in {job[p].seen, Absent}
    /\ \/ job'[p].pc = "idle"
       \/ job[p].pc # "idle" /\ job'[p].u = job[p].u /\ job'[p].sweep = job[p].sweep
       \/ job[p].pc = "idle" /\ MyTurn /\ p # Sweeper
    /\ UNCHANGED <<mode, user>>

LEMMA Typed ==
  ASSUME LiveTypes
  PROVE  /\ \A p \in Workers : /\ job[p] \in Job /\ job[p].at \in Nodes
                               /\ job[p].cfg \in Config /\ job[p].u \in Users
                               /\ job[p].seen \in User /\ job[p].old \subseteq Nodes
                               /\ job[p].passes \in Seq(Pass) /\ job[p].todo \subseteq Nodes
         /\ \A n \in Nodes : node[n] \in Row /\ run[n] \in Config /\ disk[n] \in Config
         /\ \A u \in Users : user[u] \in User
         /\ ActiveNodes \in SUBSET Nodes
         /\ \A n \in Nodes : n \in ActiveNodes <=> node[n].active
  BY JobParts DEF LiveTypes, TypeOK, ActiveNodes

LEMMA NewPasses ==
  ASSUME NEW j \in Job, NEW ps \in Seq(Pass)
  PROVE  LET k == [j EXCEPT !.pc = "rows", !.passes = ps]
         IN /\ k \in Job /\ k.pc = "rows" /\ k.passes = ps /\ k.u = j.u
            /\ k.seen = j.seen /\ k.sweep = j.sweep
  BY DEF Job

LEMMA PlanParts ==
  ASSUME LiveTypes, NEW p \in Workers, Plan(p)
  PROVE  /\ LiveTypes' /\ Kept(p) /\ job[p].pc = "plan" /\ job'[p].pc = "rows"
         /\ job'[p].passes = PassesOf(job[p], user[job[p].u], ActiveNodes)
         /\ UNCHANGED <<mode, user, base, node, disk, run, lock, used>>
  <1> DEFINE ps == PassesOf(job[p], user[job[p].u], ActiveNodes)
             next == [job[p] EXCEPT !.pc = "rows", !.passes = ps]
  <1>1. ps \in Seq(Pass)
    BY Typed, PassesParts
  <1>2. /\ job[p].pc = "plan" /\ Set(p, next)
        /\ UNCHANGED <<mode, user, base, node, disk, run, lock, used>>
    BY DEF Plan, hosts, tables
  <1> HIDE DEF ps
  <1>3. /\ next \in Job /\ next.pc = "rows" /\ next.passes = ps /\ next.u = job[p].u
        /\ next.seen = job[p].seen /\ next.sweep = job[p].sweep
    BY <1>1, Typed, NewPasses
  <1> HIDE DEF next
  <1>4. /\ job' \in [Workers -> Job] /\ job'[p] = next
        /\ \A q \in Workers : q # p => job'[q] = job[q]
    BY <1>2, <1>3, SetParts
  <1>5. LiveTypes'
    BY <1>2, <1>4 DEF LiveTypes, TypeOK
  <1> QED
    BY <1>2, <1>3, <1>4, <1>5 DEF Kept, ps

(* A step that ends in a stage, with everything else a worker knows kept.  *)
LEMMA GotoKept ==
  ASSUME LiveTypes, NEW p \in Workers, NEW pc \in Stages, Goto(p, pc), pc # "write",
         job[p].pc # "idle", UNCHANGED <<mode, user>>
  PROVE  /\ Kept(p) /\ job' \in [Workers -> Job]
         /\ job'[p].pc = pc /\ job'[p].at = job[p].at /\ job'[p].cfg = job[p].cfg
         /\ job'[p].passes = job[p].passes /\ job'[p].todo = job[p].todo
         /\ job'[p].rows = job[p].rows /\ job'[p].seen = job[p].seen
  <1>1. /\ job' \in [Workers -> Job] /\ job'[p] = [job[p] EXCEPT !.pc = pc]
        /\ \A q \in Workers : q # p => job'[q] = job[q]
    BY GotoParts
  <1>2. job[p] \in Job
    BY Typed
  <1>3. /\ job'[p].pc = pc /\ job'[p].at = job[p].at /\ job'[p].cfg = job[p].cfg
        /\ job'[p].passes = job[p].passes /\ job'[p].todo = job[p].todo
        /\ job'[p].rows = job[p].rows /\ job'[p].seen = job[p].seen
        /\ job'[p].u = job[p].u /\ job'[p].sweep = job[p].sweep
    BY <1>1, <1>2, StageType
  <1> QED
    BY <1>1, <1>3 DEF Kept

LEMMA IdleKept ==
  ASSUME LiveTypes, NEW p \in Workers, Set(p, Idle), UNCHANGED <<mode, user>>
  PROVE  /\ Kept(p) /\ job' \in [Workers -> Job] /\ job'[p].pc = "idle"
         /\ job'[p].seen = Absent
  BY SetParts, IdleType DEF Kept

LEMMA ReadRowsParts ==
  ASSUME LiveTypes, NEW p \in Workers, ReadRows(p)
  PROVE  /\ LiveTypes' /\ Kept(p) /\ job[p].pc = "rows"
         /\ UNCHANGED <<mode, user, base, node, disk, run, lock, used>>
         /\ \/ job[p].passes = <<>> /\ job'[p].pc \in {"sweep", "idle"}
            \/ /\ job[p].passes # <<>> /\ job'[p].pc = "next"
               /\ job'[p].todo = Head(job[p].passes).on /\ job'[p].passes = job[p].passes
  <1>1. /\ job[p].pc = "rows" /\ UNCHANGED <<mode, user, base, node, disk, run, lock, used>>
    BY DEF ReadRows, hosts, tables
  <1>2. CASE job[p].passes = <<>> /\ p = Sweeper
    <2>1. Goto(p, "sweep")
      BY <1>2 DEF ReadRows
    <2>2. Kept(p) /\ job' \in [Workers -> Job] /\ job'[p].pc = "sweep"
      BY <1>1, <2>1, GotoKept DEF Stages
    <2> QED
      BY <1>1, <1>2, <2>2 DEF LiveTypes, TypeOK
  <1>3. CASE job[p].passes = <<>> /\ p # Sweeper
    <2>1. Set(p, Idle)
      BY <1>3 DEF ReadRows
    <2>2. Kept(p) /\ job' \in [Workers -> Job] /\ job'[p].pc = "idle"
      BY <1>1, <2>1, IdleKept
    <2> QED
      BY <1>1, <1>3, <2>2 DEF LiveTypes, TypeOK
  <1>4. CASE job[p].passes # <<>>
    <2> DEFINE todo == Head(job[p].passes).on
               rows == {n \in Nodes : node[n].status = "synced"}
               next == [job[p] EXCEPT !.pc = "next", !.todo = todo, !.rows = rows]
    <2>1. Set(p, next)
      BY <1>4 DEF ReadRows
    <2>2. todo \in SUBSET Nodes /\ rows \in SUBSET Nodes
      BY <1>4, Typed, PassesSplit
    <2> HIDE DEF todo, rows
    <2>3. /\ next \in Job /\ next.pc = "next" /\ next.todo = todo /\ next.u = job[p].u
          /\ next.seen = job[p].seen /\ next.sweep = job[p].sweep
          /\ next.passes = job[p].passes
      <3>1. job[p] \in Job
        BY Typed
      <3>2. ASSUME NEW j \in Job
            PROVE  LET k == [j EXCEPT !.pc = "next", !.todo = todo, !.rows = rows]
                   IN /\ k \in Job /\ k.pc = "next" /\ k.todo = todo /\ k.u = j.u
                      /\ k.seen = j.seen /\ k.sweep = j.sweep /\ k.passes = j.passes
        BY <2>2 DEF Job
      <3> QED
        BY <3>1, <3>2
    <2> HIDE DEF next
    <2>4. /\ job' \in [Workers -> Job] /\ job'[p] = next
          /\ \A q \in Workers : q # p => job'[q] = job[q]
      BY <2>1, <2>3, SetParts
    <2>5. LiveTypes'
      BY <1>1, <2>4 DEF LiveTypes, TypeOK
    <2> QED
      BY <1>1, <1>4, <2>3, <2>4, <2>5 DEF Kept, todo
  <1> QED
    BY <1>2, <1>3, <1>4

LEMMA PassDoneParts ==
  ASSUME LiveTypes, NEW p \in Workers, PassDone(p), job[p].passes # <<>>
  PROVE  /\ LiveTypes' /\ Kept(p) /\ job[p].pc = "next" /\ job[p].todo = {}
         /\ job'[p].pc = "rows" /\ job'[p].passes = Tail(job[p].passes)
         /\ UNCHANGED <<mode, user, base, node, disk, run, lock, used>>
  <1> DEFINE ps == Tail(job[p].passes)
             next == [job[p] EXCEPT !.pc = "rows", !.passes = ps]
  <1>1. ps \in Seq(Pass)
    BY Typed, PassesSplit
  <1>2. /\ job[p].pc = "next" /\ job[p].todo = {} /\ Set(p, next)
        /\ UNCHANGED <<mode, user, base, node, disk, run, lock, used>>
    BY DEF PassDone, hosts, tables
  <1> HIDE DEF ps
  <1>3. /\ next \in Job /\ next.pc = "rows" /\ next.passes = ps /\ next.u = job[p].u
        /\ next.seen = job[p].seen /\ next.sweep = job[p].sweep
    BY <1>1, Typed, NewPasses
  <1> HIDE DEF next
  <1>4. /\ job' \in [Workers -> Job] /\ job'[p] = next
        /\ \A q \in Workers : q # p => job'[q] = job[q]
    BY <1>2, <1>3, SetParts
  <1>5. LiveTypes'
    BY <1>2, <1>4 DEF LiveTypes, TypeOK
  <1> QED
    BY <1>2, <1>3, <1>4, <1>5 DEF Kept, ps

LEMMA LockAndBuildParts ==
  ASSUME LiveTypes, NEW p \in Workers, NEW n \in Nodes, LockAndBuild(p, n)
  PROVE  /\ LiveTypes' /\ Kept(p) /\ job[p].pc = "next"
         /\ job'[p].pc = "upload" /\ job'[p].todo = job[p].todo \ {n}
         /\ job'[p].at = n /\ job'[p].cfg = Generated(base, user, n)
         /\ job'[p].passes = job[p].passes
         /\ lock[n] = Nobody /\ lock' = [lock EXCEPT ![n] = p]
         /\ UNCHANGED <<mode, user, base, node, disk, run, used>>
  <1> DEFINE c == Desired(n)
             todo == job[p].todo \ {n}
             next == [job[p] EXCEPT !.pc = "upload", !.todo = todo, !.at = n, !.cfg = c]
  <1>1. /\ job[p].pc = "next" /\ lock[n] = Nobody /\ lock' = [lock EXCEPT ![n] = p]
        /\ Set(p, next) /\ UNCHANGED <<mode, user, base, node, disk, run, used>>
    BY DEF LockAndBuild, hosts, tables
  <1>2. c \in Config /\ c = Generated(base, user, n) /\ todo \in SUBSET Nodes
    BY DesiredParts, Typed
  <1> HIDE DEF c, todo
  <1>3. /\ next \in Job /\ next.pc = "upload" /\ next.todo = todo /\ next.at = n
        /\ next.cfg = c /\ next.passes = job[p].passes /\ next.u = job[p].u
        /\ next.seen = job[p].seen /\ next.sweep = job[p].sweep
    <2>1. job[p] \in Job
      BY Typed
    <2>2. ASSUME NEW j \in Job
          PROVE  LET k == [j EXCEPT !.pc = "upload", !.todo = todo, !.at = n, !.cfg = c]
                 IN /\ k \in Job /\ k.pc = "upload" /\ k.todo = todo /\ k.at = n
                    /\ k.cfg = c /\ k.u = j.u /\ k.seen = j.seen
                    /\ k.sweep = j.sweep /\ k.passes = j.passes
      BY <1>2 DEF Job
    <2> QED
      BY <2>1, <2>2
  <1> HIDE DEF next
  <1>4. /\ job' \in [Workers -> Job] /\ job'[p] = next
        /\ \A q \in Workers : q # p => job'[q] = job[q]
    BY <1>1, <1>3, SetParts
  <1>5. LiveTypes'
    BY <1>1, <1>4 DEF LiveTypes, TypeOK
  <1> QED
    BY <1>1, <1>2, <1>3, <1>4, <1>5 DEF Kept, todo

LEMMA DialType ==
  ASSUME LiveTypes, NEW e \in {"dial", "rpc", "request"}, Spend(e)
  PROVE  /\ used' \in [Events -> Nat] /\ used'["crash"] = used["crash"]
  BY SpendType DEF Events

LEMMA UploadParts ==
  ASSUME LiveTypes, NEW p \in Workers, Upload(p)
  PROVE  /\ LiveTypes' /\ Kept(p) /\ job[p].pc = "upload"
         /\ job'[p].at = job[p].at /\ job'[p].cfg = job[p].cfg
         /\ job'[p].passes = job[p].passes /\ job'[p].todo = job[p].todo
         /\ \/ /\ disk' = [disk EXCEPT ![job[p].at] = job[p].cfg] /\ job'[p].pc = "grpc"
               /\ UNCHANGED lock
            \/ /\ lock' = [lock EXCEPT ![job[p].at] = Nobody] /\ job'[p].pc = "mark"
               /\ UNCHANGED disk
         /\ used'["crash"] = used["crash"]
         /\ UNCHANGED <<mode, user, base, node, run>>
  <1>1. job[p].pc = "upload" /\ UNCHANGED <<mode, user, base, node, run>>
    BY DEF Upload, tables
  <1>2. CASE /\ disk' = [disk EXCEPT ![At(p)] = job[p].cfg]
             /\ Goto(p, "grpc") /\ UNCHANGED <<lock, used>>
    <2>1. disk' \in [Nodes -> Config]
      BY <1>2, Typed DEF LiveTypes, TypeOK, At
    <2>2. LiveTypes'
      BY <1>1, <1>2, <2>1, GotoKept DEF LiveTypes, TypeOK, Stages
    <2> QED
      BY <1>1, <1>2, <2>2, GotoKept DEF At, Stages
  <1>3. CASE /\ Spend("dial") /\ Unlock(p)
             /\ Goto(p, "mark") /\ UNCHANGED disk
    <2>1. lock' \in [Nodes -> Workers \cup {Nobody}]
      BY <1>3 DEF LiveTypes, TypeOK, Unlock
    <2>2. LiveTypes'
      BY <1>1, <1>3, <2>1, GotoKept, DialType DEF LiveTypes, TypeOK, Stages
    <2> QED
      BY <1>1, <1>3, <2>2, GotoKept, DialType DEF At, Stages, Unlock
  <1> QED
    BY <1>2, <1>3 DEF Upload

LEMMA AppliedType ==
  ASSUME NEW accounts \in SUBSET Accounts, NEW verb, NEW u \in Users, NEW id \in Nat
  PROVE  /\ Applied(accounts, verb, u, id) \in SUBSET Accounts
         /\ Without(accounts, u) \in SUBSET Accounts
  BY DEF Applied, Without, Accounts, Uuids

LEMMA RunType ==
  ASSUME LiveTypes, NEW n \in Nodes, NEW after \in SUBSET Accounts,
         run' = [run EXCEPT ![n].users = after]
  PROVE  run' \in [Nodes -> Config]
  BY DEF LiveTypes, TypeOK, Config

LEMMA GrpcParts ==
  ASSUME LiveTypes, NEW p \in Workers, Grpc(p), job[p].passes # <<>>
  PROVE  /\ LiveTypes' /\ Kept(p) /\ job[p].pc = "grpc"
         /\ job'[p].at = job[p].at /\ job'[p].cfg = job[p].cfg
         /\ job'[p].passes = job[p].passes /\ job'[p].todo = job[p].todo
         /\ \/ job'[p].pc = "record" /\ UNCHANGED lock
            \/ job'[p].pc = "mark" /\ lock' = [lock EXCEPT ![job[p].at] = Nobody]
         /\ used'["crash"] = used["crash"]
         /\ UNCHANGED <<mode, user, base, node, disk>>
  <1> DEFINE pass == Head(job[p].passes)
             accounts == run[At(p)].users
  <1>1. job[p].pc = "grpc" /\ UNCHANGED <<mode, user, base, node, disk>>
    BY DEF Grpc, tables
  <1>2. /\ At(p) \in Nodes /\ job[p].u \in Users /\ accounts \in SUBSET Accounts
        /\ pass.uuid \in Nat
    <2>1. pass \in Pass
      BY Typed, PassesSplit
    <2> QED
      BY <2>1, Typed DEF At, Config, Pass, Uuids
  <1>3. /\ Applied(accounts, pass.verb, job[p].u, pass.uuid) \in SUBSET Accounts
        /\ Without(accounts, job[p].u) \in SUBSET Accounts
    BY <1>2, AppliedType
  <1>4. CASE /\ run' = [run EXCEPT ![At(p)].users =
                            Applied(accounts, pass.verb, job[p].u, pass.uuid)]
             /\ Goto(p, "record") /\ UNCHANGED <<lock, used>>
    <2>1. run' \in [Nodes -> Config]
      BY <1>2, <1>3, <1>4, RunType
    <2>2. LiveTypes'
      BY <1>1, <1>4, <2>1, GotoKept DEF LiveTypes, TypeOK, Stages
    <2> QED
      BY <1>1, <1>4, <2>2, GotoKept DEF Stages
  <1>5. CASE /\ Spend("rpc") /\ Goto(p, "record") /\ UNCHANGED lock
             /\ \/ UNCHANGED run
                \/ run' = [run EXCEPT ![At(p)].users = Without(accounts, job[p].u)]
    <2>1. run' \in [Nodes -> Config]
      <3>1. CASE UNCHANGED run
        BY <3>1 DEF LiveTypes, TypeOK
      <3>2. CASE run' = [run EXCEPT ![At(p)].users = Without(accounts, job[p].u)]
        BY <1>2, <1>3, <3>2, RunType
      <3> QED
        BY <1>5, <3>1, <3>2
    <2>2. LiveTypes'
      BY <1>1, <1>5, <2>1, GotoKept, DialType DEF LiveTypes, TypeOK, Stages
    <2> QED
      BY <1>1, <1>5, <2>2, GotoKept, DialType DEF Stages
  <1>6. CASE /\ Spend("dial") /\ Unlock(p)
             /\ Goto(p, "mark") /\ UNCHANGED run
    <2>1. lock' \in [Nodes -> Workers \cup {Nobody}]
      BY <1>6 DEF LiveTypes, TypeOK, Unlock
    <2>2. LiveTypes'
      BY <1>1, <1>6, <2>1, GotoKept, DialType DEF LiveTypes, TypeOK, Stages
    <2> QED
      BY <1>1, <1>6, <2>2, GotoKept, DialType DEF At, Stages, Unlock
  <1> QED
    BY <1>4, <1>5, <1>6 DEF Grpc

LEMMA StatusType ==
  ASSUME LiveTypes, NEW n \in Nodes, NEW s \in {"synced", "drifted", "failed"},
         node' = [node EXCEPT ![n].status = s]
  PROVE  /\ node' \in [Nodes -> Row] /\ node'[n].status = s
         /\ \A m \in Nodes : m # n => node'[m] = node[m]
         /\ \A m \in Nodes : node'[m].active = node[m].active
  BY DEF LiveTypes, TypeOK, Row

LEMMA UpdateType ==
  ASSUME LiveTypes, NEW n \in Nodes, NEW c \in Config, UpdateLastSync(n, c)
  PROVE  /\ node' \in [Nodes -> Row] /\ node'[n].status = "synced"
         /\ \A m \in Nodes : m # n => node'[m] = node[m]
         /\ \A m \in Nodes : node'[m].active = node[m].active
  BY DEF LiveTypes, TypeOK, Row, UpdateLastSync

LEMMA RecordParts ==
  ASSUME LiveTypes, NEW p \in Workers, Record(p)
  PROVE  /\ LiveTypes' /\ Kept(p) /\ job[p].pc = "record"
         /\ job'[p].pc = "next" /\ job'[p].passes = job[p].passes
         /\ job'[p].todo = job[p].todo
         /\ lock' = [lock EXCEPT ![job[p].at] = Nobody]
         /\ \A m \in Nodes : m # job[p].at => node'[m] = node[m]
         /\ \A m \in Nodes : node'[m].active = node[m].active
         /\ UNCHANGED <<mode, user, base, disk, run, used>>
  <1>1. /\ job[p].pc = "record" /\ Unlock(p) /\ Goto(p, "next")
        /\ UNCHANGED <<mode, user, base, disk, run, used>>
    BY DEF Record, hosts
  <1>2. /\ node' \in [Nodes -> Row] /\ \A m \in Nodes : m # At(p) => node'[m] = node[m]
        /\ \A m \in Nodes : node'[m].active = node[m].active
    <2>1. CASE At(p) \in job[p].rows
      BY <2>1, UpdateType, Typed DEF Record, At
    <2>2. CASE At(p) \notin job[p].rows
      BY <2>2 DEF Record, LiveTypes, TypeOK
    <2> QED
      BY <2>1, <2>2
  <1>3. lock' \in [Nodes -> Workers \cup {Nobody}]
    BY <1>1 DEF LiveTypes, TypeOK, Unlock
  <1>4. LiveTypes'
    BY <1>1, <1>2, <1>3, GotoKept DEF LiveTypes, TypeOK, Stages
  <1> QED
    BY <1>1, <1>2, <1>4, GotoKept DEF Stages, At, Unlock

LEMMA MarkDriftedParts ==
  ASSUME LiveTypes, NEW p \in Workers, MarkDrifted(p)
  PROVE  /\ LiveTypes' /\ Kept(p) /\ job[p].pc = "mark"
         /\ job'[p].pc = "next" /\ job'[p].passes = job[p].passes
         /\ job'[p].todo = job[p].todo
         /\ node'[job[p].at].status = "drifted"
         /\ \A m \in Nodes : m # job[p].at => node'[m] = node[m]
         /\ \A m \in Nodes : node'[m].active = node[m].active
         /\ UNCHANGED <<mode, user, base, disk, run, lock, used>>
  <1>1. /\ job[p].pc = "mark" /\ Goto(p, "next")
        /\ node' = [node EXCEPT ![At(p)].status = "drifted"]
        /\ UNCHANGED <<mode, user, base, disk, run, lock, used>>
    BY DEF MarkDrifted, hosts
  <1>2. /\ node' \in [Nodes -> Row] /\ node'[At(p)].status = "drifted"
        /\ \A m \in Nodes : m # At(p) => node'[m] = node[m]
        /\ \A m \in Nodes : node'[m].active = node[m].active
    BY <1>1, StatusType, Typed DEF At
  <1>3. LiveTypes'
    BY <1>1, <1>2, GotoKept DEF LiveTypes, TypeOK, Stages
  <1> QED
    BY <1>1, <1>2, <1>3, GotoKept DEF Stages, At

LEMMA SyncBuildParts ==
  ASSUME LiveTypes, NEW p \in Procs, NEW n \in Nodes, SyncBuild(p, n)
  PROVE  /\ LiveTypes' /\ Kept(p) /\ job[p].pc = "idle" /\ MyTurn
         /\ job'[p].pc = "push" /\ job'[p].at = n
         /\ job'[p].cfg = Generated(base, user, n)
         /\ lock[n] = Nobody /\ lock' = [lock EXCEPT ![n] = p]
         /\ used'["crash"] = used["crash"]
         /\ UNCHANGED <<mode, user, base, node, disk, run>>
  <1> DEFINE c == Desired(n)
             next == [Idle EXCEPT !.pc = "push", !.at = n, !.cfg = c]
  <1>1. /\ job[p].pc = "idle" /\ lock[n] = Nobody /\ lock' = [lock EXCEPT ![n] = p]
        /\ MyTurn /\ Spend("request") /\ Set(p, next)
        /\ UNCHANGED <<mode, user, base, node, disk, run>>
    BY DEF SyncBuild, hosts, tables
  <1>2. c \in Config /\ c = Generated(base, user, n) /\ p \in Workers
    BY DesiredParts, WorkerParts
  <1> HIDE DEF c
  <1>3. next \in Job /\ next.pc = "push" /\ next.at = n /\ next.cfg = c /\ next.seen = Absent
    BY <1>2, IdleType DEF Job
  <1> HIDE DEF next
  <1>4. /\ job' \in [Workers -> Job] /\ job'[p] = next
        /\ \A q \in Workers : q # p => job'[q] = job[q]
    BY <1>1, <1>2, <1>3, SetParts
  <1>5. used' \in [Events -> Nat] /\ used'["crash"] = used["crash"]
    BY <1>1, DialType
  <1>6. LiveTypes'
    BY <1>1, <1>2, <1>4, <1>5 DEF LiveTypes, TypeOK
  <1>7. p # Sweeper
    BY UserLiveAssumption
  <1> QED
    BY <1>1, <1>2, <1>3, <1>4, <1>5, <1>6, <1>7 DEF Kept

LEMMA SyncPushParts ==
  ASSUME LiveTypes, NEW p \in Workers, SyncPush(p)
  PROVE  /\ LiveTypes' /\ Kept(p) /\ job[p].pc = "push"
         /\ \/ /\ disk' = [disk EXCEPT ![job[p].at] = job[p].cfg] /\ job'[p].pc = "pushed"
               /\ job'[p].at = job[p].at /\ job'[p].cfg = job[p].cfg
               /\ UNCHANGED <<node, lock>>
            \/ /\ job'[p].pc = "idle"
               /\ node'[job[p].at].status = "failed"
               /\ \A m \in Nodes : m # job[p].at => node'[m] = node[m]
               /\ \A m \in Nodes : node'[m].active = node[m].active
               /\ lock' = [lock EXCEPT ![job[p].at] = Nobody]
               /\ UNCHANGED disk
         /\ used'["crash"] = used["crash"]
         /\ UNCHANGED <<mode, user, base>>
  <1>1. job[p].pc = "push" /\ UNCHANGED <<mode, user, base>>
    BY DEF SyncPush
  <1>2. CASE /\ disk' = [disk EXCEPT ![At(p)] = job[p].cfg]
             /\ run' = [run EXCEPT ![At(p)] = job[p].cfg]
             /\ Goto(p, "pushed") /\ UNCHANGED <<node, lock, used>>
    <2>1. disk' \in [Nodes -> Config] /\ run' \in [Nodes -> Config]
      BY <1>2, Typed DEF LiveTypes, TypeOK, At
    <2>2. LiveTypes'
      BY <1>1, <1>2, <2>1, GotoKept DEF LiveTypes, TypeOK, Stages
    <2> QED
      BY <1>1, <1>2, <2>2, GotoKept DEF At, Stages
  <1>3. CASE /\ Spend("dial") /\ Unlock(p)
             /\ node' = [node EXCEPT ![At(p)].status = "failed"]
             /\ Set(p, Idle) /\ UNCHANGED hosts
    <2>1. lock' \in [Nodes -> Workers \cup {Nobody}]
      BY <1>3 DEF LiveTypes, TypeOK, Unlock
    <2>2. /\ node' \in [Nodes -> Row] /\ node'[At(p)].status = "failed"
          /\ \A m \in Nodes : m # At(p) => node'[m] = node[m]
          /\ \A m \in Nodes : node'[m].active = node[m].active
      BY <1>3, StatusType, Typed DEF At
    <2>3. Kept(p) /\ job' \in [Workers -> Job] /\ job'[p].pc = "idle"
      BY <1>1, <1>3, IdleKept
    <2>4. LiveTypes'
      BY <1>1, <1>3, <2>1, <2>2, <2>3, DialType DEF LiveTypes, TypeOK, hosts
    <2> QED
      BY <1>1, <1>3, <2>2, <2>3, <2>4, DialType DEF At, Unlock, hosts
  <1> QED
    BY <1>2, <1>3 DEF SyncPush

LEMMA SyncRecordParts ==
  ASSUME LiveTypes, NEW p \in Workers, SyncRecord(p)
  PROVE  /\ LiveTypes' /\ Kept(p) /\ job[p].pc = "pushed" /\ job'[p].pc = "idle"
         /\ lock' = [lock EXCEPT ![job[p].at] = Nobody]
         /\ \A m \in Nodes : m # job[p].at => node'[m] = node[m]
         /\ \A m \in Nodes : node'[m].active = node[m].active
         /\ UNCHANGED <<mode, user, base, disk, run, used>>
  <1>1. /\ job[p].pc = "pushed" /\ Unlock(p) /\ Set(p, Idle)
        /\ UpdateLastSync(At(p), job[p].cfg)
        /\ UNCHANGED <<mode, user, base, disk, run, used>>
    BY DEF SyncRecord, hosts
  <1>2. /\ node' \in [Nodes -> Row] /\ \A m \in Nodes : m # At(p) => node'[m] = node[m]
        /\ \A m \in Nodes : node'[m].active = node[m].active
    BY <1>1, UpdateType, Typed DEF At
  <1>3. lock' \in [Nodes -> Workers \cup {Nobody}]
    BY <1>1 DEF LiveTypes, TypeOK, Unlock
  <1>4. Kept(p) /\ job' \in [Workers -> Job] /\ job'[p].pc = "idle"
    BY <1>1, IdleKept
  <1>5. LiveTypes'
    BY <1>1, <1>2, <1>3, <1>4 DEF LiveTypes, TypeOK
  <1> QED
    BY <1>1, <1>2, <1>4, <1>5 DEF At, Unlock

LEMMA EditParts ==
  ASSUME LiveTypes, NEW p \in Procs, Edit(p)
  PROVE  /\ LiveTypes' /\ Kept(p) /\ job[p].pc = "idle" /\ job'[p].pc = "editMark"
         /\ "edit" \in mode.requests /\ MyTurn /\ used'["crash"] = used["crash"]
         /\ UNCHANGED <<mode, user, node, disk, run, lock>>
  <1> DEFINE next == [Idle EXCEPT !.pc = "editMark"]
  <1>1. /\ job[p].pc = "idle" /\ MyTurn /\ Spend("request") /\ Set(p, next)
        /\ "edit" \in mode.requests /\ base' = used'["request"]
        /\ UNCHANGED <<mode, user, node, disk, run, lock>>
    BY DEF Edit, hosts
  <1>2. next \in Job /\ next.pc = "editMark" /\ next.seen = Absent
    BY IdleType DEF Job
  <1> HIDE DEF next
  <1>3. p \in Workers /\ p # Sweeper
    BY WorkerParts, UserLiveAssumption
  <1>4. /\ job' \in [Workers -> Job] /\ job'[p] = next
        /\ \A q \in Workers : q # p => job'[q] = job[q]
    BY <1>1, <1>2, <1>3, SetParts
  <1>5. /\ used' \in [Events -> Nat] /\ used'["crash"] = used["crash"]
        /\ used'["request"] \in Nat
    BY <1>1, DialType, FreshType
  <1>6. LiveTypes'
    BY <1>1, <1>4, <1>5 DEF LiveTypes, TypeOK, Versions
  <1> QED
    BY <1>1, <1>2, <1>3, <1>4, <1>5, <1>6 DEF Kept

LEMMA MarkAllParts ==
  ASSUME LiveTypes, NEW p \in Workers, MarkAllDrifted(p)
  PROVE  /\ LiveTypes' /\ Kept(p) /\ job[p].pc = "editMark" /\ job'[p].pc = "idle"
         /\ \A m \in Nodes : node'[m].active = node[m].active
         /\ \A m \in Nodes : node[m].active => node'[m].status = "drifted"
         /\ UNCHANGED <<mode, user, base, disk, run, lock, used>>
  <1>1. /\ job[p].pc = "editMark" /\ Set(p, Idle)
        /\ node' = [n \in Nodes |-> IF node[n].active
                       THEN [node[n] EXCEPT !.status = "drifted"] ELSE node[n]]
        /\ UNCHANGED <<mode, user, base, disk, run, lock, used>>
    BY DEF MarkAllDrifted, hosts
  <1>2. \A r \in Row : LET s == [r EXCEPT !.status = "drifted"]
                       IN s \in Row /\ s.active = r.active /\ s.status = "drifted"
    BY DEF Row
  <1>3. \A n \in Nodes : node[n] \in Row
    BY Typed
  <1>4. /\ node' \in [Nodes -> Row]
        /\ \A m \in Nodes : node'[m].active = node[m].active
        /\ \A m \in Nodes : node[m].active => node'[m].status = "drifted"
    BY <1>1, <1>2, <1>3
  <1>5. Kept(p) /\ job' \in [Workers -> Job] /\ job'[p].pc = "idle"
    BY <1>1, IdleKept
  <1>6. LiveTypes'
    BY <1>1, <1>4, <1>5 DEF LiveTypes, TypeOK
  <1> QED
    BY <1>1, <1>4, <1>5, <1>6
-----------------------------------------------------------------------------
(* The sweep, and what happens around the workers.                         *)

LEMMA SweepStartParts ==
  ASSUME LiveTypes, SweepStart
  PROVE  /\ LiveTypes' /\ job[Sweeper].pc = "idle" /\ job'[Sweeper].pc = "rows" /\ MyTurn
         /\ \A q \in Workers : q # Sweeper => job'[q] = job[q]
         /\ job'[Sweeper].seen = Absent
         /\ \A v \in Users : InSweep(job'[Sweeper], v) => Expired(user[v])
         /\ \E v \in Users : Expired(user[v])
         /\ UNCHANGED <<mode, user, base, node, disk, run, lock, used>>
  <1> DEFINE due == {u \in Users : Expired(user[u]) /\ ~user[u].swept}
  <1>1. /\ job[Sweeper].pc = "idle" /\ MyTurn
        /\ UNCHANGED <<mode, user, base, node, disk, run, lock, used>>
    BY DEF SweepStart, hosts, tables
  <1>2. PICK u \in due :
            Set(Sweeper, [Idle EXCEPT !.pc = "rows", !.kind = "sweep", !.u = u,
                    !.sweep = {<<v, user[v]>> : v \in due \ {u}},
                    !.passes = RemovalFrom(user[u].on)])
    BY DEF SweepStart
  <1> DEFINE s == {<<v, user[v]>> : v \in due \ {u}}
             ps == RemovalFrom(user[u].on)
             next == [Idle EXCEPT !.pc = "rows", !.kind = "sweep", !.u = u,
                                  !.sweep = s, !.passes = ps]
  <1>3. u \in Users /\ s \subseteq Users \X User /\ \A x \in s : x[1] \in due
    BY Typed
  <1>4. ps \in Seq(Pass)
    <2>1. user[u].on \cap ActiveNodes \in SUBSET Nodes
      BY Typed
    <2> QED
      BY <2>1, OverParts DEF RemovalFrom
  <1>5. Set(Sweeper, next)
    BY <1>2
  <1> HIDE DEF s, ps
  <1>6. /\ next \in Job /\ next.pc = "rows" /\ next.u = u /\ next.sweep = s
        /\ next.seen = Absent
    BY <1>3, <1>4, IdleType DEF Job
  <1> HIDE DEF next
  <1>7. /\ job' \in [Workers -> Job] /\ job'[Sweeper] = next
        /\ \A q \in Workers : q # Sweeper => job'[q] = job[q]
    BY <1>5, <1>6, SetParts, WorkerParts
  <1>8. LiveTypes'
    BY <1>1, <1>7 DEF LiveTypes, TypeOK
  <1> QED
    BY <1>1, <1>3, <1>6, <1>7, <1>8 DEF InSweep

LEMMA SweepMarkParts ==
  ASSUME LiveTypes, SweepMark
  PROVE  /\ LiveTypes' /\ job[Sweeper].pc = "sweep" /\ job'[Sweeper].pc \in {"rows", "idle"}
         /\ \A q \in Workers : q # Sweeper => job'[q] = job[q]
         /\ job'[Sweeper].seen \in {job[Sweeper].seen, Absent}
         /\ job'[Sweeper].pc = "rows" =>
                \A v \in Users : InSweep(job'[Sweeper], v) => InSweep(job[Sweeper], v)
         /\ user' = [user EXCEPT ![job[Sweeper].u].swept = There(user[job[Sweeper].u])]
         /\ UNCHANGED <<mode, base, node, disk, run, lock, used>>
  <1> DEFINE j == job[Sweeper]
  <1>1. /\ j.pc = "sweep" /\ user' = [user EXCEPT ![j.u].swept = There(user[j.u])]
        /\ UNCHANGED <<mode, base, node, disk, run, lock, used>>
    BY DEF SweepMark, hosts
  <1>2. Sweeper \in Workers /\ j \in Job /\ j.u \in Users /\ j.sweep \subseteq Users \X User
    BY WorkerParts, Typed, JobParts
  <1>3. user' \in [Users -> User]
    <2>1. ASSUME NEW r \in User, NEW b \in BOOLEAN PROVE [r EXCEPT !.swept = b] \in User
      BY <2>1 DEF User
    <2> QED
      BY <1>1, <1>2, <2>1 DEF LiveTypes, TypeOK, There
  <1>4. CASE j.sweep = {}
    <2>1. Set(Sweeper, Idle)
      BY <1>4 DEF SweepMark
    <2>2. /\ job' \in [Workers -> Job] /\ job'[Sweeper] = Idle
          /\ \A q \in Workers : q # Sweeper => job'[q] = job[q]
      BY <1>2, <2>1, SetParts, IdleType
    <2>3. LiveTypes'
      BY <1>1, <1>3, <2>2 DEF LiveTypes, TypeOK
    <2> QED
      BY <1>1, <2>2, <2>3, IdleType
  <1>5. CASE j.sweep # {}
    <2>1. PICK x \in j.sweep :
              Set(Sweeper, [j EXCEPT !.pc = "rows", !.u = x[1],
                        !.sweep = j.sweep \ {x}, !.passes = RemovalFrom(x[2].on)])
      BY <1>5 DEF SweepMark
    <2> DEFINE s == j.sweep \ {x}
               ps == RemovalFrom(x[2].on)
               v == x[1]
               next == [j EXCEPT !.pc = "rows", !.u = v, !.sweep = s, !.passes = ps]
    <2>2. v \in Users /\ s \subseteq Users \X User /\ \A y \in s : y \in j.sweep
      BY <1>2
    <2>3. ps \in Seq(Pass)
      <3>1. x[2] \in User
        BY <1>2
      <3>2. x[2].on \cap ActiveNodes \in SUBSET Nodes
        BY Typed
      <3> QED
        BY <3>2, OverParts DEF RemovalFrom
    <2>4. Set(Sweeper, next)
      BY <2>1
    <2>5. \A w : w = v => InSweep(j, w)
      BY DEF InSweep
    <2> HIDE DEF s, ps, v
    <2>6. /\ next \in Job /\ next.pc = "rows" /\ next.u = v /\ next.sweep = s
          /\ next.seen = j.seen
      <3>1. ASSUME NEW k \in Job
            PROVE  LET l == [k EXCEPT !.pc = "rows", !.u = v, !.sweep = s, !.passes = ps]
                   IN /\ l \in Job /\ l.pc = "rows" /\ l.u = v /\ l.sweep = s
                      /\ l.seen = k.seen
        BY <2>2, <2>3 DEF Job
      <3> QED
        BY <1>2, <3>1
    <2> HIDE DEF next
    <2>7. /\ job' \in [Workers -> Job] /\ job'[Sweeper] = next
          /\ \A q \in Workers : q # Sweeper => job'[q] = job[q]
      BY <1>2, <2>4, <2>6, SetParts
    <2>8. LiveTypes'
      BY <1>1, <1>3, <2>7 DEF LiveTypes, TypeOK
    <2>9. \A w \in Users : InSweep(next, w) => InSweep(j, w)
      BY <2>2, <2>5, <2>6 DEF InSweep
    <2> QED
      BY <1>1, <2>6, <2>7, <2>8, <2>9
  <1> QED
    BY <1>4, <1>5

LEMMA CheckDriftParts ==
  ASSUME LiveTypes, NEW n \in Nodes, CheckDrift(n)
  PROVE  /\ LiveTypes' /\ MyTurn
         /\ node'[n].status = "synced" => disk[n] = Generated(base, user, n)
         /\ \A m \in Nodes : m # n => node'[m] = node[m]
         /\ \A m \in Nodes : node'[m].active = node[m].active
         /\ UNCHANGED <<mode, user, base, disk, run, lock, job, used>>
  <1> DEFINE s == IF Desired(n) = node[n].hash /\ Desired(n) = disk[n]
                  THEN "synced" ELSE "drifted"
  <1>1. /\ MyTurn /\ node' = [node EXCEPT ![n].status = s]
        /\ UNCHANGED <<mode, user, base, disk, run, lock, job, used>>
    BY DEF CheckDrift, hosts
  <1>2. /\ s \in {"synced", "drifted", "failed"}
        /\ s = "synced" => disk[n] = Generated(base, user, n)
    BY DesiredParts
  <1> HIDE DEF s
  <1>3. /\ node' \in [Nodes -> Row] /\ node'[n].status = s
        /\ \A m \in Nodes : m # n => node'[m] = node[m]
        /\ \A m \in Nodes : node'[m].active = node[m].active
    BY <1>1, <1>2, StatusType
  <1>4. LiveTypes'
    BY <1>1, <1>3 DEF LiveTypes, TypeOK
  <1> QED
    BY <1>1, <1>2, <1>3, <1>4

LEMMA ToggleNodeParts ==
  ASSUME LiveTypes, NEW n \in Nodes, ToggleNode(n)
  PROVE  /\ LiveTypes' /\ mode.limit["node"] # 0
         /\ UNCHANGED <<mode, user, base, disk, run, lock, job>>
  <1>1. /\ Spend("node") /\ node' = [node EXCEPT ![n].active = ~@]
        /\ UNCHANGED <<mode, user, base, disk, run, lock, job>>
    BY DEF ToggleNode, hosts
  <1>2. node' \in [Nodes -> Row]
    BY <1>1 DEF LiveTypes, TypeOK, Row
  <1>3. used' \in [Events -> Nat] /\ mode.limit["node"] # 0
    BY <1>1, SpendType DEF Events
  <1>4. LiveTypes'
    BY <1>1, <1>2, <1>3 DEF LiveTypes, TypeOK
  <1> QED
    BY <1>1, <1>3, <1>4

LEMMA ExpireParts ==
  ASSUME LiveTypes, NEW u \in Users, Expire(u)
  PROVE  /\ LiveTypes' /\ mode.limit["expire"] # 0 /\ There(user[u])
         /\ user' = [user EXCEPT ![u].expiry = "past"]
         /\ UNCHANGED <<mode, base, node, disk, run, lock, job>>
  <1>1. /\ Spend("expire") /\ user' = [user EXCEPT ![u].expiry = "past"] /\ There(user[u])
        /\ UNCHANGED <<mode, base, node, disk, run, lock, job>>
    BY DEF Expire, hosts
  <1>2. user' \in [Users -> User]
    BY <1>1 DEF LiveTypes, TypeOK, User
  <1>3. used' \in [Events -> Nat] /\ mode.limit["expire"] # 0
    BY <1>1, SpendType DEF Events
  <1>4. LiveTypes'
    BY <1>1, <1>2, <1>3 DEF LiveTypes, TypeOK
  <1> QED
    BY <1>1, <1>3, <1>4

LEMMA RestartParts ==
  ASSUME LiveTypes, NEW n \in Nodes, RestartXray(n)
  PROVE  /\ LiveTypes' /\ used'["crash"] = used["crash"]
         /\ UNCHANGED <<mode, user, base, node, disk, lock, job>>
  <1>1. /\ Spend("restart") /\ run' = [run EXCEPT ![n] = disk[n]]
        /\ UNCHANGED <<mode, user, base, node, disk, lock, job>>
    BY DEF RestartXray, tables
  <1>2. run' \in [Nodes -> Config]
    BY <1>1 DEF LiveTypes, TypeOK
  <1>3. used' \in [Events -> Nat] /\ used'["crash"] = used["crash"]
    BY <1>1, SpendType DEF Events
  <1>4. LiveTypes'
    BY <1>1, <1>2, <1>3 DEF LiveTypes, TypeOK
  <1> QED
    BY <1>1, <1>3, <1>4

LEMMA CrashParts ==
  ASSUME LiveTypes, Crash
  PROVE  /\ LiveTypes' /\ ~NeverCrashed'
         /\ \A p \in Workers : job'[p] = Idle
         /\ UNCHANGED <<mode, user, base, node, disk, run>>
  <1>1. /\ Spend("crash") /\ job' = [p \in Workers |-> Idle]
        /\ lock' = [n \in Nodes |-> Nobody]
        /\ UNCHANGED <<mode, user, base, node, disk, run>>
    BY DEF Crash, hosts, tables
  <1>2. job' \in [Workers -> Job] /\ lock' \in [Nodes -> Workers \cup {Nobody}]
    BY <1>1, IdleType
  <1>3. used' \in [Events -> Nat] /\ used'["crash"] = used["crash"] + 1 /\ used["crash"] \in Nat
    BY <1>1, SpendType DEF Events, LiveTypes, TypeOK
  <1>4. LiveTypes'
    BY <1>1, <1>2, <1>3 DEF LiveTypes, TypeOK
  <1> QED
    BY <1>1, <1>3, <1>4 DEF NeverCrashed
-----------------------------------------------------------------------------
(* Every step, sorted by what it writes.                                   *)

(* Steps of a worker that write no user.                                   *)
PlainStep(p) ==
    \/ Plan(p) \/ ReadRows(p) \/ PassDone(p) \/ Upload(p) \/ Grpc(p) \/ Record(p)
    \/ MarkDrifted(p) \/ \E n \in Nodes : LockAndBuild(p, n)
    \/ /\ p \in Procs
       /\ \/ SyncPush(p) \/ SyncRecord(p) \/ Edit(p) \/ MarkAllDrifted(p)
          \/ \E n \in Nodes : SyncBuild(p, n)

Kinds == {"delete", "toggle", "reset", "regroup", "renew"}

LEMMA StepKinds ==
  ASSUME Next
  PROVE  \/ \E p \in Workers : PlainStep(p)
         \/ \E p \in Procs : WriteStep(p)
         \/ \E p \in Procs, u \in Users, S \in SUBSET Nodes : Create(p, u, S)
         \/ \E p \in Procs, u \in Users, kind \in Kinds : Read(p, kind, u)
         \/ SweepStart \/ SweepMark \/ Crash
         \/ \E n \in Nodes : CheckDrift(n) \/ ToggleNode(n) \/ RestartXray(n)
         \/ \E u \in Users : Expire(u)
  <1>1. ASSUME NEW p \in Procs, Begin(p)
        PROVE  \/ PlainStep(p)
               \/ \E u \in Users, S \in SUBSET Nodes : Create(p, u, S)
               \/ \E u \in Users, kind \in Kinds : Read(p, kind, u)
    BY <1>1, Zenon DEF Begin, PlainStep, Kinds
  <1>2. ASSUME NEW p \in Procs, Proceed(p) PROVE PlainStep(p) \/ WriteStep(p)
    BY <1>2, Zenon DEF Proceed, PlainStep, WriteStep
  <1>3. ASSUME NEW p \in Workers, Live(p) PROVE PlainStep(p)
    BY <1>3, Zenon DEF Live, PlainStep
  <1>4. Sweep => SweepStart \/ SweepMark \/ PlainStep(Sweeper)
    BY <1>3, WorkerParts, Zenon DEF Sweep
  <1> QED
    BY <1>1, <1>2, <1>3, <1>4, WorkerParts, Zenon DEF Next

LEMMA PlainParts ==
  ASSUME LiveTypes, PassAtHand, NEW p \in Workers, PlainStep(p)
  PROVE  LiveTypes' /\ PassAtHand' /\ Kept(p) /\ UNCHANGED mode
  <1>1. /\ LiveTypes' /\ Kept(p)
        /\ job'[p].pc \in InPass => job'[p].passes # <<>>
    <2>1. CASE Plan(p)
      BY <2>1, PlanParts DEF InPass
    <2>2. CASE ReadRows(p)
      BY <2>2, ReadRowsParts DEF InPass
    <2>3. CASE PassDone(p)
      BY <2>3, PassDoneParts DEF InPass, PassAtHand, PassDone
    <2>4. CASE Upload(p)
      BY <2>4, UploadParts DEF InPass, PassAtHand
    <2>5. CASE Grpc(p)
      BY <2>5, GrpcParts DEF InPass, PassAtHand, Grpc
    <2>6. CASE Record(p)
      BY <2>6, RecordParts DEF InPass, PassAtHand
    <2>7. CASE MarkDrifted(p)
      BY <2>7, MarkDriftedParts DEF InPass, PassAtHand
    <2>8. ASSUME NEW n \in Nodes, LockAndBuild(p, n)
          PROVE  LiveTypes' /\ Kept(p) /\ job'[p].passes # <<>>
      BY <2>8, LockAndBuildParts DEF InPass, PassAtHand
    <2>9. CASE SyncPush(p)
      BY <2>9, SyncPushParts DEF InPass
    <2>10. CASE SyncRecord(p)
      BY <2>10, SyncRecordParts DEF InPass
    <2>11. CASE p \in Procs /\ Edit(p)
      BY <2>11, EditParts DEF InPass
    <2>12. CASE MarkAllDrifted(p)
      BY <2>12, MarkAllParts DEF InPass
    <2>13. ASSUME p \in Procs, NEW n \in Nodes, SyncBuild(p, n)
           PROVE  LiveTypes' /\ Kept(p) /\ job'[p].pc \notin InPass
      BY <2>13, SyncBuildParts DEF InPass
    <2> QED
      BY <2>1, <2>2, <2>3, <2>4, <2>5, <2>6, <2>7, <2>8, <2>9, <2>10, <2>11, <2>12, <2>13
         DEF PlainStep
  <1>2. PassAtHand'
    BY <1>1 DEF Kept, PassAtHand
  <1> QED
    BY <1>1, <1>2 DEF Kept

LEMMA TurnStep ==
  ASSUME TurnsAreTaken, NEW p \in Workers, UNCHANGED mode,
         \A q \in Workers : q # p => job'[q] = job[q],
         job[p].pc # "idle" \/ job'[p].pc = "idle" \/ MyTurn
  PROVE  TurnsAreTaken'
  BY DEF TurnsAreTaken, MyTurn, Quiet

LiveInv == LiveTypes /\ PassAtHand /\ TurnsAreTaken

LEMMA LiveInvInit == Init => LiveInv
  <1> SUFFICES ASSUME Init PROVE LiveInv
    OBVIOUS
  <1>1. \A p \in Workers : job[p].pc = "idle"
    BY IdleType DEF Init
  <1> QED
    BY <1>1, InitTypes DEF LiveInv, PassAtHand, TurnsAreTaken, InPass

LEMMA LiveInvStep ==
  ASSUME LiveInv, [Next]_vars
  PROVE  LiveInv'
  <1> USE DEF LiveInv
  <1>1. ASSUME NEW p \in Workers, PlainStep(p) PROVE LiveInv'
    <2>1. LiveTypes' /\ PassAtHand' /\ Kept(p) /\ UNCHANGED mode
      BY <1>1, PlainParts
    <2>2. TurnsAreTaken'
      BY <2>1, TurnStep DEF Kept
    <2> QED
      BY <2>1, <2>2
  <1>2. ASSUME NEW p \in Procs, WriteStep(p) PROVE LiveInv'
    <2>1. p \in Workers
      BY WorkerParts
    <2>2. /\ LiveTypes' /\ UNCHANGED mode /\ job[p].pc = "write" /\ job'[p].pc = "plan"
          /\ \A q \in Workers : q # p => job'[q] = job[q]
      BY <1>2, WriteParts
    <2> QED
      BY <2>1, <2>2, TurnStep DEF PassAtHand, InPass
  <1>3. ASSUME NEW p \in Procs, NEW u \in Users, NEW S \in SUBSET Nodes, Create(p, u, S)
        PROVE  LiveInv'
    <2>1. p \in Workers
      BY WorkerParts
    <2>2. /\ LiveTypes' /\ UNCHANGED mode /\ MyTurn /\ job'[p].pc = "plan"
          /\ \A q \in Workers : q # p => job'[q] = job[q]
      BY <1>3, CreateParts
    <2> QED
      BY <2>1, <2>2, TurnStep DEF PassAtHand, InPass
  <1>4. ASSUME NEW p \in Procs, NEW u \in Users, NEW kind \in Kinds, Read(p, kind, u)
        PROVE  LiveInv'
    <2>1. p \in Workers
      BY WorkerParts
    <2>2. /\ LiveTypes' /\ UNCHANGED mode /\ MyTurn /\ job'[p].pc = "write"
          /\ \A q \in Workers : q # p => job'[q] = job[q]
      BY <1>4, ReadParts DEF Kinds
    <2> QED
      BY <2>1, <2>2, TurnStep DEF PassAtHand, InPass
  <1>5. CASE SweepStart
    <2>1. TurnsAreTaken'
      BY <1>5, SweepStartParts, TurnStep, WorkerParts
    <2> QED
      BY <1>5, <2>1, SweepStartParts DEF PassAtHand, InPass
  <1>6. CASE SweepMark
    <2>1. TurnsAreTaken'
      BY <1>6, SweepMarkParts, TurnStep, WorkerParts
    <2> QED
      BY <1>6, <2>1, SweepMarkParts DEF PassAtHand, InPass
  <1>7. CASE Crash
    BY <1>7, CrashParts, IdleType DEF PassAtHand, TurnsAreTaken, InPass
  <1>8. ASSUME LiveTypes', UNCHANGED <<mode, job>> PROVE LiveInv'
    BY <1>8 DEF PassAtHand, TurnsAreTaken
  <1>9. ASSUME NEW n \in Nodes, CheckDrift(n) \/ ToggleNode(n) \/ RestartXray(n) PROVE LiveInv'
    BY <1>8, <1>9, CheckDriftParts, ToggleNodeParts, RestartParts
  <1>10. ASSUME NEW u \in Users, Expire(u) PROVE LiveInv'
    BY <1>8, <1>10, ExpireParts
  <1>11. CASE UNCHANGED vars
    BY <1>8, <1>11 DEF vars, LiveTypes, TypeOK
  <1> QED
    BY <1>1, <1>2, <1>3, <1>4, <1>5, <1>6, <1>7, <1>9, <1>10, <1>11, StepKinds

LEMMA ModeStays ==
  ASSUME LiveInv, [Next]_vars
  PROVE  mode' = mode
  <1> USE DEF LiveInv
  <1>1. ASSUME NEW p \in Workers, PlainStep(p) PROVE mode' = mode
    BY <1>1, PlainParts
  <1>2. ASSUME NEW p \in Procs, WriteStep(p) PROVE mode' = mode
    BY <1>2, WriteParts
  <1>3. ASSUME NEW p \in Procs, NEW u \in Users, NEW S \in SUBSET Nodes, Create(p, u, S)
        PROVE  mode' = mode
    BY <1>3, CreateParts
  <1>4. ASSUME NEW p \in Procs, NEW u \in Users, NEW kind \in Kinds, Read(p, kind, u)
        PROVE  mode' = mode
    BY <1>4, ReadParts DEF Kinds
  <1>5. CASE SweepStart \/ SweepMark \/ Crash
    BY <1>5 DEF SweepStart, SweepMark, Crash
  <1>6. ASSUME NEW n \in Nodes, CheckDrift(n) \/ ToggleNode(n) \/ RestartXray(n)
        PROVE  mode' = mode
    BY <1>6 DEF CheckDrift, ToggleNode, RestartXray
  <1>7. ASSUME NEW u \in Users, Expire(u) PROVE mode' = mode
    BY <1>7 DEF Expire
  <1>8. CASE UNCHANGED vars
    BY <1>8 DEF vars
  <1> QED
    BY <1>1, <1>2, <1>3, <1>4, <1>5, <1>6, <1>7, <1>8, StepKinds

(* Every variable keeps to its domain, whatever overlaps.                  *)
THEOREM LiveTypeCorrect == Spec => []TypeOK
  <1>1. LiveInv => TypeOK
    BY DEF LiveInv, LiveTypes
  <1> QED
    BY <1>1, LiveInvInit, LiveInvStep, PTL DEF Spec
-----------------------------------------------------------------------------
(* The swept mark: each step.                                              *)

LEMMA MarksInit == Init => MarksFit
  <1> SUFFICES ASSUME Init PROVE MarksFit
    OBVIOUS
  <1>1. \A u \in Users : user[u] = Absent \/ user[u] = Member
    BY DEF Init
  <1>2. \A p \in Workers : job[p] = Idle
    BY DEF Init
  <1> QED
    BY <1>1, <1>2, IdleType, WorkerParts DEF MarksFit, Absent, Member

(* A written row keeps the mark to expired users, and those a sweep has    *)
(* still to come to expired or gone.                                       *)
LEMMA WrittenMarks ==
  ASSUME LiveTypes, MarksFit, SweepMode(mode), NEW p \in Procs, job[p].pc = "write",
         NEW r \in User, Written(p, r)
  PROVE  /\ r.swept => r.expiry = "past"
         /\ r.state = "none" => r.expiry # "past"
         /\ \/ ~mode.together
            \/ LET now == user[job[p].u]
               IN now.expiry = "past" \/ now.state = "gone"
                      => r.expiry = "past" \/ r.state = "gone"
  <1>1. /\ job[p].u \in Users /\ job[p].seen \in User /\ user[job[p].u] \in User
        /\ job[p].fresh \in Nat /\ There(job[p].seen) /\ job[p].kind \in mode.requests
        /\ job[p].seen.swept => job[p].seen.expiry = "past"
    BY WorkerParts, Typed DEF MarksFit, LiveTypes, TypeOK, Job, Uuids
  <1>2. /\ user[job[p].u].swept => user[job[p].u].expiry = "past"
        /\ user[job[p].u].state = "none" => user[job[p].u].expiry # "past"
    BY <1>1 DEF MarksFit
  <1>3. CASE r = Gone
    BY <1>3 DEF Gone, Absent
  <1>4. CASE r = user[job[p].u]
    BY <1>2, <1>4
  <1>5. CASE r = [user[job[p].u] EXCEPT !.active = ~job[p].seen.active]
    BY <1>1, <1>2, <1>5 DEF User
  <1>6. CASE r = [user[job[p].u] EXCEPT !.uuid = job[p].fresh]
    BY <1>1, <1>2, <1>6, FreshUuid
  <1>7. CASE job[p].kind \in {"regroup", "renew"}
    <2>1. ~mode.together
      BY <1>1, <1>7 DEF SweepMode
    <2>2. r.state = "there" /\ (r.swept => r.expiry = "past")
      <3>1. ASSUME NEW S, r = [job[p].seen EXCEPT !.on = S,
                        !.expiry = IF Lapsed(job[p].seen, user[job[p].u]) THEN "past" ELSE @]
            PROVE  r.state = "there" /\ (r.swept => r.expiry = "past")
        BY <1>1, <3>1 DEF User, There, Lapsed
      <3>2. CASE r = [job[p].seen EXCEPT !.expiry = "ahead", !.swept = FALSE,
                                    !.on = @ \cup user[job[p].u].on]
        BY <1>1, <3>2 DEF User, There
      <3> QED
        BY <1>7, <3>1, <3>2 DEF Written
    <2> QED
      BY <2>1, <2>2
  <1> QED
    BY <1>3, <1>4, <1>5, <1>6, <1>7 DEF Written

LEMMA MarksKept ==
  ASSUME MarksFit, UNCHANGED <<mode, user>>, NEW p \in Workers, Kept(p)
  PROVE  MarksFit'
  <1>1. \A q \in Workers : \/ job'[q] = job[q]
                           \/ job'[q].pc # "write" /\ job'[q].seen \in {job[q].seen, Absent}
    BY DEF Kept
  <1>2. \/ job'[Sweeper].pc = "idle"
        \/ /\ job[Sweeper].pc # "idle" /\ job'[Sweeper].u = job[Sweeper].u
           /\ job'[Sweeper].sweep = job[Sweeper].sweep
    BY WorkerParts DEF Kept
  <1>3. \A v : job'[Sweeper].pc # "idle" /\ InSweep(job'[Sweeper], v)
                   => job[Sweeper].pc # "idle" /\ InSweep(job[Sweeper], v)
    BY <1>2 DEF InSweep
  <1> QED
    BY <1>1, <1>3 DEF MarksFit, Absent

LEMMA MarksStep ==
  ASSUME LiveInv, SweepMode(mode), MarksFit, [Next]_vars
  PROVE  MarksFit'
  <1> USE DEF LiveInv
  <1>1. ASSUME NEW p \in Workers, PlainStep(p) PROVE MarksFit'
    BY <1>1, PlainParts, MarksKept DEF Kept
  <1>2. ASSUME NEW p \in Procs, WriteStep(p) PROVE MarksFit'
    <2> DEFINE u == job[p].u
    <2>1. /\ job[p].pc = "write" /\ u \in Users /\ UNCHANGED mode /\ job'[p].pc = "plan"
          /\ job'[p].seen.swept = job[p].seen.swept
          /\ job'[p].seen.expiry = job[p].seen.expiry
          /\ \A q \in Workers : q # p => job'[q] = job[q]
      BY <1>2, WriteParts
    <2>2. PICK r \in User : Written(p, r) /\ user' = [user EXCEPT ![u] = r]
      BY <1>2, WriteParts
    <2>3. /\ p \in Workers /\ p # Sweeper /\ Sweeper \in Workers
          /\ ~mode.together => job[Sweeper].pc = "idle"
      BY <2>1, WorkerParts, UserLiveAssumption DEF TurnsAreTaken
    <2>4. user'[u] = r /\ \A v \in Users : v # u => user'[v] = user[v]
      BY <2>1, <2>2 DEF LiveTypes, TypeOK
    <2>5. /\ r.swept => r.expiry = "past"
          /\ r.state = "none" => r.expiry # "past"
          /\ \/ ~mode.together
             \/ user[u].expiry = "past" \/ user[u].state = "gone"
                      => r.expiry = "past" \/ r.state = "gone"
      BY <2>1, <2>2, WrittenMarks
    <2>6. \A v \in Users : (user'[v].swept => user'[v].expiry = "past")
                           /\ (user'[v].state = "none" => user'[v].expiry # "past")
      BY <2>4, <2>5 DEF MarksFit
    <2>7. \A q \in Workers :
             /\ job'[q].seen.swept => job'[q].seen.expiry = "past"
             /\ job'[q].pc = "write" => job'[q].kind \in mode'.requests /\ There(job'[q].seen)
      BY <2>1, <2>3 DEF MarksFit
    <2>8. job'[Sweeper] = job[Sweeper]
      BY <2>1, <2>3
    <2>9. job'[Sweeper].pc # "idle" => \A v \in Users :
             InSweep(job'[Sweeper], v) => user'[v].expiry = "past" \/ user'[v].state = "gone"
      BY <2>3, <2>4, <2>5, <2>8 DEF MarksFit
    <2> QED
      BY <2>6, <2>7, <2>9 DEF MarksFit
  <1>3. ASSUME NEW p \in Procs, NEW u \in Users, NEW S \in SUBSET Nodes, Create(p, u, S)
        PROVE  MarksFit'
    <2>1. /\ job'[p].pc = "plan" /\ job'[p].seen = Absent /\ user[u].state = "none"
          /\ UNCHANGED mode /\ \A q \in Workers : q # p => job'[q] = job[q]
      BY <1>3, CreateParts
    <2>2. PICK r \in User : /\ user' = [user EXCEPT ![u] = r] /\ r.state = "there"
                            /\ ~r.swept
      BY <1>3, CreateParts
    <2>3. user'[u] = r /\ \A v \in Users : v # u => user'[v] = user[v]
      BY <2>2 DEF LiveTypes, TypeOK
    <2>4. p # Sweeper /\ Sweeper \in Workers
      BY WorkerParts, UserLiveAssumption
    <2>5. job'[Sweeper] = job[Sweeper]
      BY <2>1, <2>4
    <2>6. job[Sweeper].pc # "idle" => ~InSweep(job[Sweeper], u)
      BY <2>1 DEF MarksFit
    <2>7. \A v \in Users : (user'[v].swept => user'[v].expiry = "past")
                           /\ (user'[v].state = "none" => user'[v].expiry # "past")
      BY <2>2, <2>3 DEF MarksFit
    <2>8. \A q \in Workers :
             /\ job'[q].seen.swept => job'[q].seen.expiry = "past"
             /\ job'[q].pc = "write" => job'[q].kind \in mode'.requests /\ There(job'[q].seen)
      BY <2>1 DEF MarksFit, Absent
    <2>9. job'[Sweeper].pc # "idle" => \A v \in Users :
             InSweep(job'[Sweeper], v) => user'[v].expiry = "past" \/ user'[v].state = "gone"
      BY <2>3, <2>5, <2>6 DEF MarksFit
    <2> QED
      BY <2>7, <2>8, <2>9 DEF MarksFit
  <1>4. ASSUME NEW p \in Procs, NEW u \in Users, NEW kind \in Kinds, Read(p, kind, u)
        PROVE  MarksFit'
    <2>1. /\ kind \in mode.requests /\ There(user[u]) /\ job'[p].kind = kind
          /\ job'[p].seen = user[u] /\ UNCHANGED <<mode, user>>
          /\ \A q \in Workers : q # p => job'[q] = job[q]
      BY <1>4, ReadParts DEF Kinds
    <2>2. job'[Sweeper] = job[Sweeper]
      BY <2>1, WorkerParts, UserLiveAssumption
    <2> QED
      BY <2>1, <2>2 DEF MarksFit
  <1>5. CASE SweepStart
    <2>1. /\ job'[Sweeper].pc = "rows" /\ job'[Sweeper].seen = Absent
          /\ \A q \in Workers : q # Sweeper => job'[q] = job[q]
          /\ \A v \in Users : InSweep(job'[Sweeper], v) => Expired(user[v])
          /\ UNCHANGED <<mode, user>>
      BY <1>5, SweepStartParts
    <2> QED
      BY <2>1 DEF MarksFit, Absent, Expired
  <1>6. CASE SweepMark
    <2> DEFINE u == job[Sweeper].u
    <2>1. /\ job[Sweeper].pc = "sweep" /\ job'[Sweeper].pc \in {"rows", "idle"}
          /\ \A q \in Workers : q # Sweeper => job'[q] = job[q]
          /\ job'[Sweeper].seen \in {job[Sweeper].seen, Absent}
          /\ job'[Sweeper].pc = "rows" =>
                 \A v \in Users : InSweep(job'[Sweeper], v) => InSweep(job[Sweeper], v)
          /\ UNCHANGED mode
      BY <1>6, SweepMarkParts
    <2>2. u \in Users /\ user' = [user EXCEPT ![u].swept = There(user[u])]
      BY <1>6, SweepMarkParts, WorkerParts, Typed
    <2>3. \A v \in Users : /\ user'[v].expiry = user[v].expiry
                           /\ user'[v].state = user[v].state
                           /\ v # u => user'[v].swept = user[v].swept
      BY <2>2 DEF LiveTypes, TypeOK, User
    <2>4. user'[u].swept => There(user[u])
      BY <2>2 DEF LiveTypes, TypeOK, User
    <2>5. user[u].expiry = "past" \/ user[u].state = "gone"
      BY <2>1, <2>2 DEF MarksFit, InSweep
    <2> QED
      BY <2>1, <2>3, <2>4, <2>5 DEF MarksFit, Absent, There
  <1>7. CASE Crash
    BY <1>7, CrashParts, IdleType, WorkerParts DEF MarksFit, Absent
  <1>8. ASSUME UNCHANGED <<mode, user, job>> PROVE MarksFit'
    BY <1>8 DEF MarksFit
  <1>9. ASSUME NEW n \in Nodes, CheckDrift(n) \/ ToggleNode(n) \/ RestartXray(n) PROVE MarksFit'
    BY <1>8, <1>9, CheckDriftParts, ToggleNodeParts, RestartParts
  <1>10. ASSUME NEW u \in Users, Expire(u) PROVE MarksFit'
    <2>1. /\ There(user[u]) /\ user' = [user EXCEPT ![u].expiry = "past"]
          /\ UNCHANGED <<mode, job>>
      BY <1>10, ExpireParts
    <2>2. \A v \in Users : /\ user'[v].state = user[v].state /\ user'[v].swept = user[v].swept
                           /\ v # u => user'[v].expiry = user[v].expiry
      BY <2>1 DEF LiveTypes, TypeOK, User
    <2>3. user'[u].expiry = "past"
      BY <2>1 DEF LiveTypes, TypeOK, User
    <2> QED
      BY <2>1, <2>2, <2>3 DEF MarksFit, There
  <1>11. CASE UNCHANGED vars
    BY <1>8, <1>11 DEF vars
  <1> QED
    BY <1>1, <1>2, <1>3, <1>4, <1>5, <1>6, <1>7, <1>9, <1>10, <1>11, StepKinds

(* SweepExpired and Update: where requests take turns, or renewals and     *)
(* changes of groups do not overlap anything, no user that is not expired  *)
(* ever carries the mark that keeps the next sweep away.                   *)
THEOREM SweptUsersAreExpired == Spec => [](SweepMode(mode) => SweptMeansExpired)
  <1> DEFINE I == LiveInv /\ (SweepMode(mode) => MarksFit)
  <1>1. Init => I
    BY LiveInvInit, MarksInit
  <1>2. I /\ [Next]_vars => I'
    <2>1. LiveInv /\ [Next]_vars => LiveInv'
      BY LiveInvStep
    <2>2. LiveInv /\ [Next]_vars => mode' = mode
      BY ModeStays
    <2> QED
      BY <2>1, <2>2, MarksStep DEF SweepMode
  <1>3. I => (SweepMode(mode) => SweptMeansExpired)
    BY DEF MarksFit, SweptMeansExpired
  <1> QED
    BY <1>1, <1>2, <1>3, PTL DEF Spec
-----------------------------------------------------------------------------
(* The files: a step of a worker that changes no table.                    *)

(* What such a step by p must do to keep the files somebody's business.    *)
Careful(p) ==
    /\ \A q \in Workers : q # p => job'[q] = job[q]
    /\ JobFits(p)'
    /\ \A n \in Nodes : node'[n].active
    /\ \A n \in Nodes : lock'[n] # lock[n] => lock[n] \in {p, Nobody}
    /\ \A n \in Nodes : disk'[n] # disk[n] => lock[n] = p
    /\ job'[p].pc \in Holding => lock'[job'[p].at] = p
    /\ job'[p].pc \in {"grpc", "record", "pushed"} => disk'[job'[p].at] = job'[p].cfg
    /\ job'[p].pc \in Holding =>
           \/ job'[p].cfg = Generated(base, user, job'[p].at)
           \/ /\ job[p].pc \in Holding /\ job'[p].at = job[p].at
              /\ job'[p].cfg = job[p].cfg
    /\ \A n \in Nodes : n \in Future(job[p], user) =>
           \/ n \in Future(job'[p], user)
           \/ /\ job'[p].pc = "upload" /\ job'[p].at = n /\ lock[n] = Nobody
              /\ job'[p].cfg = Generated(base, user, n)
    /\ \A n \in Nodes :
           node'[n].status = "synced" /\ disk'[n] # Generated(base, user, n) =>
               \/ Owed(job, user, n) \/ Direct(job'[p], n)
               \/ \E q \in Workers : q # p /\ Direct(job[q], n)

LEMMA CarefulStep ==
  ASSUME LiveInv, LiveTypes', Alive, UNCHANGED <<mode, user, base>>,
         NEW p \in Workers, Careful(p)
  PROVE  Alive'
  <1> USE DEF LiveInv
  <1>0. /\ \A q \in Workers : job[q].at \in Nodes /\ job'[q].at \in Nodes
        /\ Nobody \notin Workers
    <2>1. \A q \in Workers : job'[q] \in Job
      BY DEF LiveTypes, TypeOK
    <2> QED
      BY <2>1, Typed, JobParts, WorkerParts
  <1>1. \A q \in Workers : q # p => job'[q] = job[q]
    BY DEF Careful
  <1>2. \A q \in Workers : JobFits(q)'
    <2> SUFFICES ASSUME NEW q \in Workers PROVE JobFits(q)'
      OBVIOUS
    <2>1. CASE q = p
      BY <2>1 DEF Careful
    <2>2. CASE q # p
      BY <1>1, <2>2 DEF JobFits, Alive
    <2> QED
      BY <2>1, <2>2
  <1>3. ASSUME NEW n \in Nodes, Owed(job, user, n)
        PROVE  \/ Owed(job', user', n)
               \/ /\ job'[p].pc = "upload" /\ job'[p].at = n /\ lock[n] = Nobody
                  /\ job'[p].cfg = Generated(base, user, n)
    <2>1. PICK q \in Workers : n \in Future(job[q], user)
      BY <1>3 DEF Owed
    <2>2. CASE q # p
      <3>1. n \in Future(job'[q], user')
        BY <1>1, <2>1, <2>2
      <3> QED
        BY <3>1 DEF Owed
    <2>3. CASE q = p
      <3>1. CASE n \in Future(job'[p], user')
        BY <3>1 DEF Owed
      <3> QED
        BY <2>1, <2>3, <3>1 DEF Careful
    <2> QED
      BY <2>2, <2>3
  <1>4. LocksFit'
    <2> SUFFICES ASSUME NEW q \in Workers, job'[q].pc \in Holding
                 PROVE  lock'[job'[q].at] = q
      BY DEF LocksFit
    <2>1. CASE q = p
      BY <2>1 DEF Careful
    <2>2. CASE q # p
      BY <1>0, <1>1, <2>2 DEF Careful, LocksFit, Alive
    <2> QED
      BY <2>1, <2>2
  <1>5. HeldFits'
    <2> SUFFICES ASSUME NEW q \in Workers
                 PROVE  /\ job'[q].pc \in Holding =>
                              \/ job'[q].cfg = Generated(base', user', job'[q].at)
                              \/ Owed(job', user', job'[q].at)
                        /\ job'[q].pc \in {"grpc", "record", "pushed"} =>
                              disk'[job'[q].at] = job'[q].cfg
      BY DEF HeldFits
    <2>1. CASE q = p
      <3>1. job'[p].pc \in {"grpc", "record", "pushed"} => disk'[job'[p].at] = job'[p].cfg
        BY DEF Careful
      <3>2. ASSUME job'[p].pc \in Holding
            PROVE  \/ job'[p].cfg = Generated(base, user, job'[p].at)
                   \/ Owed(job', user', job'[p].at)
        <4>1. CASE job'[p].cfg = Generated(base, user, job'[p].at)
          BY <4>1
        <4>2. CASE /\ job[p].pc \in Holding /\ job'[p].at = job[p].at
                   /\ job'[p].cfg = job[p].cfg
          <5>1. \/ job[p].cfg = Generated(base, user, job[p].at)
                \/ Owed(job, user, job[p].at)
            BY <4>2 DEF Alive, HeldFits
          <5>2. job[p].at \in Nodes
            BY <1>0
          <5> QED
            BY <1>3, <4>2, <5>1, <5>2
        <4> QED
          BY <3>2, <4>1, <4>2 DEF Careful
      <3> QED
        BY <2>1, <3>1, <3>2
    <2>2. CASE q # p
      <3>1. job'[q] = job[q] /\ job[q].at \in Nodes
        BY <1>0, <1>1, <2>2
      <3>2. job[q].pc \in Holding => lock[job[q].at] = q
        BY DEF LocksFit, Alive
      <3>3. job[q].pc \in {"grpc", "record", "pushed"} => disk[job[q].at] = job[q].cfg
        BY DEF HeldFits, Alive
      <3>4. job[q].pc \in Holding => disk'[job[q].at] = disk[job[q].at]
        BY <2>2, <3>1, <3>2 DEF Careful
      <3>5. job[q].pc \in {"grpc", "record", "pushed"} => disk'[job[q].at] = job[q].cfg
        BY <3>3, <3>4 DEF Holding
      <3>6. ASSUME job[q].pc \in Holding, Owed(job, user, job[q].at) PROVE Owed(job', user', job[q].at)
        BY <1>0, <1>3, <3>1, <3>2, <3>6
      <3>7. job[q].pc \in Holding => \/ job[q].cfg = Generated(base, user, job[q].at)
                                     \/ Owed(job, user, job[q].at)
        BY DEF HeldFits, Alive
      <3> QED
        BY <3>1, <3>5, <3>6, <3>7
    <2> QED
      BY <2>1, <2>2
  <1>6. StaleIsOwed'
    <2> SUFFICES ASSUME NEW n \in Nodes, node'[n].status = "synced",
                        disk'[n] # Generated(base', user', n)
                 PROVE  Owed(job', user', n) \/ \E q \in Workers : Direct(job'[q], n)
      BY DEF StaleIsOwed
    <2>1. \/ Owed(job, user, n) \/ Direct(job'[p], n)
          \/ \E q \in Workers : q # p /\ Direct(job[q], n)
      BY DEF Careful
    <2>2. ASSUME job'[p].pc = "upload", job'[p].at = n PROVE Direct(job'[p], n)
      BY <2>2 DEF Direct
    <2> QED
      BY <1>1, <1>3, <2>1, <2>2
  <1> QED
    BY <1>2, <1>4, <1>5, <1>6 DEF Alive, Careful

LEMMA JobFitsKept ==
  ASSUME NEW p \in Workers, JobFits(p), Kept(p), job'[p].pc # "plan",
         job'[p].pc = "editMark" => ~mode.together
  PROVE  JobFits(p)'
  <1>1. job'[p].seen.expiry # "past"
    BY DEF Kept, JobFits, Absent
  <1>2. job'[p].pc # "idle" => p # Sweeper
    BY DEF Kept, JobFits
  <1> QED
    BY <1>1, <1>2 DEF Kept, JobFits

LEMMA AllActive ==
  ASSUME Alive
  PROVE  ActiveNodes = Nodes
  BY DEF Alive, ActiveNodes

LEMMA PlanCareful ==
  ASSUME LiveInv, Alive, NEW p \in Workers, Plan(p)
  PROVE  Careful(p)
  <1>1. /\ Kept(p) /\ job[p].pc = "plan" /\ job'[p].pc = "rows"
        /\ job'[p].passes = PassesOf(job[p], user[job[p].u], Nodes)
        /\ UNCHANGED <<mode, user, base, node, disk, run, lock, used>>
    BY PlanParts, AllActive DEF LiveInv
  <1>2. JobFits(p)'
    BY <1>1, JobFitsKept DEF Alive
  <1>3. Future(job'[p], user) = Future(job[p], user)
    BY <1>1 DEF Future
  <1> QED
    BY <1>1, <1>2, <1>3 DEF Careful, Kept, Alive, StaleIsOwed, Direct, Holding

LEMMA ReadRowsCareful ==
  ASSUME LiveInv, Alive, NEW p \in Workers, ReadRows(p)
  PROVE  Careful(p)
  <1>1. /\ Kept(p) /\ job[p].pc = "rows"
        /\ UNCHANGED <<mode, user, base, node, disk, run, lock, used>>
        /\ \/ job[p].passes = <<>> /\ job'[p].pc \in {"sweep", "idle"}
           \/ /\ job[p].passes # <<>> /\ job'[p].pc = "next"
              /\ job'[p].todo = Head(job[p].passes).on /\ job'[p].passes = job[p].passes
    BY ReadRowsParts DEF LiveInv
  <1>2. JobFits(p)'
    BY <1>1, JobFitsKept DEF Alive
  <1>3. \A n \in Nodes : n \in Future(job[p], user) => n \in Future(job'[p], user)
    <2>1. CASE job[p].passes = <<>>
      BY <1>1, <2>1, NoReach DEF Future
    <2>2. CASE job[p].passes # <<>>
      <3>1. Reach(job[p].passes) = Head(job[p].passes).on \cup Reach(Tail(job[p].passes))
        BY <2>2, Typed, PassesSplit DEF LiveInv
      <3> QED
        BY <1>1, <2>2, <3>1 DEF Future, InPass
    <2> QED
      BY <2>1, <2>2
  <1> QED
    BY <1>1, <1>2, <1>3 DEF Careful, Kept, Alive, StaleIsOwed, Direct, Holding

LEMMA PassDoneCareful ==
  ASSUME LiveInv, Alive, NEW p \in Workers, PassDone(p)
  PROVE  Careful(p)
  <1>1. job[p].passes # <<>>
    BY DEF PassDone, LiveInv, PassAtHand, InPass
  <1>2. /\ Kept(p) /\ job[p].pc = "next" /\ job[p].todo = {}
        /\ job'[p].pc = "rows" /\ job'[p].passes = Tail(job[p].passes)
        /\ UNCHANGED <<mode, user, base, node, disk, run, lock, used>>
    BY <1>1, PassDoneParts DEF LiveInv
  <1>3. JobFits(p)'
    BY <1>2, JobFitsKept DEF Alive
  <1>4. \A n \in Nodes : n \in Future(job[p], user) => n \in Future(job'[p], user)
    BY <1>2 DEF Future, InPass
  <1> QED
    BY <1>2, <1>3, <1>4 DEF Careful, Kept, Alive, StaleIsOwed, Direct, Holding

LEMMA LockAndBuildCareful ==
  ASSUME LiveInv, Alive, NEW p \in Workers, NEW m \in Nodes, LockAndBuild(p, m)
  PROVE  Careful(p)
  <1>1. /\ Kept(p) /\ job[p].pc = "next"
        /\ job'[p].pc = "upload" /\ job'[p].todo = job[p].todo \ {m}
        /\ job'[p].at = m /\ job'[p].cfg = Generated(base, user, m)
        /\ job'[p].passes = job[p].passes
        /\ lock[m] = Nobody /\ lock' = [lock EXCEPT ![m] = p]
        /\ UNCHANGED <<mode, user, base, node, disk, run, used>>
    BY LockAndBuildParts DEF LiveInv
  <1>2. JobFits(p)'
    BY <1>1, JobFitsKept DEF Alive
  <1>3. lock'[m] = p /\ \A n \in Nodes : n # m => lock'[n] = lock[n]
    BY <1>1 DEF LiveInv, LiveTypes, TypeOK
  <1>4. \A n \in Nodes : n \in Future(job[p], user) => n = m \/ n \in Future(job'[p], user)
    BY <1>1 DEF Future, InPass
  <1> QED
    BY <1>1, <1>2, <1>3, <1>4 DEF Careful, Kept, Alive, StaleIsOwed, Direct, Holding

LEMMA LockLeft ==
  ASSUME LiveInv, Alive, NEW p \in Workers, job[p].pc \in Holding,
         lock' = [lock EXCEPT ![job[p].at] = Nobody]
  PROVE  \A n \in Nodes : lock'[n] # lock[n] => lock[n] = p
  BY DEF LiveInv, LiveTypes, TypeOK, Alive, LocksFit

LEMMA FileWritten ==
  ASSUME LiveInv, Alive, NEW p \in Workers, job[p].pc \in Holding,
         disk' = [disk EXCEPT ![job[p].at] = job[p].cfg]
  PROVE  /\ job[p].at \in Nodes
         /\ disk'[job[p].at] = job[p].cfg
         /\ \A n \in Nodes : n # job[p].at => disk'[n] = disk[n]
         /\ \A n \in Nodes : disk'[n] # disk[n] => lock[n] = p
         /\ \/ disk'[job[p].at] = Generated(base, user, job[p].at)
            \/ Owed(job, user, job[p].at)
  <1>1. job[p].at \in Nodes
    BY Typed DEF LiveInv
  <1>2. /\ disk'[job[p].at] = job[p].cfg
        /\ \A n \in Nodes : n # job[p].at => disk'[n] = disk[n]
    BY <1>1 DEF LiveInv, LiveTypes, TypeOK
  <1> QED
    BY <1>1, <1>2 DEF Alive, LocksFit, HeldFits

LEMMA UploadCareful ==
  ASSUME LiveInv, Alive, NEW p \in Workers, Upload(p)
  PROVE  Careful(p)
  <1>1. /\ Kept(p) /\ job[p].pc = "upload"
        /\ job'[p].at = job[p].at /\ job'[p].cfg = job[p].cfg
        /\ job'[p].passes = job[p].passes /\ job'[p].todo = job[p].todo
        /\ \/ /\ disk' = [disk EXCEPT ![job[p].at] = job[p].cfg] /\ job'[p].pc = "grpc"
              /\ UNCHANGED lock
           \/ /\ lock' = [lock EXCEPT ![job[p].at] = Nobody] /\ job'[p].pc = "mark"
              /\ UNCHANGED disk
        /\ UNCHANGED <<mode, user, base, node, run>>
    BY UploadParts DEF LiveInv
  <1>2. JobFits(p)'
    BY <1>1, JobFitsKept DEF Alive
  <1>3. Future(job'[p], user) = Future(job[p], user)
    BY <1>1 DEF Future, InPass
  <1>4. job[p].pc \in Holding /\ lock[job[p].at] = p
    BY <1>1 DEF Holding, Alive, LocksFit
  <1>5. CASE /\ disk' = [disk EXCEPT ![job[p].at] = job[p].cfg] /\ job'[p].pc = "grpc"
             /\ UNCHANGED lock
    <2>1. /\ disk'[job[p].at] = job[p].cfg
          /\ \A n \in Nodes : n # job[p].at => disk'[n] = disk[n]
          /\ \A n \in Nodes : disk'[n] # disk[n] => lock[n] = p
          /\ \/ disk'[job[p].at] = Generated(base, user, job[p].at)
             \/ Owed(job, user, job[p].at)
      BY <1>4, <1>5, FileWritten
    <2>2. ASSUME NEW n \in Nodes, node'[n].status = "synced",
                 disk'[n] # Generated(base, user, n)
          PROVE  Owed(job, user, n) \/ \E q \in Workers : q # p /\ Direct(job[q], n)
      <3>1. CASE n = job[p].at
        BY <2>1, <2>2, <3>1
      <3>2. CASE n # job[p].at
        BY <1>1, <2>1, <2>2, <3>2 DEF Alive, StaleIsOwed, Direct
      <3> QED
        BY <3>1, <3>2
    <2> QED
      BY <1>1, <1>2, <1>3, <1>4, <1>5, <2>1, <2>2 DEF Careful, Kept, Alive
  <1>6. CASE /\ lock' = [lock EXCEPT ![job[p].at] = Nobody] /\ job'[p].pc = "mark"
             /\ UNCHANGED disk
    <2>1. \A n \in Nodes : lock'[n] # lock[n] => lock[n] = p
      BY <1>4, <1>6, LockLeft
    <2>2. \A n \in Nodes : Direct(job[p], n) => Direct(job'[p], n)
      BY <1>1, <1>6 DEF Direct
    <2> QED
      BY <1>1, <1>2, <1>3, <1>6, <2>1, <2>2 DEF Careful, Kept, Alive, StaleIsOwed, Holding
  <1> QED
    BY <1>1, <1>5, <1>6

LEMMA GrpcCareful ==
  ASSUME LiveInv, Alive, NEW p \in Workers, Grpc(p)
  PROVE  Careful(p)
  <1>1. job[p].passes # <<>>
    BY DEF Grpc, LiveInv, PassAtHand, InPass
  <1>2. /\ Kept(p) /\ job[p].pc = "grpc"
        /\ job'[p].at = job[p].at /\ job'[p].cfg = job[p].cfg
        /\ job'[p].passes = job[p].passes /\ job'[p].todo = job[p].todo
        /\ \/ job'[p].pc = "record" /\ UNCHANGED lock
           \/ job'[p].pc = "mark" /\ lock' = [lock EXCEPT ![job[p].at] = Nobody]
        /\ UNCHANGED <<mode, user, base, node, disk>>
    BY <1>1, GrpcParts DEF LiveInv
  <1>3. JobFits(p)'
    BY <1>2, JobFitsKept DEF Alive
  <1>4. Future(job'[p], user) = Future(job[p], user)
    BY <1>2 DEF Future, InPass
  <1>5. /\ job[p].pc \in Holding /\ lock[job[p].at] = p /\ disk[job[p].at] = job[p].cfg
    BY <1>2 DEF Holding, Alive, LocksFit, HeldFits
  <1>6. \A n \in Nodes : lock'[n] # lock[n] => lock[n] = p
    BY <1>2, <1>5, LockLeft
  <1>7. \A n \in Nodes : ~Direct(job[p], n)
    BY <1>2 DEF Direct
  <1> QED
    BY <1>2, <1>3, <1>4, <1>5, <1>6, <1>7 DEF Careful, Kept, Alive, StaleIsOwed, Holding

LEMMA RecordCareful ==
  ASSUME LiveInv, Alive, NEW p \in Workers, Record(p) \/ SyncRecord(p)
  PROVE  Careful(p)
  <1>1. /\ Kept(p) /\ job[p].pc \in {"record", "pushed"} /\ job'[p].pc \in {"next", "idle"}
        /\ lock' = [lock EXCEPT ![job[p].at] = Nobody]
        /\ \A m \in Nodes : m # job[p].at => node'[m] = node[m]
        /\ \A m \in Nodes : node'[m].active = node[m].active
        /\ UNCHANGED <<mode, user, base, disk, run, used>>
    BY RecordParts, SyncRecordParts DEF LiveInv
  <1>2. \A n \in Nodes : n \in Future(job[p], user) => n \in Future(job'[p], user)
    <2>1. CASE Record(p)
      <3>1. /\ job[p].pc = "record" /\ job'[p].pc = "next"
            /\ job'[p].passes = job[p].passes /\ job'[p].todo = job[p].todo
        BY <2>1, RecordParts DEF LiveInv
      <3> QED
        BY <3>1 DEF Future, InPass
    <2>2. CASE SyncRecord(p)
      <3>1. job[p].pc = "pushed"
        BY <2>2, SyncRecordParts DEF LiveInv
      <3> QED
        BY <3>1 DEF Future, InPass
    <2> QED
      BY <2>1, <2>2
  <1>3. JobFits(p)'
    BY <1>1, JobFitsKept DEF Alive
  <1>4. job[p].pc \in Holding /\ disk[job[p].at] = job[p].cfg
    BY <1>1 DEF Holding, Alive, HeldFits
  <1>5. \A n \in Nodes : lock'[n] # lock[n] => lock[n] = p
    BY <1>1, <1>4, LockLeft
  <1>6. \A n \in Nodes : ~Direct(job[p], n)
    BY <1>1 DEF Direct
  <1>7. ASSUME NEW n \in Nodes, node'[n].status = "synced", disk[n] # Generated(base, user, n)
        PROVE  Owed(job, user, n) \/ \E q \in Workers : q # p /\ Direct(job[q], n)
    <2>1. CASE n = job[p].at
      BY <1>4, <1>7, <2>1 DEF Alive, HeldFits
    <2>2. CASE n # job[p].at
      BY <1>1, <1>6, <1>7, <2>2 DEF Alive, StaleIsOwed
    <2> QED
      BY <2>1, <2>2
  <1> QED
    BY <1>1, <1>2, <1>3, <1>5, <1>7 DEF Careful, Kept, Alive, Holding

LEMMA MarkDriftedCareful ==
  ASSUME LiveInv, Alive, NEW p \in Workers, MarkDrifted(p)
  PROVE  Careful(p)
  <1>1. /\ Kept(p) /\ job[p].pc = "mark"
        /\ job'[p].pc = "next" /\ job'[p].passes = job[p].passes
        /\ job'[p].todo = job[p].todo
        /\ node'[job[p].at].status = "drifted"
        /\ \A m \in Nodes : m # job[p].at => node'[m] = node[m]
        /\ \A m \in Nodes : node'[m].active = node[m].active
        /\ UNCHANGED <<mode, user, base, disk, run, lock, used>>
    BY MarkDriftedParts DEF LiveInv
  <1>2. JobFits(p)'
    BY <1>1, JobFitsKept DEF Alive
  <1>3. Future(job'[p], user) = Future(job[p], user)
    BY <1>1 DEF Future, InPass
  <1>4. \A n \in Nodes : n # job[p].at => ~Direct(job[p], n)
    BY <1>1 DEF Direct
  <1> QED
    BY <1>1, <1>2, <1>3, <1>4 DEF Careful, Kept, Alive, StaleIsOwed, Holding

LEMMA SyncBuildCareful ==
  ASSUME LiveInv, Alive, NEW p \in Procs, NEW m \in Nodes, SyncBuild(p, m)
  PROVE  Careful(p)
  <1>1. /\ Kept(p) /\ job[p].pc = "idle"
        /\ job'[p].pc = "push" /\ job'[p].at = m
        /\ job'[p].cfg = Generated(base, user, m)
        /\ lock[m] = Nobody /\ lock' = [lock EXCEPT ![m] = p]
        /\ UNCHANGED <<mode, user, base, node, disk, run>>
    BY SyncBuildParts DEF LiveInv
  <1>2. p \in Workers
    BY WorkerParts
  <1>3. JobFits(p)'
    BY <1>1, <1>2, JobFitsKept DEF Alive
  <1>4. lock'[m] = p /\ \A n \in Nodes : n # m => lock'[n] = lock[n]
    BY <1>1 DEF LiveInv, LiveTypes, TypeOK
  <1>5. Future(job[p], user) = {} /\ \A n \in Nodes : ~Direct(job[p], n)
    BY <1>1 DEF Future, InPass, Direct
  <1> QED
    BY <1>1, <1>2, <1>3, <1>4, <1>5 DEF Careful, Kept, Alive, StaleIsOwed, Holding

LEMMA SyncPushCareful ==
  ASSUME LiveInv, Alive, NEW p \in Workers, SyncPush(p)
  PROVE  Careful(p)
  <1>1. /\ Kept(p) /\ job[p].pc = "push"
        /\ \/ /\ disk' = [disk EXCEPT ![job[p].at] = job[p].cfg] /\ job'[p].pc = "pushed"
              /\ job'[p].at = job[p].at /\ job'[p].cfg = job[p].cfg
              /\ UNCHANGED <<node, lock>>
           \/ /\ job'[p].pc = "idle"
              /\ node'[job[p].at].status = "failed"
              /\ \A m \in Nodes : m # job[p].at => node'[m] = node[m]
              /\ \A m \in Nodes : node'[m].active = node[m].active
              /\ lock' = [lock EXCEPT ![job[p].at] = Nobody]
              /\ UNCHANGED disk
        /\ UNCHANGED <<mode, user, base>>
    BY SyncPushParts DEF LiveInv
  <1>2. JobFits(p)'
    BY <1>1, JobFitsKept DEF Alive
  <1>3. Future(job[p], user) = {}
    BY <1>1 DEF Future, InPass
  <1>4. job[p].pc \in Holding /\ lock[job[p].at] = p
    BY <1>1 DEF Holding, Alive, LocksFit
  <1>5. \A n \in Nodes : n # job[p].at => ~Direct(job[p], n)
    BY <1>1 DEF Direct
  <1>6. CASE /\ disk' = [disk EXCEPT ![job[p].at] = job[p].cfg] /\ job'[p].pc = "pushed"
             /\ job'[p].at = job[p].at /\ job'[p].cfg = job[p].cfg
             /\ UNCHANGED <<node, lock>>
    <2>1. /\ disk'[job[p].at] = job[p].cfg
          /\ \A n \in Nodes : n # job[p].at => disk'[n] = disk[n]
          /\ \A n \in Nodes : disk'[n] # disk[n] => lock[n] = p
          /\ \/ disk'[job[p].at] = Generated(base, user, job[p].at)
             \/ Owed(job, user, job[p].at)
      BY <1>4, <1>6, FileWritten
    <2>2. ASSUME NEW n \in Nodes, node'[n].status = "synced",
                 disk'[n] # Generated(base, user, n)
          PROVE  Owed(job, user, n) \/ \E q \in Workers : q # p /\ Direct(job[q], n)
      <3>1. CASE n = job[p].at
        BY <2>1, <2>2, <3>1
      <3>2. CASE n # job[p].at
        BY <1>5, <1>6, <2>1, <2>2, <3>2 DEF Alive, StaleIsOwed
      <3> QED
        BY <3>1, <3>2
    <2> QED
      BY <1>1, <1>2, <1>3, <1>4, <1>6, <2>1, <2>2 DEF Careful, Kept, Alive
  <1>7. CASE /\ job'[p].pc = "idle"
             /\ node'[job[p].at].status = "failed"
             /\ \A m \in Nodes : m # job[p].at => node'[m] = node[m]
             /\ \A m \in Nodes : node'[m].active = node[m].active
             /\ lock' = [lock EXCEPT ![job[p].at] = Nobody]
             /\ UNCHANGED disk
    <2>1. \A n \in Nodes : lock'[n] # lock[n] => lock[n] = p
      BY <1>4, <1>7, LockLeft
    <2> QED
      BY <1>1, <1>2, <1>3, <1>5, <1>7, <2>1 DEF Careful, Kept, Alive, StaleIsOwed, Holding
  <1> QED
    BY <1>1, <1>6, <1>7

LEMMA MarkAllCareful ==
  ASSUME LiveInv, Alive, NEW p \in Workers, MarkAllDrifted(p)
  PROVE  Careful(p)
  <1>1. /\ Kept(p) /\ job[p].pc = "editMark" /\ job'[p].pc = "idle"
        /\ \A m \in Nodes : node'[m].active = node[m].active
        /\ \A m \in Nodes : node[m].active => node'[m].status = "drifted"
        /\ UNCHANGED <<mode, user, base, disk, run, lock, used>>
    BY MarkAllParts DEF LiveInv
  <1>2. JobFits(p)'
    BY <1>1, JobFitsKept DEF Alive
  <1>3. Future(job[p], user) = {}
    BY <1>1 DEF Future, InPass
  <1> QED
    BY <1>1, <1>2, <1>3 DEF Careful, Kept, Alive, Holding

(* An edit runs alone; every node waits for its mark.                      *)
LEMMA EditAlive ==
  ASSUME LiveInv, Alive, FilesMode(mode), NEW p \in Procs, Edit(p)
  PROVE  Alive'
  <1>1. /\ Kept(p) /\ job[p].pc = "idle" /\ job'[p].pc = "editMark"
        /\ "edit" \in mode.requests /\ MyTurn
        /\ UNCHANGED <<mode, user, node, disk, run, lock>>
    BY EditParts DEF LiveInv
  <1>2. ~mode.together /\ Quiet /\ p \in Workers
    BY <1>1, WorkerParts DEF FilesMode, MyTurn
  <1>3. \A q \in Workers : q # p => job'[q] = job[q] /\ job'[q].pc = "idle"
    BY <1>1, <1>2 DEF Kept, Quiet
  <1>4. \A q \in Workers : JobFits(q)'
    <2>1. JobFits(p)'
      BY <1>1, <1>2, JobFitsKept DEF Alive
    <2>2. \A q \in Workers : q # p => JobFits(q)'
      BY <1>1, <1>3 DEF Alive, JobFits
    <2> QED
      BY <2>1, <2>2
  <1>5. \A q \in Workers : job'[q].pc \notin Holding
    BY <1>1, <1>3 DEF Holding
  <1>6. \A n : Direct(job'[p], n)
    BY <1>1 DEF Direct
  <1> QED
    BY <1>1, <1>2, <1>4, <1>5, <1>6 DEF Alive, LocksFit, HeldFits, StaleIsOwed, Holding
-----------------------------------------------------------------------------
(* The files: requests that read or write a user.                          *)

(* A user's account is in what is generated for a node.                    *)
Reaches(r, n) == Effective(r) /\ n \in r.on

(* A written row changes what is generated only where it, or the row       *)
(* before it, reaches the node.                                            *)
LEMMA GeneratedOnly ==
  ASSUME NEW U \in [Users -> User], NEW u \in Users, NEW r \in User, NEW b, NEW n \in Nodes,
         Generated(b, U, n) # Generated(b, [U EXCEPT ![u] = r], n)
  PROVE  /\ Reaches(U[u], n) \/ Reaches(r, n)
         /\ ~(Reaches(U[u], n) /\ Reaches(r, n) /\ U[u].uuid = r.uuid)
  <1> DEFINE V == [U EXCEPT ![u] = r]
             In(W) == {v \in Users : Reaches(W[v], n)}
             Acc(W) == {<<v, W[v].uuid>> : v \in In(W)}
  <1>1. V[u] = r /\ \A v \in Users : v # u => V[v] = U[v]
    OBVIOUS
  <1>2. Generated(b, U, n).users = Acc(U) /\ Generated(b, V, n).users = Acc(V)
    BY DEF Generated, Reaches
  <1>3. Acc(U) # Acc(V)
    BY <1>2 DEF Generated, Reaches
  <1> HIDE DEF V
  <1>4. ASSUME ~Reaches(U[u], n), ~Reaches(r, n) PROVE FALSE
    <2>1. In(U) = In(V) /\ \A v \in In(U) : U[v].uuid = V[v].uuid
      BY <1>1, <1>4
    <2> QED
      BY <1>3, <2>1
  <1>5. ASSUME Reaches(U[u], n), Reaches(r, n), U[u].uuid = r.uuid PROVE FALSE
    <2>1. In(U) = In(V) /\ \A v \in In(U) : U[v].uuid = V[v].uuid
      BY <1>1, <1>5
    <2> QED
      BY <1>3, <2>1
  <1> QED
    BY <1>4, <1>5

(* What writing a user must do to keep the files somebody's business.      *)
Considerate(p) ==
    /\ \A q \in Workers : q # p => job'[q] = job[q]
    /\ job[p].pc \in {"idle", "write"} /\ job'[p].pc = "plan"
    /\ \A q \in Workers : JobFits(q)'
    /\ \A u \in Users : user'[u].expiry # "past"
    /\ \A n \in Nodes : Generated(base, user, n) # Generated(base, user', n) =>
           n \in Future(job'[p], user')
    /\ \A q \in Workers, n \in Nodes : n \in Future(job[q], user) =>
           n \in Future(job'[q], user') \cup Future(job'[p], user')

LEMMA ConsiderateStep ==
  ASSUME LiveInv, Alive, UNCHANGED <<base, node, disk, lock>>,
         NEW p \in Workers, Considerate(p)
  PROVE  Alive'
  <1>1. \A q \in Workers : q # p => job'[q] = job[q]
    BY DEF Considerate
  <1>2. \A n \in Nodes : Owed(job, user, n) => Owed(job', user', n)
    BY DEF Owed, Considerate
  <1>3. \A n \in Nodes : \/ Generated(base, user, n) = Generated(base, user', n)
                         \/ Owed(job', user', n)
    BY DEF Owed, Considerate
  <1>4. \A q \in Workers : job[q].at \in Nodes
    BY Typed DEF LiveInv
  <1>5. job'[p].pc \notin Holding
    BY DEF Considerate, Holding
  <1>6. LocksFit'
    BY <1>1, <1>5 DEF LocksFit, Alive
  <1>7. HeldFits'
    <2> SUFFICES ASSUME NEW q \in Workers, q # p
                 PROVE  /\ job[q].pc \in Holding =>
                              \/ job[q].cfg = Generated(base', user', job[q].at)
                              \/ Owed(job', user', job[q].at)
                        /\ job[q].pc \in {"grpc", "record", "pushed"} =>
                              disk'[job[q].at] = job[q].cfg
      BY <1>1, <1>5 DEF HeldFits, Holding
    <2>1. job[q].pc \in Holding => \/ job[q].cfg = Generated(base, user, job[q].at)
                                   \/ Owed(job, user, job[q].at)
      BY DEF Alive, HeldFits
    <2>2. job[q].pc \in {"grpc", "record", "pushed"} => disk[job[q].at] = job[q].cfg
      BY DEF Alive, HeldFits
    <2> QED
      BY <1>2, <1>3, <1>4, <2>1, <2>2
  <1>8. StaleIsOwed'
    <2> SUFFICES ASSUME NEW n \in Nodes, node[n].status = "synced",
                        disk[n] # Generated(base', user', n)
                 PROVE  Owed(job', user', n) \/ \E q \in Workers : Direct(job'[q], n)
      BY DEF StaleIsOwed
    <2>1. CASE Generated(base, user, n) # Generated(base, user', n)
      BY <1>3, <2>1
    <2>2. CASE Generated(base, user, n) = Generated(base, user', n)
      <3>1. Owed(job, user, n) \/ \E q \in Workers : Direct(job[q], n)
        BY <2>2 DEF Alive, StaleIsOwed
      <3>2. ~Direct(job[p], n)
        BY DEF Considerate, Direct
      <3> QED
        BY <1>1, <1>2, <3>1, <3>2
    <2> QED
      BY <2>1, <2>2
  <1> QED
    BY <1>6, <1>7, <1>8 DEF Alive, Considerate

(* Nobody's expiry has passed, so none passes while a request works.       *)
LEMMA NoneLapses ==
  ASSUME NEW s, NEW r, s.expiry # "past", r.expiry # "past"
  PROVE  ~Lapsed(s, r)
  BY DEF Lapsed

(* Where requests overlap, a worker that has planned nothing yet will come *)
(* to the same nodes whatever its user's row has become, but for the nodes *)
(* a created user no longer reaches.                                       *)
LEMMA PlannedAnyway ==
  ASSUME NEW j \in Job, NEW r \in User, NEW s \in User,
         j.kind \in {"create", "delete", "toggle"}, j.seen.expiry # "past",
         r.expiry # "past", s.expiry # "past",
         NEW n \in Nodes, n \in Reach(PassesOf(j, r, Nodes))
  PROVE  n \in Reach(PassesOf(j, s, Nodes)) \/ (Reaches(r, n) /\ ~Reaches(s, n))
  <1>1. ~Lapsed(j.seen, r) /\ ~Lapsed(j.seen, s)
    BY NoneLapses
  <1>2. Nodes \in SUBSET Nodes
    OBVIOUS
  <1>3. CASE j.kind = "create"
    BY <1>2, <1>3, PassesParts DEF Reaches
  <1>4. CASE j.kind = "delete"
    BY <1>2, <1>4, PassesParts
  <1>5. CASE j.kind = "toggle"
    BY <1>1, <1>2, <1>5, PassesParts
  <1> QED
    BY <1>3, <1>4, <1>5

LEMMA ReadCareful ==
  ASSUME LiveInv, Alive, NEW p \in Procs, NEW u \in Users, NEW kind \in Kinds, Read(p, kind, u)
  PROVE  Careful(p)
  <1>1. /\ kind \in mode.requests /\ There(user[u]) /\ job[p].pc = "idle" /\ MyTurn
        /\ job'[p].pc = "write" /\ job'[p].kind = kind /\ job'[p].u = u
        /\ job'[p].seen = user[u] /\ job'[p].old = user[u].on \cap Nodes
        /\ \A q \in Workers : q # p => job'[q] = job[q]
        /\ UNCHANGED <<mode, user, base, node, disk, run, lock>>
    BY ReadParts, AllActive DEF LiveInv, Kinds
  <1>2. job'[p].old = user[u].on
    BY <1>1, Typed, UserParts DEF LiveInv
  <1>3. p # Sweeper
    BY UserLiveAssumption
  <1>4. JobFits(p)'
    BY <1>1, <1>2, <1>3 DEF JobFits, Alive, There
  <1>5. Future(job[p], user) = {} /\ \A n : ~Direct(job[p], n)
    BY <1>1 DEF Future, InPass, Direct
  <1> QED
    BY <1>1, <1>4, <1>5 DEF Careful, Alive, StaleIsOwed, Holding

LEMMA CreateConsiderate ==
  ASSUME LiveInv, LiveTypes', Alive, FilesMode(mode), NEW p \in Procs, NEW u \in Users,
         NEW S \in SUBSET Nodes, Create(p, u, S)
  PROVE  Considerate(p)
  <1>1. /\ job'[p].pc = "plan" /\ job'[p].kind = "create" /\ job'[p].u = u
        /\ job'[p].seen = Absent /\ user[u].state = "none" /\ job[p].pc = "idle" /\ MyTurn
        /\ \A q \in Workers : q # p => job'[q] = job[q]
        /\ "create" \in mode.requests
        /\ UNCHANGED <<mode, base, node, disk, run, lock>>
    BY CreateParts DEF LiveInv
  <1>2. PICK r \in User : /\ user' = [user EXCEPT ![u] = r] /\ r.state = "there"
                          /\ r.expiry = "ahead" /\ r.on = S /\ r.active
    BY CreateParts DEF LiveInv
  <1>3. /\ p \in Workers /\ p # Sweeper /\ job'[p] \in Job
        /\ \A q \in Workers : job[q] \in Job /\ job[q].u \in Users
        /\ user \in [Users -> User] /\ user[u] \in User
    BY WorkerParts, UserLiveAssumption, Typed DEF LiveInv, LiveTypes, TypeOK
  <1>4. user'[u] = r /\ \A v \in Users : v # u => user'[v] = user[v]
    BY <1>2, <1>3
  <1>5. Future(job'[p], user') = S
    <2>1. Reach(PassesOf(job'[p], r, Nodes)) = r.on \cap Nodes
      BY <1>1, <1>2, <1>3, PassesParts DEF Effective, There
    <2> QED
      BY <1>1, <1>2, <1>4, <2>1, ZenonT(40) DEF Future
  <1>6. ASSUME NEW n \in Nodes, Generated(base, user, n) # Generated(base, user', n)
        PROVE  n \in Future(job'[p], user')
    <2>1. Reaches(user[u], n) \/ Reaches(r, n)
      BY <1>2, <1>3, <1>6, GeneratedOnly
    <2> QED
      BY <1>1, <1>2, <1>5, <2>1 DEF Reaches, Effective, There
  <1>7. ASSUME NEW q \in Workers, NEW n \in Nodes, n \in Future(job[q], user)
        PROVE  n \in Future(job'[q], user') \cup Future(job'[p], user')
    <2>1. q # p
      BY <1>1, <1>7 DEF Future, InPass
    <2>2. CASE job[q].pc = "plan" /\ job[q].u = u
      <3>1. mode.together
        BY <1>1, <2>2 DEF MyTurn, Quiet
      <3>2. job[q].kind \in {"create", "delete", "toggle"} /\ job[q].seen.expiry # "past"
        BY <2>2, <3>1 DEF Alive, JobFits
      <3>3. n \in Reach(PassesOf(job[q], user[u], Nodes))
        BY <1>7, <2>2 DEF Future
      <3>4. user[u].expiry # "past" /\ ~Reaches(user[u], n)
        BY <1>1 DEF Alive, Reaches, Effective, There
      <3>5. n \in Reach(PassesOf(job[q], r, Nodes))
        BY <1>2, <1>3, <3>2, <3>3, <3>4, PlannedAnyway
      <3> QED
        BY <1>1, <1>4, <2>1, <2>2, <3>5 DEF Future
    <2>3. CASE ~(job[q].pc = "plan" /\ job[q].u = u)
      BY <1>1, <1>3, <1>4, <1>7, <2>1, <2>3 DEF Future
    <2> QED
      BY <2>2, <2>3
  <1>8. ASSUME NEW q \in Workers PROVE JobFits(q)'
    <2>1. CASE q = p
      BY <1>1, <1>3, <2>1 DEF JobFits, Absent
    <2>2. CASE q # p
      <3>1. JobFits(q)
        BY DEF Alive
      <3>2. job[q].pc = "write" => user'[job[q].u] = user[job[q].u]
        BY <1>1, <1>3, <1>4, <3>1 DEF JobFits
      <3> QED
        BY <1>1, <2>2, <3>1, <3>2 DEF JobFits
    <2> QED
      BY <2>1, <2>2
  <1>9. \A v \in Users : user'[v].expiry # "past"
    BY <1>2, <1>4 DEF Alive
  <1> QED
    BY <1>1, <1>6, <1>7, <1>8, <1>9 DEF Considerate

(* The row that a request writes, when no expiry has passed.               *)
LEMMA WrittenFresh ==
  ASSUME LiveInv, Alive, FilesMode(mode), NEW p \in Procs, job[p].pc = "write",
         NEW r \in User, Written(p, r)
  PROVE  /\ r.expiry # "past" /\ r.state # "none"
         /\ \/ job[p].kind = "delete" /\ r = Gone
            \/ /\ job[p].kind = "toggle" /\ r.on = user[job[p].u].on
               /\ r.uuid = user[job[p].u].uuid /\ r.state = user[job[p].u].state
            \/ /\ job[p].kind = "reset" /\ ~mode.together /\ r.on = job[p].seen.on
               /\ Effective(r) = Effective(job[p].seen)
            \/ /\ job[p].kind \in {"regroup", "renew"} /\ ~mode.together
               /\ r.uuid = job[p].seen.uuid
  <1> DEFINE j == job[p]
             now == user[job[p].u]
  <1>1. /\ j.u \in Users /\ j.seen \in User /\ now \in User /\ j.fresh \in Nat
        /\ j.kind \in mode.requests /\ There(j.seen) /\ now.state # "none"
        /\ j.seen.expiry # "past" /\ now.expiry # "past"
        /\ ~mode.together => now = j.seen
        /\ mode.together => j.kind \in {"create", "delete", "toggle", "sync"}
    BY WorkerParts, Typed DEF LiveInv, LiveTypes, TypeOK, Job, Uuids, Alive, JobFits, FilesMode
  <1>2. CASE j.kind = "delete" /\ r = Gone
    BY <1>2 DEF Gone, Absent
  <1>3. CASE /\ j.kind = "toggle"
             /\ r = IF There(now) THEN [now EXCEPT !.active = ~j.seen.active] ELSE now
    <2>1. CASE r = now
      BY <1>1, <1>3, <2>1
    <2>2. CASE r = [now EXCEPT !.active = ~j.seen.active]
      <3>1. /\ r.on = now.on /\ r.uuid = now.uuid /\ r.state = now.state
            /\ r.expiry = now.expiry
        BY <1>1, <2>2 DEF User
      <3> QED
        BY <1>1, <1>3, <3>1
    <2> QED
      BY <1>3, <2>1, <2>2
  <1>4. CASE /\ j.kind = "reset"
             /\ r = IF There(now) THEN [now EXCEPT !.uuid = j.fresh] ELSE now
    <2>1. ~mode.together /\ now = j.seen /\ There(now)
      BY <1>1, <1>4
    <2>2. r = [j.seen EXCEPT !.uuid = j.fresh]
      BY <1>4, <2>1
    <2>3. /\ r.active = j.seen.active /\ r.on = j.seen.on /\ r.state = j.seen.state
          /\ r.expiry = j.seen.expiry
      BY <1>1, <2>2, FreshUuid
    <2> QED
      BY <1>1, <1>4, <2>1, <2>3 DEF Effective, There
  <1>5. ~Lapsed(j.seen, now)
    BY <1>1, NoneLapses
  <1>6. ASSUME NEW S \in SUBSET Nodes, j.kind = "regroup",
               r = [j.seen EXCEPT !.on = S,
                        !.expiry = IF Lapsed(j.seen, now) THEN "past" ELSE @]
        PROVE  r.expiry # "past" /\ r.state # "none" /\ r.uuid = j.seen.uuid /\ ~mode.together
    BY <1>1, <1>5, <1>6 DEF User, There
  <1>7. CASE /\ j.kind = "renew"
             /\ r = [j.seen EXCEPT !.expiry = "ahead", !.swept = FALSE, !.on = @ \cup now.on]
    <2>1. r.expiry = "ahead" /\ r.state = j.seen.state /\ r.uuid = j.seen.uuid
      BY <1>1, <1>7 DEF User
    <2> QED
      BY <1>1, <1>7, <2>1 DEF There
  <1> QED
    BY <1>2, <1>3, <1>4, <1>6, <1>7 DEF Written

LEMMA PassesEverywhere ==
  ASSUME NEW j \in Job, NEW now \in User, ~Lapsed(j.seen, now)
  PROVE  /\ j.kind = "toggle" => Reach(PassesOf(j, now, Nodes)) = j.seen.on \cap Nodes
         /\ j.kind = "reset" => Reach(PassesOf(j, now, Nodes)) =
                IF j.seen.active THEN j.seen.on \cap Nodes ELSE {}
  <1>1. Nodes \in SUBSET Nodes
    OBVIOUS
  <1> QED
    BY <1>1, PassesParts

LEMMA WriteConsiderate ==
  ASSUME LiveInv, LiveTypes', Alive, FilesMode(mode), NEW p \in Procs, WriteStep(p)
  PROVE  Considerate(p)
  <1> DEFINE j == job[p]
             k == job'[p]
             u == job[p].u
             now == user[u]
  <1>1. /\ j.pc = "write" /\ u \in Users /\ k.pc = "plan" /\ k.kind = j.kind /\ k.u = u
        /\ k.old = j.old /\ k.seen \in User
        /\ k.seen.active = j.seen.active /\ k.seen.on = j.seen.on
        /\ k.seen.state = j.seen.state /\ k.seen.expiry = j.seen.expiry
        /\ \A q \in Workers : q # p => job'[q] = job[q]
        /\ UNCHANGED <<mode, base, node, disk, run, lock, used>>
    BY WriteParts DEF LiveInv
  <1>2. PICK r \in User : Written(p, r) /\ user' = [user EXCEPT ![u] = r]
    BY WriteParts DEF LiveInv
  <1>3. /\ p \in Workers /\ p # Sweeper /\ k \in Job
        /\ \A q \in Workers : job[q] \in Job /\ job[q].u \in Users
        /\ user \in [Users -> User] /\ now \in User /\ j.seen.on \subseteq Nodes
        /\ r.on \subseteq Nodes /\ Nodes \in SUBSET Nodes
    BY <1>1, WorkerParts, UserLiveAssumption, Typed, UserParts DEF LiveInv, LiveTypes, TypeOK
  <1>4. user'[u] = r /\ \A v \in Users : v # u => user'[v] = user[v]
    BY <1>1, <1>2, <1>3
  <1>5. /\ j.kind \in mode.requests /\ There(j.seen) /\ j.old = j.seen.on
        /\ There(now) => now.on = j.seen.on
        /\ ~mode.together => now = j.seen
        /\ j.seen.expiry # "past" /\ now.expiry # "past"
    BY <1>1, <1>3 DEF Alive, JobFits
  <1>6. /\ r.expiry # "past" /\ r.state # "none"
        /\ \/ j.kind = "delete" /\ r = Gone
           \/ /\ j.kind = "toggle" /\ r.on = now.on /\ r.uuid = now.uuid
              /\ r.state = now.state
           \/ /\ j.kind = "reset" /\ ~mode.together /\ r.on = j.seen.on
              /\ Effective(r) = Effective(j.seen)
           \/ /\ j.kind \in {"regroup", "renew"} /\ ~mode.together
              /\ r.uuid = j.seen.uuid
    BY <1>1, <1>2, WrittenFresh
  <1>7. /\ Future(k, user') = Reach(PassesOf(k, r, Nodes))
        /\ ~Lapsed(k.seen, r)
        /\ Effective(k.seen) <=> Effective(j.seen)
    BY <1>1, <1>4, <1>5, <1>6, NoneLapses DEF Future, Effective, There
  <1>8. /\ j.kind \in {"delete", "toggle"} => Reach(PassesOf(k, r, Nodes)) = j.seen.on
        /\ j.kind = "reset" => Reach(PassesOf(k, r, Nodes)) =
               IF j.seen.active THEN j.seen.on ELSE {}
        /\ j.kind \in {"regroup", "renew"} =>
               \A n \in Nodes : n \in Reach(PassesOf(k, r, Nodes)) <=>
                   ~((Effective(j.seen) /\ n \in j.old) <=> (Effective(r) /\ n \in r.on))
    <2>1. j.seen.on \cap Nodes = j.seen.on /\ r.on \cap Nodes = r.on
      BY <1>3
    <2>2. CASE j.kind = "delete"
      BY <1>1, <1>3, <1>5, <2>2, PassesParts
    <2>3. CASE j.kind = "toggle"
      <3>1. Reach(PassesOf(k, r, Nodes)) = k.seen.on \cap Nodes
        BY <1>1, <1>3, <1>7, <2>3, PassesEverywhere
      <3> QED
        BY <1>1, <2>1, <2>3, <3>1
    <2>4. CASE j.kind = "reset"
      <3>1. Reach(PassesOf(k, r, Nodes)) = IF k.seen.active THEN k.seen.on \cap Nodes ELSE {}
        BY <1>1, <1>3, <1>7, <2>4, PassesEverywhere
      <3> QED
        BY <1>1, <2>1, <2>4, <3>1
    <2>5. CASE j.kind \in {"regroup", "renew"}
      <3>1. k.kind \notin {"create", "delete", "toggle", "reset"}
        BY <1>1, <2>5
      <3>2. \A n \in Nodes : n \in Reach(PassesOf(k, r, Nodes)) <=>
                    ~((Effective(k.seen) /\ n \in k.old)
                         <=> (Effective(r) /\ n \in r.on \cap Nodes))
        BY <1>3, <3>1, PassesParts
      <3> QED
        BY <1>1, <1>7, <2>1, <2>5, <3>2
    <2> QED
      BY <2>2, <2>3, <2>4, <2>5
  <1>9. ASSUME NEW n \in Nodes, Generated(base, user, n) # Generated(base, user', n)
        PROVE  n \in Future(k, user')
    <2>1. /\ Reaches(now, n) \/ Reaches(r, n)
          /\ ~(Reaches(now, n) /\ Reaches(r, n) /\ now.uuid = r.uuid)
      BY <1>1, <1>2, <1>3, <1>9, GeneratedOnly, ZenonT(40)
    <2>2. CASE j.kind = "delete" /\ r = Gone
      <3>1. ~Reaches(r, n)
        BY <2>2 DEF Reaches, Effective, There, Gone, Absent
      <3> QED
        BY <1>5, <1>7, <1>8, <2>1, <2>2, <3>1 DEF Reaches, Effective
    <2>3. CASE /\ j.kind = "toggle" /\ r.on = now.on /\ r.uuid = now.uuid
               /\ r.state = now.state
      BY <1>5, <1>7, <1>8, <2>1, <2>3 DEF Reaches, Effective, There
    <2>4. CASE /\ j.kind = "reset" /\ ~mode.together /\ r.on = j.seen.on
               /\ Effective(r) = Effective(j.seen)
      BY <1>5, <1>7, <1>8, <2>1, <2>4 DEF Reaches, Effective
    <2>5. CASE /\ j.kind \in {"regroup", "renew"} /\ ~mode.together
               /\ r.uuid = j.seen.uuid
      BY <1>5, <1>7, <1>8, <2>1, <2>5 DEF Reaches
    <2> QED
      BY <1>6, <2>2, <2>3, <2>4, <2>5
  <1>10. ASSUME NEW q \in Workers, NEW n \in Nodes, n \in Future(job[q], user)
         PROVE  n \in Future(job'[q], user') \cup Future(k, user')
    <2>1. q # p
      BY <1>1, <1>10 DEF Future, InPass
    <2>2. CASE job[q].pc = "plan" /\ job[q].u = u
      <3>1. mode.together
        BY <1>1, <1>3, <2>1, <2>2 DEF LiveInv, TurnsAreTaken
      <3>2. job[q].kind \in {"create", "delete", "toggle"} /\ job[q].seen.expiry # "past"
        BY <2>2, <3>1 DEF Alive, JobFits
      <3>3. n \in Reach(PassesOf(job[q], now, Nodes))
        BY <1>10, <2>2 DEF Future
      <3>4. \/ n \in Reach(PassesOf(job[q], r, Nodes))
            \/ Reaches(now, n)
        BY <1>3, <1>5, <1>6, <3>2, <3>3, PlannedAnyway
      <3>5. CASE n \in Reach(PassesOf(job[q], r, Nodes))
        BY <1>1, <1>4, <2>1, <2>2, <3>5 DEF Future
      <3>6. CASE Reaches(now, n)
        BY <1>5, <1>6, <1>7, <1>8, <3>1, <3>6 DEF Reaches, Effective
      <3> QED
        BY <3>4, <3>5, <3>6
    <2>3. CASE ~(job[q].pc = "plan" /\ job[q].u = u)
      BY <1>1, <1>3, <1>4, <1>10, <2>1, <2>3 DEF Future
    <2> QED
      BY <2>2, <2>3
  <1>11. ASSUME NEW q \in Workers PROVE JobFits(q)'
    <2>1. CASE q = p
      <3>1. mode.together => j.kind \in {"create", "delete", "toggle", "sync"}
        BY <1>5 DEF FilesMode
      <3>2. mode.together => k.kind \in {"create", "delete", "toggle"}
        BY <1>1, <1>6, <3>1
      <3> QED
        BY <1>1, <1>3, <1>5, <2>1, <3>2 DEF JobFits
    <2>2. CASE q # p
      <3>1. JobFits(q) /\ job'[q] = job[q]
        BY <1>1, <2>2 DEF Alive
      <3>2. CASE job[q].pc = "write" /\ job[q].u = u
        <4>1. mode.together
          BY <1>1, <1>3, <2>2, <3>2 DEF LiveInv, TurnsAreTaken
        <4>2. There(r) => There(now) /\ r.on = now.on
          BY <1>6, <4>1 DEF There, Gone, Absent
        <4> QED
          BY <1>1, <1>4, <1>6, <3>1, <3>2, <4>1, <4>2 DEF JobFits
      <3>3. CASE ~(job[q].pc = "write" /\ job[q].u = u)
        <4>1. job[q].pc = "write" => user'[job[q].u] = user[job[q].u]
          BY <1>3, <1>4, <3>3
        <4> QED
          BY <1>1, <3>1, <4>1 DEF JobFits
      <3> QED
        BY <3>2, <3>3
    <2> QED
      BY <2>1, <2>2
  <1>12. \A v \in Users : user'[v].expiry # "past"
    BY <1>4, <1>6 DEF Alive
  <1> QED
    BY <1>1, <1>9, <1>10, <1>11, <1>12 DEF Considerate
-----------------------------------------------------------------------------
(* The files: every step.                                                  *)

LEMMA FilesInit == Init => FilesInv
  <1> SUFFICES ASSUME Init PROVE Alive
    BY DEF FilesInv
  <1>1. \A u \in Users : user[u] = Absent \/ user[u] = Member
    BY DEF Init
  <1>2. \A p \in Workers : job[p] = Idle
    BY DEF Init
  <1>3. \A n \in Nodes : disk[n] = Generated(base, user, n) /\ node[n].active
    BY DEF Init, Desired, Generated
  <1>4. \A u \in Users : user[u].expiry # "past"
    BY <1>1 DEF Absent, Member
  <1>5. \A p \in Workers : JobFits(p)
    BY <1>2, IdleType DEF JobFits, Absent
  <1> QED
    BY <1>2, <1>3, <1>4, <1>5, IdleType DEF Alive, LocksFit, HeldFits, StaleIsOwed, Holding

LEMMA PlainSpends ==
  ASSUME NEW p, PlainStep(p)
  PROVE  UNCHANGED used \/ \E e \in Events : Spend(e)
  <1>1. CASE Plan(p) \/ ReadRows(p) \/ PassDone(p) \/ Record(p) \/ MarkDrifted(p)
             \/ SyncRecord(p) \/ MarkAllDrifted(p) \/ \E n \in Nodes : LockAndBuild(p, n)
    BY <1>1 DEF Plan, ReadRows, PassDone, Record, MarkDrifted, SyncRecord, MarkAllDrifted,
                LockAndBuild
  <1>2. CASE Edit(p) \/ \E n \in Nodes : SyncBuild(p, n)
    BY <1>2, Zenon DEF Edit, SyncBuild, Events
  <1>3. CASE Upload(p) \/ SyncPush(p) \/ Grpc(p)
    BY <1>3, Zenon DEF Upload, SyncPush, Grpc, Events
  <1> QED
    BY <1>1, <1>2, <1>3 DEF PlainStep

LEMMA StepSpends ==
  ASSUME LiveInv, [Next]_vars
  PROVE  UNCHANGED used \/ \E e \in Events : Spend(e)
  <1>1. ASSUME NEW p \in Workers, PlainStep(p)
        PROVE  UNCHANGED used \/ \E e \in Events : Spend(e)
    BY <1>1, PlainSpends
  <1>2. ASSUME NEW p \in Procs, WriteStep(p) PROVE UNCHANGED used
    BY <1>2, WriteParts DEF LiveInv
  <1>3. ASSUME NEW p, NEW u, NEW S, Create(p, u, S) PROVE Spend("request")
    BY <1>3 DEF Create
  <1>4. ASSUME NEW p, NEW u, NEW kind, Read(p, kind, u) PROVE Spend("request")
    BY <1>4 DEF Read
  <1>5. SweepStart \/ SweepMark => UNCHANGED used
    BY DEF SweepStart, SweepMark
  <1>6. Crash => Spend("crash")
    BY DEF Crash
  <1>7. ASSUME NEW n \in Nodes
        PROVE  /\ CheckDrift(n) => UNCHANGED used
               /\ ToggleNode(n) => Spend("node")
               /\ RestartXray(n) => Spend("restart")
    BY DEF CheckDrift, ToggleNode, RestartXray
  <1>8. ASSUME NEW u \in Users, Expire(u) PROVE Spend("expire")
    BY <1>8 DEF Expire
  <1>9. UNCHANGED vars => UNCHANGED used
    BY DEF vars
  <1>10. /\ "request" \in Events /\ "crash" \in Events /\ "node" \in Events
         /\ "restart" \in Events /\ "expire" \in Events
    BY DEF Events
  <1> QED
    BY <1>1, <1>2, <1>3, <1>4, <1>5, <1>6, <1>7, <1>8, <1>9, <1>10, StepKinds

LEMMA CrashCounted ==
  ASSUME LiveInv, [Next]_vars, NeverCrashed'
  PROVE  NeverCrashed
  <1>1. /\ used["crash"] \in Nat
        /\ used'["crash"] = used["crash"] \/ used'["crash"] = used["crash"] + 1
    BY StepSpends, SpendType DEF LiveInv, LiveTypes, TypeOK, Events
  <1> QED
    BY <1>1 DEF NeverCrashed

LEMMA PlainAlive ==
  ASSUME LiveInv, LiveTypes', Alive, FilesMode(mode), NEW p \in Workers, PlainStep(p)
  PROVE  Alive'
  <1>1. CASE p \in Procs /\ Edit(p)
    BY <1>1, EditAlive
  <1>2. ASSUME Careful(p), UNCHANGED <<user, base>> PROVE Alive'
    <2>1. UNCHANGED mode
      BY PlainParts DEF LiveInv
    <2> QED
      BY <1>2, <2>1, CarefulStep
  <1>3. CASE Plan(p)
    BY <1>2, <1>3, PlanCareful DEF Plan, tables
  <1>4. CASE ReadRows(p)
    BY <1>2, <1>4, ReadRowsCareful DEF ReadRows, tables
  <1>5. CASE PassDone(p)
    BY <1>2, <1>5, PassDoneCareful DEF PassDone, tables
  <1>6. CASE Upload(p)
    BY <1>2, <1>6, UploadCareful DEF Upload, tables
  <1>7. CASE Grpc(p)
    BY <1>2, <1>7, GrpcCareful DEF Grpc, tables
  <1>8. CASE Record(p)
    BY <1>2, <1>8, RecordCareful DEF Record
  <1>9. CASE MarkDrifted(p)
    BY <1>2, <1>9, MarkDriftedCareful DEF MarkDrifted
  <1>10. ASSUME NEW n \in Nodes, LockAndBuild(p, n) PROVE Alive'
    BY <1>2, <1>10, LockAndBuildCareful DEF LockAndBuild, tables
  <1>11. CASE SyncPush(p)
    BY <1>2, <1>11, SyncPushCareful DEF SyncPush
  <1>12. CASE SyncRecord(p)
    BY <1>2, <1>12, RecordCareful DEF SyncRecord
  <1>13. CASE MarkAllDrifted(p)
    BY <1>2, <1>13, MarkAllCareful DEF MarkAllDrifted
  <1>14. ASSUME p \in Procs, NEW n \in Nodes, SyncBuild(p, n) PROVE Alive'
    BY <1>2, <1>14, SyncBuildCareful DEF SyncBuild, tables
  <1> QED
    BY <1>1, <1>3, <1>4, <1>5, <1>6, <1>7, <1>8, <1>9, <1>10, <1>11, <1>12, <1>13, <1>14
       DEF PlainStep

LEMMA FilesStep ==
  ASSUME LiveInv, FilesMode(mode), FilesInv, [Next]_vars
  PROVE  FilesInv'
  <1> SUFFICES ASSUME NeverCrashed' PROVE Alive'
    BY DEF FilesInv
  <1>1. Alive
    BY CrashCounted DEF FilesInv
  <1>2. LiveInv'
    BY LiveInvStep
  <1>3. ASSUME NEW p \in Workers, PlainStep(p) PROVE Alive'
    BY <1>1, <1>2, <1>3, PlainAlive DEF LiveInv
  <1>4. ASSUME NEW p \in Procs, WriteStep(p) PROVE Alive'
    <2>1. Considerate(p) /\ p \in Workers /\ UNCHANGED <<base, node, disk, lock>>
      BY <1>1, <1>2, <1>4, WriteConsiderate, WriteParts, WorkerParts DEF LiveInv
    <2> QED
      BY <1>1, <2>1, ConsiderateStep
  <1>5. ASSUME NEW p \in Procs, NEW u \in Users, NEW S \in SUBSET Nodes, Create(p, u, S)
        PROVE  Alive'
    <2>1. Considerate(p) /\ p \in Workers /\ UNCHANGED <<base, node, disk, lock>>
      BY <1>1, <1>2, <1>5, CreateConsiderate, CreateParts, WorkerParts DEF LiveInv
    <2> QED
      BY <1>1, <2>1, ConsiderateStep
  <1>6. ASSUME NEW p \in Procs, NEW u \in Users, NEW kind \in Kinds, Read(p, kind, u)
        PROVE  Alive'
    <2>1. p \in Workers /\ Careful(p) /\ UNCHANGED <<mode, user, base>>
      BY <1>1, <1>6, ReadCareful, ReadParts, WorkerParts DEF Kinds, LiveInv
    <2> QED
      BY <1>1, <1>2, <2>1, CarefulStep DEF LiveInv
  <1>7. ~SweepStart
    BY <1>1, SweepStartParts DEF LiveInv, Alive, Expired
  <1>8. ~SweepMark
    <2>1. job[Sweeper].pc = "idle"
      BY <1>1, WorkerParts DEF Alive, JobFits
    <2> QED
      BY <2>1 DEF SweepMark
  <1>9. ~Crash
    BY CrashParts DEF LiveInv
  <1>10. ASSUME NEW n \in Nodes, CheckDrift(n) PROVE Alive'
    <2>1. /\ node'[n].status = "synced" => disk[n] = Generated(base, user, n)
          /\ \A m \in Nodes : m # n => node'[m] = node[m]
          /\ \A m \in Nodes : node'[m].active = node[m].active
          /\ UNCHANGED <<mode, user, base, disk, run, lock, job, used>>
      BY <1>10, CheckDriftParts DEF LiveInv
    <2>2. \A p \in Workers : JobFits(p)'
      BY <1>1, <2>1 DEF Alive, JobFits
    <2>3. StaleIsOwed'
      BY <1>1, <2>1 DEF Alive, StaleIsOwed, Owed
    <2> QED
      BY <1>1, <2>1, <2>2, <2>3 DEF Alive, LocksFit, HeldFits, Owed
  <1>11. ASSUME NEW n \in Nodes PROVE ~ToggleNode(n)
    BY ToggleNodeParts DEF FilesMode, LiveInv
  <1>12. ASSUME UNCHANGED <<mode, user, base, node, disk, lock, job>> PROVE Alive'
    <2>1. \A p \in Workers : JobFits(p)'
      BY <1>1, <1>12 DEF Alive, JobFits
    <2> QED
      BY <1>1, <1>12, <2>1 DEF Alive, LocksFit, HeldFits, StaleIsOwed, Owed
  <1>13. ASSUME NEW n \in Nodes, RestartXray(n) PROVE Alive'
    BY <1>12, <1>13, RestartParts DEF LiveInv
  <1>14. ASSUME NEW u \in Users PROVE ~Expire(u)
    BY ExpireParts DEF FilesMode, LiveInv
  <1>15. CASE UNCHANGED vars
    BY <1>12, <1>15 DEF vars
  <1> QED
    BY <1>3, <1>4, <1>5, <1>6, <1>7, <1>8, <1>9, <1>10, <1>11, <1>13, <1>14, <1>15, StepKinds

(* livesync.go and nodelock.go: while no node is switched off and on and   *)
(* no expiry passes, the file on the server of every node that shows       *)
(* synced is, once all requests are done, what would be generated now -    *)
(* whichever users are created, deleted and toggled at once beside pushes, *)
(* or changed in any way one request after another, and whichever calls    *)
(* to servers fail.                                                        *)
THEOREM FilesHoldEveryChange == Spec => [](FilesMode(mode) => FilesAreCurrent)
  <1> DEFINE I == LiveInv /\ (FilesMode(mode) => FilesInv)
  <1>1. Init => I
    BY LiveInvInit, FilesInit
  <1>2. I /\ [Next]_vars => I'
    <2>1. LiveInv /\ [Next]_vars => LiveInv'
      BY LiveInvStep
    <2>2. LiveInv /\ [Next]_vars => mode' = mode
      BY ModeStays
    <2> QED
      BY <2>1, <2>2, FilesStep DEF FilesMode
  <1>3. I => (FilesMode(mode) => FilesAreCurrent)
    <2> SUFFICES ASSUME LiveInv, Alive, Quiet, NEW n \in Nodes,
                        node[n].status = "synced"
                 PROVE  disk[n] = Desired(n)
      BY DEF FilesInv, FilesAreCurrent, ActiveNodes
    <2>1. \A p \in Workers : Future(job[p], user) = {} /\ ~Direct(job[p], n)
      BY DEF Quiet, Future, Direct, InPass
    <2>2. disk[n] = Generated(base, user, n)
      BY <2>1 DEF Alive, StaleIsOwed, Owed
    <2> QED
      BY <2>2, DesiredParts DEF LiveInv
  <1> QED
    BY <1>1, <1>2, <1>3, PTL DEF Spec
-----------------------------------------------------------------------------
(* What xray runs.  It is what the panel records in instances where in     *)
(* addition requests take turns and xray refuses no alteration.            *)

ServedMode(m) == FilesMode(m) /\ ~m.together /\ m.limit["rpc"] = 0

(* A user's accounts in a configuration.                                   *)
Of(c, v)           == {a \in c.users : a[1] = v}
Like(c, d, v)      == Of(c, v) = Of(d, v)
Either(c, d, e, v) == Like(c, d, v) \/ Like(c, e, v)

(* The passes that worker j has still to make over node n, U being the     *)
(* users.                                                                  *)
Among(q, ps, n) == \E i \in DOMAIN ps : ps[i] = q /\ n \in q.on

Due(j, U, n) ==
    {q \in Pass :
        \/ j.pc = "plan" /\ Among(q, PassesOf(j, U[j.u], Nodes), n)
        \/ j.pc = "rows" /\ Among(q, j.passes, n)
        \/ j.pc \in InPass /\ Among(q, Tail(j.passes), n)
        \/ /\ j.pc \in InPass /\ q = Head(j.passes)
           /\ n \in j.todo \/ (n = j.at /\ j.pc \in {"upload", "grpc"})}

(* A pass that brings node n what row r asks for.                          *)
Suits(q, r, n) == IF q.verb = "remove" THEN ~Reaches(r, n)
                  ELSE Reaches(r, n) /\ q.uuid = r.uuid

(* What a server's file or its xray holds, c, when D would be generated    *)
(* now, H is what was recorded last, and passes Q of user u are due: each  *)
(* user as one or the other; of a user who is to be added it may also hold *)
(* nothing, and as long as no call has failed, or the node shows synced,   *)
(* there is less to choose from.                                           *)
HostFits(c, D, H, u, Q, status, dials) ==
    LET adds == \E q \in Q : q.verb = "add"
    IN /\ c.base = D.base
       /\ \A v \in Users : v # u \/ Q = {} \/ dials = 0 => Either(c, H, D, v)
       /\ adds => Of(c, u) = {} \/ Either(c, H, D, u)
       /\ adds /\ status = "synced" => Of(c, u) = {} \/ Like(c, D, u)

Settled(j, n)   == j.pc # "editMark" /\ ~(j.pc = "mark" /\ j.at = n)
Recording(j, n) == j.pc = "record" /\ j.at = n

(* Node n in the middle of worker j's request: row, file and xray.         *)
NodeFits(j, n, Q, D, row, K, R, dials) ==
    LET H == row.hash
        synced == row.status = "synced"
    IN /\ H.base <= D.base
       /\ synced /\ Settled(j, n) => H.base = D.base
       /\ H.base = D.base =>
            /\ HostFits(K, D, H, j.u, Q, row.status, dials)
            /\ HostFits(R, D, H, j.u, Q, row.status, dials)
            /\ dials = 0 => synced
            /\ synced /\ Settled(j, n) => \A v \in Users :
                   v # j.u \/ (Q = {} /\ ~Recording(j, n)) => Like(H, D, v)
            /\ synced /\ Recording(j, n) => Like(R, D, j.u)

(* The worker whose turn it is; if it is nobody's, any.                    *)
Turn(p) == \A q \in Workers : q # p => job[q].pc = "idle"

TurnFits(p) ==
    LET j == job[p]
    IN /\ j.pc = "mark" => used["dial"] # 0
       /\ j.pc = "editMark" => \A n \in Nodes : node[n].hash.base # base
       /\ j.pc \in Holding => j.cfg = Generated(base, user, j.at)
       /\ j.pc = "pushed" => run[j.at] = j.cfg
       /\ j.pc \in InPass \ {"next"} => j.at \notin j.todo
       /\ j.pc \in InPass => \A n \in Nodes :
              n \in j.todo \/ (n = j.at /\ j.pc # "next") =>
                  (n \in j.rows <=> node[n].status = "synced")
       /\ \A n \in Nodes :
              /\ \A q \in Due(j, user, n) : Suits(q, user[j.u], n)
              /\ NodeFits(j, n, Due(j, user, n), Generated(base, user, n),
                          node[n], disk[n], run[n], used["dial"])

ServedInv ==
    NeverCrashed /\ used["dial"] <= 1 =>
        /\ base <= used["request"]
        /\ \A p \in Workers : Turn(p) => TurnFits(p)

-----------------------------------------------------------------------------
(* Accounts and passes.                                                    *)

LEMMA OfGenerated ==
  ASSUME NEW U \in [Users -> User], NEW b, NEW n \in Nodes, NEW v \in Users
  PROVE  /\ Of(Generated(b, U, n), v) = IF Reaches(U[v], n) THEN {<<v, U[v].uuid>>} ELSE {}
         /\ Generated(b, U, n).base = b
  BY DEF Of, Generated, Reaches

LEMMA OfAll ==
  ASSUME NEW c \in Config, NEW d \in Config, \A v \in Users : Like(c, d, v)
  PROVE  c.users = d.users
  <1>1. c.users \subseteq Users \X Nat /\ d.users \subseteq Users \X Nat
    BY DEF Config, Accounts, Uuids
  <1>2. \A a \in c.users \cup d.users : a[1] \in Users
    BY <1>1
  <1> QED
    BY <1>2, ZenonT(40) DEF Like, Of

LEMMA AmongOver ==
  ASSUME NEW verb, NEW uuid, NEW S, NEW q, NEW n, Among(q, Over(verb, uuid, S), n)
  PROVE  q.verb = verb /\ q.uuid = uuid /\ n \in S
  <1>1. CASE S = {}
    BY <1>1 DEF Among, Over
  <1>2. CASE S # {}
    <2> DEFINE r == [verb |-> verb, uuid |-> uuid, on |-> S]
    <2>1. r.verb = verb /\ r.uuid = uuid /\ r.on = S
      OBVIOUS
    <2>2. Over(verb, uuid, S) = <<r>>
      BY <1>2 DEF Over
    <2> HIDE DEF r
    <2>3. DOMAIN <<r>> = {1} /\ <<r>>[1] = r
      OBVIOUS
    <2>4. q = r /\ n \in q.on
      BY <2>2, <2>3 DEF Among
    <2> QED
      BY <2>1, <2>4
  <1> QED
    BY <1>1, <1>2

LEMMA AmongTwo ==
  ASSUME NEW s \in Seq(Pass), NEW t \in Seq(Pass), NEW q, NEW n, Among(q, s \o t, n)
  PROVE  Among(q, s, n) \/ Among(q, t, n)
  <1>1. /\ Len(s) \in Nat /\ Len(t) \in Nat
        /\ DOMAIN (s \o t) = 1 .. (Len(s) + Len(t))
        /\ DOMAIN s = 1 .. Len(s) /\ DOMAIN t = 1 .. Len(t)
        /\ \A i \in 1 .. Len(s) : (s \o t)[i] = s[i]
        /\ \A i \in 1 .. Len(t) : (s \o t)[i + Len(s)] = t[i]
    OBVIOUS
  <1>2. PICK i \in 1 .. (Len(s) + Len(t)) : (s \o t)[i] = q /\ n \in q.on
    BY <1>1 DEF Among
  <1>3. i \in 1 .. Len(s) \/ (i - Len(s) \in 1 .. Len(t) /\ (i - Len(s)) + Len(s) = i)
    BY <1>1
  <1>4. CASE i \in 1 .. Len(s)
    BY <1>1, <1>2, <1>4 DEF Among
  <1>5. CASE i - Len(s) \in 1 .. Len(t) /\ (i - Len(s)) + Len(s) = i
    <2>1. t[i - Len(s)] = q
      BY <1>1, <1>2, <1>5
    <2> QED
      BY <1>1, <1>2, <1>5, <2>1 DEF Among
  <1> QED
    BY <1>3, <1>4, <1>5

LEMMA AmongSplit ==
  ASSUME NEW s \in Seq(Pass), s # <<>>, NEW q, NEW n
  PROVE  Among(q, s, n) <=> (q = Head(s) /\ n \in q.on) \/ Among(q, Tail(s), n)
  <1>1. /\ Len(s) \in Nat /\ Len(s) >= 1
        /\ DOMAIN s = 1 .. Len(s) /\ DOMAIN Tail(s) = 1 .. (Len(s) - 1)
        /\ Head(s) = s[1]
        /\ \A i \in 1 .. (Len(s) - 1) : Tail(s)[i] = s[i + 1]
    OBVIOUS
  <1>2. ASSUME Among(q, s, n) PROVE (q = Head(s) /\ n \in q.on) \/ Among(q, Tail(s), n)
    <2>1. PICK i \in 1 .. Len(s) : s[i] = q /\ n \in q.on
      BY <1>1, <1>2 DEF Among
    <2>2. i = 1 \/ (i - 1 \in 1 .. (Len(s) - 1) /\ (i - 1) + 1 = i)
      BY <1>1
    <2>3. CASE i = 1
      BY <1>1, <2>1, <2>3
    <2>4. CASE i - 1 \in 1 .. (Len(s) - 1) /\ (i - 1) + 1 = i
      <3>1. Tail(s)[i - 1] = q
        BY <1>1, <2>1, <2>4
      <3> QED
        BY <1>1, <2>1, <2>4, <3>1 DEF Among
    <2> QED
      BY <2>2, <2>3, <2>4
  <1>3. ASSUME q = Head(s), n \in q.on PROVE Among(q, s, n)
    BY <1>1, <1>3 DEF Among
  <1>4. ASSUME Among(q, Tail(s), n) PROVE Among(q, s, n)
    <2>1. PICK i \in 1 .. (Len(s) - 1) : Tail(s)[i] = q /\ n \in q.on
      BY <1>1, <1>4 DEF Among
    <2>2. i + 1 \in 1 .. Len(s) /\ s[i + 1] = q
      BY <1>1, <2>1
    <2> QED
      BY <1>1, <2>1, <2>2 DEF Among
  <1> QED
    BY <1>2, <1>3, <1>4

LEMMA AmongReach ==
  ASSUME NEW ps \in Seq(Pass), NEW n
  PROVE  n \in Reach(ps) <=> \E q \in Pass : Among(q, ps, n)
  <1>1. \A i \in DOMAIN ps : ps[i] \in Pass
    OBVIOUS
  <1> QED
    BY <1>1 DEF Reach, Among

-----------------------------------------------------------------------------
(* What each kind of change leaves of HostFits and NodeFits.               *)

LEMMA HostSame ==
  ASSUME NEW D, NEW H, NEW u, NEW Q, NEW status, NEW dials
  PROVE  HostFits(D, D, H, u, Q, status, dials)
  BY DEF HostFits, Either, Like

(* Time passes: another call fails, the status changes, a pass has been    *)
(* made that nothing depended on.                                          *)
LEMMA HostKept ==
  ASSUME NEW c, NEW D, NEW H, NEW u, NEW Q, NEW status, NEW dials \in Nat,
         NEW v, NEW R \in SUBSET Q, NEW after, NEW more \in Nat,
         HostFits(c, D, H, u, Q, status, dials),
         Q = {} \/ v = u, R = {} => Q = {} \/ dials = 0, v \in Users,
         after = "synced" => status = "synced" \/ Q = {}, more >= dials
  PROVE  HostFits(c, D, H, v, R, after, more)
  <1>1. CASE Q = {}
    <2>1. R = {}
      BY <1>1
    <2>2. c.base = D.base /\ \A w \in Users : Either(c, H, D, w)
      BY <1>1 DEF HostFits
    <2> QED
      BY <2>1, <2>2 DEF HostFits
  <1>2. CASE Q # {} /\ v = u
    <2>1. c.base = D.base /\ \A w \in Users : w # u \/ dials = 0 => Either(c, H, D, w)
      BY DEF HostFits
    <2>2. \A w \in Users : w # v \/ R = {} \/ more = 0 => Either(c, H, D, w)
      BY <1>2, <2>1
    <2>3. ASSUME NEW q \in R, q.verb = "add" PROVE Of(c, v) = {} \/ Either(c, H, D, v)
      BY <1>2, <2>3 DEF HostFits
    <2>4. ASSUME NEW q \in R, q.verb = "add", after = "synced"
          PROVE  Of(c, v) = {} \/ Like(c, D, v)
      BY <1>2, <2>4 DEF HostFits
    <2> QED
      BY <2>1, <2>2, <2>3, <2>4 DEF HostFits
  <1> QED
    BY <1>1, <1>2

(* xray carries out a pass that suits.                                     *)
LEMMA HostApplied ==
  ASSUME NEW c \in Config, NEW U \in [Users -> User], NEW b, NEW n \in Nodes,
         NEW H, NEW u \in Users, NEW Q, NEW status, NEW dials,
         NEW q \in Pass, q \in Q, Suits(q, U[u], n),
         HostFits(c, Generated(b, U, n), H, u, Q, status, dials),
         NEW d, d = [c EXCEPT !.users = Applied(c.users, q.verb, u, q.uuid)],
         NEW R
  PROVE  /\ HostFits(d, Generated(b, U, n), H, u, R, status, dials)
         /\ status = "synced" => Like(d, Generated(b, U, n), u)
  <1> DEFINE D == Generated(b, U, n)
  <1> DEFINE verb == q.verb
             id == q.uuid
  <1>1. /\ verb \in {"add", "remove", "replace"} /\ id \in Nat
        /\ d.base = c.base /\ d.users = Applied(c.users, verb, u, id)
    BY DEF Pass, Uuids, Config
  <1>2. Of(D, u) = IF Reaches(U[u], n) THEN {<<u, U[u].uuid>>} ELSE {}
    BY OfGenerated
  <1>3. /\ d.base = c.base
        /\ \A v : v # u => Like(d, c, v)
        /\ verb = "remove" => Of(d, u) = {}
        /\ verb = "replace" => Of(d, u) = {<<u, id>>}
        /\ verb = "add" => Of(d, u) = IF Of(c, u) = {} THEN {<<u, id>>} ELSE Of(c, u)
    <2> HIDE DEF verb, id
    <2> DEFINE a == <<u, id>>
    <2>1. a[1] = u
      OBVIOUS
    <2> HIDE DEF a
    <2>2. \A v : v # u => Like(d, c, v)
      BY <1>1, <2>1 DEF Applied, Without, Like, Of, a
    <2>3. CASE verb = "remove"
      BY <1>1, <2>2, <2>3 DEF Applied, Without, Of
    <2>4. CASE verb = "replace"
      BY <1>1, <2>1, <2>2, <2>4 DEF Applied, Without, Of, a
    <2>5. CASE verb = "add"
      BY <1>1, <2>1, <2>2, <2>5 DEF Applied, Of, a
    <2> QED
      BY <1>1, <2>2, <2>3, <2>4, <2>5 DEF a
  <1> HIDE DEF D
  <1>4. HostFits(c, D, H, u, Q, status, dials)
    BY DEF D
  <1>5. /\ Either(d, H, D, u)
        /\ status = "synced" => Like(d, D, u)
    <2>1. CASE q.verb # "add"
      BY <1>1, <1>2, <1>3, <2>1 DEF Suits, Either, Like
    <2>2. CASE q.verb = "add" /\ Of(c, u) = {}
      BY <1>2, <1>3, <2>2 DEF Suits, Either, Like
    <2>3. CASE q.verb = "add" /\ Of(c, u) # {}
      <3>1. /\ Either(c, H, D, u)
            /\ status = "synced" => Like(c, D, u)
        BY <1>4, <2>3 DEF HostFits
      <3> QED
        BY <1>3, <2>3, <3>1 DEF Either, Like
    <2> QED
      BY <2>1, <2>2, <2>3
  <1>6. \A v \in Users : v # u => Either(d, H, D, v)
    BY <1>3, <1>4 DEF HostFits, Either, Like
  <1>7. d.base = D.base
    BY <1>3, <1>4 DEF HostFits
  <1> QED
    BY <1>5, <1>6, <1>7 DEF HostFits, D

(* A row is written, and the passes that follow from it are due.           *)
LEMMA HostOwing ==
  ASSUME NEW c, NEW D, NEW E, NEW H, NEW w, NEW u \in Users, NEW Q, NEW status, NEW dials,
         HostFits(c, D, H, w, {}, status, dials), D.base = E.base,
         \A v \in Users : v # u \/ Q = {} => Like(D, E, v),
         \A q \in Q : q.verb = "add" => Of(D, u) = {},
         dials = 0 => status = "synced",
         status = "synced" => \A v \in Users : Like(H, D, v)
  PROVE  HostFits(c, E, H, u, Q, status, dials)
  <1>1. c.base = E.base /\ \A v \in Users : Either(c, H, D, v)
    BY DEF HostFits
  <1>2. ASSUME NEW v \in Users, v # u \/ Q = {} \/ dials = 0 PROVE Either(c, H, E, v)
    <2>1. CASE v # u \/ Q = {}
      BY <1>1, <2>1 DEF Either, Like
    <2>2. CASE dials = 0
      BY <1>1, <2>2 DEF Either, Like
    <2> QED
      BY <1>2, <2>1, <2>2
  <1>3. ASSUME NEW q \in Q, q.verb = "add" PROVE Of(c, u) = {} \/ Either(c, H, E, u)
    BY <1>1, <1>3 DEF Either, Like
  <1>4. ASSUME NEW q \in Q, q.verb = "add", status = "synced"
        PROVE  Of(c, u) = {} \/ Like(c, E, u)
    BY <1>1, <1>4 DEF Either, Like
  <1> QED
    BY <1>1, <1>2, <1>3, <1>4 DEF HostFits

(* Nothing happens at this node, or nothing that it has to answer for.     *)
LEMMA NodeKept ==
  ASSUME NEW j, NEW k, NEW n, NEW Q, NEW S \in SUBSET Q, NEW D, NEW row, NEW K, NEW R,
         NEW dials \in Nat, NEW more \in Nat, k.u \in Users, more >= dials,
         Q = {} \/ k.u = j.u, S = {} => Q = {},
         Settled(k, n) => Settled(j, n) \/ row.status # "synced",
         Recording(j, n) => Recording(k, n) \/ row.status # "synced",
         Recording(k, n) => Recording(j, n) /\ k.u = j.u,
         NodeFits(j, n, Q, D, row, K, R, dials)
  PROVE  NodeFits(k, n, S, D, row, K, R, more)
  <1> DEFINE H == row.hash
  <1>1. H.base <= D.base /\ (row.status = "synced" /\ Settled(k, n) => H.base = D.base)
    BY DEF NodeFits
  <1> SUFFICES ASSUME H.base = D.base
               PROVE  /\ HostFits(K, D, H, k.u, S, row.status, more)
                      /\ HostFits(R, D, H, k.u, S, row.status, more)
                      /\ more = 0 => row.status = "synced"
                      /\ row.status = "synced" /\ Settled(k, n) => \A v \in Users :
                             v # k.u \/ (S = {} /\ ~Recording(k, n)) => Like(H, D, v)
                      /\ row.status = "synced" /\ Recording(k, n) => Like(R, D, k.u)
    BY <1>1 DEF NodeFits
  <1>2. /\ HostFits(K, D, H, j.u, Q, row.status, dials)
        /\ HostFits(R, D, H, j.u, Q, row.status, dials)
        /\ dials = 0 => row.status = "synced"
        /\ row.status = "synced" /\ Settled(j, n) => \A v \in Users :
               v # j.u \/ (Q = {} /\ ~Recording(j, n)) => Like(H, D, v)
        /\ row.status = "synced" /\ Recording(j, n) => Like(R, D, j.u)
    BY DEF NodeFits
  <1> HIDE DEF H
  <1>3. HostFits(K, D, H, k.u, S, row.status, more)
    BY <1>2, HostKept
  <1>4. HostFits(R, D, H, k.u, S, row.status, more)
    BY <1>2, HostKept
  <1>5. ASSUME row.status = "synced", Settled(k, n), NEW v \in Users,
               v # k.u \/ (S = {} /\ ~Recording(k, n))
        PROVE  Like(H, D, v)
    <2>1. CASE v # j.u
      BY <1>2, <1>5, <2>1
    <2>2. CASE v = j.u
      <3>1. Q = {} /\ ~Recording(j, n)
        BY <1>5, <2>2
      <3> QED
        BY <1>2, <1>5, <3>1
    <2> QED
      BY <2>1, <2>2
  <1> QED
    BY <1>2, <1>3, <1>4, <1>5

(* The file is written.                                                    *)
LEMMA NodeUploaded ==
  ASSUME NEW j, NEW n, NEW Q, NEW D, NEW row, NEW K, NEW R, NEW dials,
         NodeFits(j, n, Q, D, row, K, R, dials)
  PROVE  NodeFits(j, n, Q, D, row, D, R, dials)
  BY HostSame DEF NodeFits

(* The file is written and xray started with it.                           *)
LEMMA NodePushed ==
  ASSUME NEW j, NEW n, NEW Q, NEW D, NEW row, NEW K, NEW R, NEW dials,
         NodeFits(j, n, Q, D, row, K, R, dials)
  PROVE  NodeFits(j, n, Q, D, row, D, D, dials)
  BY HostSame DEF NodeFits, Like

(* xray starts with the file that is there.                                *)
LEMMA NodeRestarted ==
  ASSUME NEW j, NEW n, NEW Q, NEW D, NEW row, NEW K, NEW R, NEW dials,
         NodeFits(j, n, Q, D, row, K, R, dials), Recording(j, n) => Like(K, D, j.u)
  PROVE  NodeFits(j, n, Q, D, row, K, K, dials)
  BY DEF NodeFits

(* The server could not be reached, for the first time.                    *)
LEMMA NodeMissed ==
  ASSUME NEW j, NEW k, NEW n, NEW Q, NEW S \in SUBSET Q, NEW D, NEW row, NEW K, NEW R,
         k.u = j.u, k.u \in Users, k.pc = "mark", k.at = n,
         NodeFits(j, n, Q, D, row, K, R, 0)
  PROVE  NodeFits(k, n, S, D, row, K, R, 1)
  <1> DEFINE H == row.hash
  <1>1. ~Settled(k, n) /\ ~Recording(k, n)
    BY DEF Settled, Recording
  <1> SUFFICES ASSUME H.base = D.base
               PROVE  /\ HostFits(K, D, H, k.u, S, row.status, 1)
                      /\ HostFits(R, D, H, k.u, S, row.status, 1)
    BY <1>1 DEF NodeFits
  <1>2. /\ HostFits(K, D, H, k.u, Q, row.status, 0)
        /\ HostFits(R, D, H, k.u, Q, row.status, 0)
    BY DEF NodeFits
  <1>3. 0 \in Nat /\ 1 \in Nat /\ 1 >= 0
    OBVIOUS
  <1> HIDE DEF H
  <1> QED
    BY <1>2, <1>3, HostKept

(* xray was told.                                                          *)
LEMMA NodeServed ==
  ASSUME NEW j, NEW k, NEW n \in Nodes, NEW Q, NEW S, NEW U \in [Users -> User], NEW b,
         NEW row, NEW R \in Config, NEW T, NEW dials, NEW q \in Pass,
         k.u = j.u, k.u \in Users, j.pc = "grpc", k.pc = "record", k.at = n,
         q \in Q, Suits(q, U[j.u], n),
         T = [R EXCEPT !.users = Applied(R.users, q.verb, j.u, q.uuid)],
         NodeFits(j, n, Q, Generated(b, U, n), row, Generated(b, U, n), R, dials)
  PROVE  NodeFits(k, n, S, Generated(b, U, n), row, Generated(b, U, n), T, dials)
  <1> DEFINE H == row.hash
             D == Generated(b, U, n)
  <1>1. Settled(j, n) /\ Settled(k, n) /\ ~Recording(j, n) /\ Recording(k, n)
    BY DEF Settled, Recording
  <1>2. H.base <= D.base /\ (row.status = "synced" => H.base = D.base)
    BY <1>1 DEF NodeFits
  <1> SUFFICES ASSUME H.base = D.base
               PROVE  /\ HostFits(D, D, H, k.u, S, row.status, dials)
                      /\ HostFits(T, D, H, k.u, S, row.status, dials)
                      /\ dials = 0 => row.status = "synced"
                      /\ row.status = "synced" =>
                            \A v \in Users : v # k.u => Like(H, D, v)
                      /\ row.status = "synced" => Like(T, D, k.u)
    BY <1>1, <1>2 DEF NodeFits
  <1>3. /\ HostFits(R, D, H, j.u, Q, row.status, dials)
        /\ dials = 0 => row.status = "synced"
        /\ row.status = "synced" => \A v \in Users : v # j.u => Like(H, D, v)
    BY <1>1 DEF NodeFits
  <1>4. HostFits(D, D, H, k.u, S, row.status, dials)
    BY HostSame
  <1>5. /\ HostFits(T, D, H, k.u, S, row.status, dials)
        /\ row.status = "synced" => Like(T, D, k.u)
    BY <1>3, HostApplied
  <1> QED
    BY <1>3, <1>4, <1>5

(* What the server now has is recorded.                                    *)
LEMMA NodeRecorded ==
  ASSUME NEW k, NEW n, NEW S, NEW D, D.base \in Nat, NEW row, NEW R, NEW dials,
         row.status = "synced", row.hash = D, ~Recording(k, n),
         R.base = D.base, \A v \in Users : Like(R, D, v), k.u \in Users
  PROVE  NodeFits(k, n, S, D, row, D, R, dials)
  <1>1. D.base <= D.base
    OBVIOUS
  <1>2. \A v \in Users : Like(D, D, v)
    BY DEF Like
  <1>3. HostFits(R, D, D, k.u, S, "synced", dials)
    BY DEF HostFits, Either
  <1> QED
    BY <1>1, <1>2, <1>3, HostSame DEF NodeFits

(* When it may be recorded, xray runs just that.                           *)
LEMMA NodeRunsAll ==
  ASSUME NEW j, NEW n, NEW Q, NEW D, NEW row, NEW K, NEW R, NEW dials,
         row.status = "synced", Recording(j, n),
         NodeFits(j, n, Q, D, row, K, R, dials)
  PROVE  R.base = D.base /\ \A v \in Users : Like(R, D, v)
  <1> DEFINE H == row.hash
  <1>1. Settled(j, n)
    BY DEF Settled, Recording
  <1>2. H.base = D.base
    BY <1>1 DEF NodeFits
  <1>3. /\ HostFits(R, D, H, j.u, Q, row.status, dials)
        /\ \A v \in Users : v # j.u => Like(H, D, v)
        /\ Like(R, D, j.u)
    BY <1>1, <1>2 DEF NodeFits
  <1>4. R.base = D.base /\ \A v \in Users : v # j.u => Either(R, H, D, v)
    BY <1>3 DEF HostFits
  <1> QED
    BY <1>3, <1>4 DEF Either, Like

(* The node is marked as no longer synced.                                 *)
LEMMA NodeMarked ==
  ASSUME NEW j, NEW k, NEW n, NEW Q, NEW S \in SUBSET Q, NEW D, NEW row, NEW new,
         NEW K, NEW R, NEW dials \in Nat, NEW more \in Nat,
         k.u \in Users, Q = {} \/ k.u = j.u, S = {} => Q = {}, more >= dials, more # 0,
         new.hash = row.hash, new.status # "synced",
         NodeFits(j, n, Q, D, row, K, R, dials)
  PROVE  NodeFits(k, n, S, D, new, K, R, more)
  <1> DEFINE H == row.hash
  <1>1. H.base <= D.base
    BY DEF NodeFits
  <1> SUFFICES ASSUME H.base = D.base
               PROVE  /\ HostFits(K, D, H, k.u, S, new.status, more)
                      /\ HostFits(R, D, H, k.u, S, new.status, more)
    BY <1>1 DEF NodeFits
  <1>2. /\ HostFits(K, D, H, j.u, Q, row.status, dials)
        /\ HostFits(R, D, H, j.u, Q, row.status, dials)
    BY DEF NodeFits
  <1> HIDE DEF H
  <1> QED
    BY <1>2, HostKept

(* What was recorded is of before an edit.                                 *)
LEMMA NodeOutdated ==
  ASSUME NEW k, NEW n, NEW S, NEW D, NEW row, NEW K, NEW R, NEW dials,
         row.hash.base <= D.base, row.hash.base # D.base,
         k.pc = "editMark" \/ row.status # "synced"
  PROVE  NodeFits(k, n, S, D, row, K, R, dials)
  BY DEF NodeFits, Settled

(* A request has written a row.                                            *)
LEMMA NodeOwing ==
  ASSUME NEW j, NEW k, NEW n, NEW Q, NEW D, NEW E, NEW row, NEW K, NEW R, NEW dials,
         j.pc \in {"idle", "write"}, k.pc = "plan", k.u \in Users, D.base = E.base,
         \A v \in Users : v # k.u \/ Q = {} => Like(D, E, v),
         \A q \in Q : q.verb = "add" => Of(D, k.u) = {},
         NodeFits(j, n, {}, D, row, K, R, dials)
  PROVE  NodeFits(k, n, Q, E, row, K, R, dials)
  <1> DEFINE H == row.hash
  <1>1. Settled(j, n) /\ Settled(k, n) /\ ~Recording(j, n) /\ ~Recording(k, n)
    BY DEF Settled, Recording
  <1>2. H.base <= E.base /\ (row.status = "synced" => H.base = E.base)
    BY <1>1 DEF NodeFits
  <1> SUFFICES ASSUME H.base = E.base
               PROVE  /\ HostFits(K, E, H, k.u, Q, row.status, dials)
                      /\ HostFits(R, E, H, k.u, Q, row.status, dials)
                      /\ dials = 0 => row.status = "synced"
                      /\ row.status = "synced" => \A v \in Users :
                             v # k.u \/ Q = {} => Like(H, E, v)
    BY <1>1, <1>2 DEF NodeFits
  <1>3. /\ HostFits(K, D, H, j.u, {}, row.status, dials)
        /\ HostFits(R, D, H, j.u, {}, row.status, dials)
        /\ dials = 0 => row.status = "synced"
        /\ row.status = "synced" => \A v \in Users : Like(H, D, v)
    BY <1>1 DEF NodeFits
  <1> HIDE DEF H
  <1>4. HostFits(K, E, H, k.u, Q, row.status, dials)
    BY <1>3, HostOwing
  <1>5. HostFits(R, E, H, k.u, Q, row.status, dials)
    BY <1>3, HostOwing
  <1> QED
    BY <1>3, <1>4, <1>5 DEF Like

(* The drift check marks or unmarks a node while nobody is at work.        *)
LEMMA NodeChecked ==
  ASSUME NEW j, NEW n, NEW D \in Config, NEW row \in Row, NEW new, NEW K \in Config, NEW R,
         NEW dials, j.pc = "idle", new.hash = row.hash,
         new.status = IF D = row.hash /\ D = K THEN "synced" ELSE "drifted",
         NodeFits(j, n, {}, D, row, K, R, dials)
  PROVE  NodeFits(j, n, {}, D, new, K, R, dials)
  <1> DEFINE H == row.hash
  <1>1. Settled(j, n) /\ ~Recording(j, n) /\ H \in Config
    BY DEF Settled, Recording, Row
  <1>2. H.base <= D.base
    BY DEF NodeFits
  <1> SUFFICES ASSUME H.base = D.base
               PROVE  /\ HostFits(K, D, H, j.u, {}, new.status, dials)
                      /\ HostFits(R, D, H, j.u, {}, new.status, dials)
                      /\ dials = 0 => new.status = "synced"
                      /\ new.status = "synced" => \A v \in Users : Like(H, D, v)
    BY <1>1, <1>2 DEF NodeFits
  <1>3. /\ HostFits(K, D, H, j.u, {}, row.status, dials)
        /\ HostFits(R, D, H, j.u, {}, row.status, dials)
        /\ dials = 0 => row.status = "synced"
        /\ row.status = "synced" => \A v \in Users : Like(H, D, v)
    BY <1>1 DEF NodeFits
  <1>4. ASSUME dials = 0 PROVE D = H /\ D = K
    <2>1. \A v \in Users : Like(H, D, v) /\ Like(K, D, v)
      BY <1>3, <1>4 DEF HostFits, Either, Like
    <2>2. H.users = D.users /\ K.users = D.users
      BY <1>1, <2>1, OfAll
    <2>3. K.base = D.base
      BY <1>3 DEF HostFits
    <2> QED
      BY <1>1, <2>2, <2>3 DEF Config
  <1>5. /\ HostFits(K, D, H, j.u, {}, new.status, dials)
        /\ HostFits(R, D, H, j.u, {}, new.status, dials)
    BY <1>3 DEF HostFits
  <1> QED
    BY <1>4, <1>5 DEF Like

-----------------------------------------------------------------------------
(* The passes that are due, from step to step.                             *)

LEMMA DueNothing ==
  ASSUME NEW j, NEW U, NEW n, j.pc \notin InPass \cup {"plan", "rows"}
  PROVE  Due(j, U, n) = {}
  BY DEF Due, InPass

LEMMA DuePlanned ==
  ASSUME NEW j, NEW k, NEW U, NEW n, j.pc = "plan", k.pc = "rows",
         k.passes = PassesOf(j, U[j.u], Nodes)
  PROVE  Due(k, U, n) = Due(j, U, n)
  BY DEF Due, InPass

LEMMA DueDone ==
  ASSUME NEW j, NEW U, NEW n, j.pc = "rows", j.passes = <<>>
  PROVE  Due(j, U, n) = {}
  BY DEF Due, InPass, Among

LEMMA DueBegun ==
  ASSUME NEW j, NEW k, NEW U, NEW n, j.pc = "rows", j.passes \in Seq(Pass),
         j.passes # <<>>, k.pc = "next", k.passes = j.passes, k.todo = Head(j.passes).on
  PROVE  Due(k, U, n) = Due(j, U, n)
  <1>1. \A q : Among(q, j.passes, n) <=>
                 (q = Head(j.passes) /\ n \in q.on) \/ Among(q, Tail(j.passes), n)
    BY AmongSplit
  <1>2. Due(j, U, n) = {q \in Pass : Among(q, j.passes, n)}
    BY DEF Due, InPass
  <1>3. Due(k, U, n) = {q \in Pass : \/ Among(q, Tail(j.passes), n)
                                     \/ q = Head(j.passes) /\ n \in Head(j.passes).on}
    BY DEF Due, InPass
  <1> QED
    BY <1>1, <1>2, <1>3

LEMMA DuePassed ==
  ASSUME NEW j, NEW k, NEW U, NEW n, j.pc = "next", j.todo = {}, k.pc = "rows",
         k.passes = Tail(j.passes)
  PROVE  Due(k, U, n) = Due(j, U, n)
  BY DEF Due, InPass

LEMMA DueTaken ==
  ASSUME NEW j, NEW k, NEW U, NEW n, NEW m \in j.todo, j.pc = "next", k.pc = "upload",
         k.passes = j.passes, k.todo = j.todo \ {m}, k.at = m
  PROVE  Due(k, U, n) = Due(j, U, n)
  BY DEF Due, InPass

LEMMA DueStill ==
  ASSUME NEW j, NEW k, NEW U, NEW n,
         \/ j.pc = "upload" /\ k.pc = "grpc" /\ k.at = j.at
         \/ j.pc \in {"record", "mark"} /\ k.pc = "next"
         \/ j.pc \in {"upload", "grpc"} /\ k.pc \in {"record", "mark"} /\ n # j.at,
         k.passes = j.passes, k.todo = j.todo
  PROVE  Due(k, U, n) = Due(j, U, n)
  BY DEF Due, InPass

LEMMA DueLess ==
  ASSUME NEW j, NEW k, NEW U, NEW n,
         j.pc \in {"upload", "grpc"}, k.pc \in {"record", "mark"},
         k.passes = j.passes, k.todo = j.todo
  PROVE  Due(k, U, n) \subseteq Due(j, U, n)
  BY DEF Due, InPass

LEMMA DueNow ==
  ASSUME NEW j \in Job, NEW U, j.pc = "grpc", j.passes # <<>>
  PROVE  Head(j.passes) \in Pass /\ Head(j.passes) \in Due(j, U, j.at)
  <1>1. Head(j.passes) \in Pass
    BY JobParts, PassesSplit
  <1> QED
    BY <1>1 DEF Due, InPass

-----------------------------------------------------------------------------
(* A worker's turn: steps between which a node is written.                 *)

LEMMA GotoSame ==
  ASSUME LiveTypes, NEW p \in Workers, NEW pc \in Stages, Goto(p, pc)
  PROVE  /\ job'[p] \in Job /\ job'[p].pc = pc /\ job'[p].u = job[p].u
         /\ job'[p].at = job[p].at /\ job'[p].cfg = job[p].cfg
         /\ job'[p].passes = job[p].passes /\ job'[p].todo = job[p].todo
         /\ job'[p].rows = job[p].rows
  <1>1. job[p] \in Job
    BY DEF LiveTypes, TypeOK
  <1>2. job'[p] = [job[p] EXCEPT !.pc = pc]
    BY GotoParts
  <1> QED
    BY <1>1, <1>2, StageType

LEMMA TurnTypes ==
  ASSUME LiveTypes, NEW p \in Workers
  PROVE  /\ job[p] \in Job /\ job[p].u \in Users /\ job[p].at \in Nodes
         /\ job[p].passes \in Seq(Pass) /\ job[p].todo \subseteq Nodes
         /\ user \in [Users -> User] /\ base \in Nat
         /\ used["dial"] \in Nat /\ used["request"] \in Nat
         /\ \A n \in Nodes : /\ Generated(base, user, n) \in Config
                             /\ node[n] \in Row /\ node[n].hash \in Config
                             /\ disk[n] \in Config /\ run[n] \in Config
  <1>1. \A n \in Nodes : Generated(base, user, n) \in Config
    BY DesiredParts
  <1>2. used["dial"] \in Nat /\ used["request"] \in Nat
    BY DEF LiveTypes, TypeOK, Events
  <1>3. \A n \in Nodes : node[n].hash \in Config
    BY DEF LiveTypes, TypeOK, Row
  <1> QED
    BY <1>1, <1>2, <1>3, Typed DEF LiveTypes, TypeOK, Versions

LEMMA TurnSame ==
  ASSUME LiveTypes, LiveTypes', NEW p \in Workers, TurnFits(p),
         UNCHANGED <<user, base, node, disk, run>>, used'["dial"] = used["dial"],
         \A n \in Nodes : /\ Due(job'[p], user, n) = Due(job[p], user, n)
                          /\ Due(job[p], user, n) = {} \/ job'[p].u = job[p].u,
         job[p].pc \notin {"mark", "record", "editMark"},
         job'[p].pc \notin {"mark", "record", "editMark", "pushed"},
         job'[p].pc \in Holding => job'[p].cfg = Generated(base, user, job'[p].at),
         job'[p].pc \in InPass \ {"next"} => job'[p].at \notin job'[p].todo,
         job'[p].pc \in InPass => \A n \in Nodes :
              n \in job'[p].todo \/ (n = job'[p].at /\ job'[p].pc # "next") =>
                  (n \in job'[p].rows <=> node[n].status = "synced")
  PROVE  TurnFits(p)'
  <1> DEFINE j == job[p]
             k == job'[p]
  <1>1. k.u \in Users /\ used["dial"] \in Nat /\ used["dial"] >= used["dial"]
    <2>1. k \in Job
      BY DEF LiveTypes, TypeOK
    <2> QED
      BY <2>1, TurnTypes, JobParts
  <1>2. \A n \in Nodes :
           /\ \A q \in Due(j, user, n) : Suits(q, user[j.u], n)
           /\ NodeFits(j, n, Due(j, user, n), Generated(base, user, n),
                       node[n], disk[n], run[n], used["dial"])
    BY DEF TurnFits
  <1>3. ASSUME NEW n \in Nodes
        PROVE  /\ \A q \in Due(k, user, n) : Suits(q, user[k.u], n)
               /\ NodeFits(k, n, Due(k, user, n), Generated(base, user, n),
                           node[n], disk[n], run[n], used["dial"])
    <2>1. \A q \in Due(k, user, n) : Suits(q, user[k.u], n)
      BY <1>2
    <2>2. /\ Settled(j, n) /\ ~Recording(j, n) /\ ~Recording(k, n)
          /\ Due(k, user, n) \in SUBSET Due(j, user, n)
          /\ Due(j, user, n) = {} \/ k.u = j.u
          /\ Due(k, user, n) = Due(j, user, n)
      BY DEF Settled, Recording
    <2>3. NodeFits(j, n, Due(j, user, n), Generated(base, user, n),
                   node[n], disk[n], run[n], used["dial"])
      BY <1>2
    <2> HIDE DEF j, k
    <2>4. NodeFits(k, n, Due(k, user, n), Generated(base, user, n),
                   node[n], disk[n], run[n], used["dial"])
      BY <1>1, <2>2, <2>3, NodeKept
    <2> QED
      BY <2>1, <2>4 DEF j, k
  <1> QED
    BY <1>3 DEF TurnFits

LEMMA PlanTurn ==
  ASSUME LiveInv, Alive, NEW p \in Workers, TurnFits(p), Plan(p)
  PROVE  TurnFits(p)'
  <1>1. /\ LiveTypes' /\ Kept(p) /\ job[p].pc = "plan" /\ job'[p].pc = "rows"
        /\ job'[p].passes = PassesOf(job[p], user[job[p].u], Nodes)
        /\ UNCHANGED <<mode, user, base, node, disk, run, lock, used>>
    BY PlanParts, AllActive DEF LiveInv
  <1>2. job'[p].u = job[p].u
    BY <1>1 DEF Kept
  <1>3. \A n \in Nodes : Due(job'[p], user, n) = Due(job[p], user, n)
    BY <1>1, DuePlanned
  <1> QED
    BY <1>1, <1>2, <1>3, TurnSame DEF LiveInv, Holding, InPass

LEMMA ReadRowsTurn ==
  ASSUME LiveInv, Alive, NEW p \in Workers, p # Sweeper, TurnFits(p), ReadRows(p)
  PROVE  TurnFits(p)'
  <1>1. /\ LiveTypes' /\ Kept(p) /\ job[p].pc = "rows"
        /\ UNCHANGED <<mode, user, base, node, disk, run, lock, used>>
    BY ReadRowsParts DEF LiveInv
  <1>2. CASE job[p].passes = <<>>
    <2>1. job'[p].pc = "idle"
      BY <1>2, IdleType, SetParts DEF ReadRows, LiveInv
    <2>2. \A n \in Nodes : Due(job'[p], user, n) = {} /\ Due(job[p], user, n) = {}
      BY <1>1, <1>2, <2>1, DueDone, DueNothing DEF InPass
    <2> QED
      BY <1>1, <2>1, <2>2, TurnSame DEF LiveInv, Holding, InPass
  <1>3. CASE job[p].passes # <<>>
    <2> DEFINE rows == {n \in Nodes : node[n].status = "synced"}
               next == [job[p] EXCEPT !.pc = "next", !.todo = Head(job[p].passes).on,
                                      !.rows = rows]
    <2>1. /\ job[p] \in Job /\ job[p].passes \in Seq(Pass)
          /\ Head(job[p].passes).on \subseteq Nodes /\ rows \subseteq Nodes
      BY <1>3, TurnTypes, PassesSplit DEF LiveInv
    <2>2. /\ next \in Job /\ next.pc = "next" /\ next.todo = Head(job[p].passes).on
          /\ next.rows = rows /\ next.passes = job[p].passes /\ next.u = job[p].u
      BY <2>1 DEF Job
    <2>3. Set(p, next)
      BY <1>3 DEF ReadRows
    <2> HIDE DEF next
    <2>4. job'[p] = next
      BY <2>2, <2>3, SetParts DEF LiveInv
    <2>5. \A n \in Nodes : Due(job'[p], user, n) = Due(job[p], user, n)
      BY <1>1, <1>3, <2>1, <2>2, <2>4, DueBegun
    <2> QED
      BY <1>1, <2>2, <2>4, <2>5, TurnSame DEF LiveInv, Holding
  <1> QED
    BY <1>2, <1>3

LEMMA PassDoneTurn ==
  ASSUME LiveInv, NEW p \in Workers, TurnFits(p), PassDone(p)
  PROVE  TurnFits(p)'
  <1>1. job[p].passes # <<>>
    BY DEF LiveInv, PassAtHand, PassDone, InPass
  <1>2. /\ LiveTypes' /\ Kept(p) /\ job[p].pc = "next" /\ job[p].todo = {}
        /\ job'[p].pc = "rows" /\ job'[p].passes = Tail(job[p].passes)
        /\ UNCHANGED <<mode, user, base, node, disk, run, lock, used>>
    BY <1>1, PassDoneParts DEF LiveInv
  <1>3. job'[p].u = job[p].u
    BY <1>2 DEF Kept
  <1>4. \A n \in Nodes : Due(job'[p], user, n) = Due(job[p], user, n)
    BY <1>2, DuePassed
  <1> QED
    BY <1>2, <1>3, <1>4, TurnSame DEF LiveInv, Holding, InPass

LEMMA LockAndBuildTurn ==
  ASSUME LiveInv, NEW p \in Workers, TurnFits(p), NEW m \in Nodes, LockAndBuild(p, m)
  PROVE  TurnFits(p)'
  <1>1. /\ LiveTypes' /\ Kept(p) /\ job[p].pc = "next"
        /\ job'[p].pc = "upload" /\ job'[p].todo = job[p].todo \ {m}
        /\ job'[p].at = m /\ job'[p].cfg = Generated(base, user, m)
        /\ job'[p].passes = job[p].passes
        /\ UNCHANGED <<mode, user, base, node, disk, run, used>>
    BY LockAndBuildParts DEF LiveInv
  <1>2. m \in job[p].todo
    BY DEF LockAndBuild
  <1>3. job'[p].u = job[p].u
    BY <1>1 DEF Kept
  <1>4. job'[p].rows = job[p].rows
    <2> DEFINE next == [job[p] EXCEPT !.pc = "upload", !.todo = @ \ {m}, !.at = m,
                                      !.cfg = Desired(m)]
    <2>1. Desired(m) \in Config /\ job[p] \in Job
      BY DesiredParts, TurnTypes DEF LiveInv
    <2>2. next \in Job /\ next.rows = job[p].rows
      BY <2>1 DEF Job
    <2>3. Set(p, next)
      BY DEF LockAndBuild
    <2> HIDE DEF next
    <2> QED
      BY <2>2, <2>3, SetParts DEF LiveInv
  <1>5. \A n \in Nodes : Due(job'[p], user, n) = Due(job[p], user, n)
    BY <1>1, <1>2, DueTaken
  <1>6. \A n \in Nodes : n \in job[p].todo => (n \in job[p].rows <=> node[n].status = "synced")
    BY <1>1 DEF TurnFits, InPass
  <1> QED
    BY <1>1, <1>2, <1>3, <1>4, <1>5, <1>6, TurnSame DEF LiveInv, InPass

LEMMA ReadTurn ==
  ASSUME LiveInv, NEW p \in Procs, TurnFits(p), NEW u \in Users, NEW kind \in Kinds,
         Read(p, kind, u)
  PROVE  TurnFits(p)'
  <1>1. /\ LiveTypes' /\ p \in Workers /\ job[p].pc = "idle" /\ job'[p].pc = "write"
        /\ UNCHANGED <<user, base, node, disk, run>>
    BY ReadParts, WorkerParts DEF LiveInv, Kinds
  <1>2. used'["dial"] = used["dial"]
    BY SpendType DEF Read, LiveInv, Events
  <1>3. \A n \in Nodes : Due(job'[p], user, n) = {} /\ Due(job[p], user, n) = {}
    BY <1>1, DueNothing DEF InPass
  <1> QED
    BY <1>1, <1>2, <1>3, TurnSame DEF LiveInv, Holding, InPass

LEMMA SyncBuildTurn ==
  ASSUME LiveInv, NEW p \in Procs, TurnFits(p), NEW m \in Nodes, SyncBuild(p, m)
  PROVE  TurnFits(p)'
  <1>1. /\ LiveTypes' /\ p \in Workers /\ job[p].pc = "idle" /\ job'[p].pc = "push"
        /\ job'[p].at = m /\ job'[p].cfg = Generated(base, user, m)
        /\ UNCHANGED <<user, base, node, disk, run>>
    BY SyncBuildParts, WorkerParts DEF LiveInv
  <1>2. used'["dial"] = used["dial"]
    BY SpendType DEF SyncBuild, LiveInv, Events
  <1>3. \A n \in Nodes : Due(job'[p], user, n) = {} /\ Due(job[p], user, n) = {}
    BY <1>1, DueNothing DEF InPass
  <1> QED
    BY <1>1, <1>2, <1>3, TurnSame DEF LiveInv, Holding, InPass

-----------------------------------------------------------------------------
(* A worker's turn: steps that write to a node.                            *)

LEMMA DialOnce ==
  ASSUME LiveTypes, Spend("dial"), used'["dial"] <= 1
  PROVE  used["dial"] = 0 /\ used'["dial"] = 1
  <1>1. used["dial"] \in Nat /\ used'["dial"] = used["dial"] + 1
    BY SpendType DEF Events, LiveTypes, TypeOK
  <1> QED
    BY <1>1

(* At the nodes that the step leaves alone all stays.                      *)
LEMMA TurnOther ==
  ASSUME LiveTypes, LiveTypes', NEW p \in Workers, TurnFits(p), NEW n \in Nodes,
         UNCHANGED <<user, base>>, used'["dial"] >= used["dial"],
         node'[n] = node[n], disk'[n] = disk[n], run'[n] = run[n],
         Due(job'[p], user, n) = Due(job[p], user, n),
         Due(job[p], user, n) = {} \/ job'[p].u = job[p].u,
         n # job[p].at \/ job[p].pc \notin {"mark", "record"}, job[p].pc # "editMark",
         n # job'[p].at \/ job'[p].pc \notin {"mark", "record"}
  PROVE  /\ \A q \in Due(job'[p], user', n) : Suits(q, user'[job'[p].u], n)
         /\ NodeFits(job'[p], n, Due(job'[p], user', n), Generated(base', user', n),
                     node'[n], disk'[n], run'[n], used'["dial"])
  <1> DEFINE j == job[p]
             k == job'[p]
             Q == Due(j, user, n)
             D == Generated(base, user, n)
  <1>1. k.u \in Users /\ used["dial"] \in Nat /\ used'["dial"] \in Nat
    <2>1. k \in Job /\ used'["dial"] \in Nat
      BY DEF LiveTypes, TypeOK, Events
    <2> QED
      BY <2>1, TurnTypes, JobParts
  <1>2. /\ \A q \in Q : Suits(q, user[j.u], n)
        /\ NodeFits(j, n, Q, D, node[n], disk[n], run[n], used["dial"])
    BY DEF TurnFits
  <1>3. \A q \in Due(k, user, n) : Suits(q, user[k.u], n)
    BY <1>2
  <1>4. Settled(j, n) /\ ~Recording(j, n) /\ ~Recording(k, n)
    BY DEF Settled, Recording
  <1>5. Q = {} \/ k.u = j.u
    OBVIOUS
  <1> HIDE DEF j, k, Q, D
  <1>6. NodeFits(k, n, Q, D, node[n], disk[n], run[n], used'["dial"])
    BY <1>1, <1>2, <1>4, <1>5, NodeKept
  <1> QED
    BY <1>3, <1>6 DEF j, k, Q, D

(* A call to the server fails.                                             *)
LEMMA MissedTurn ==
  ASSUME LiveTypes, LiveTypes', NEW p \in Workers, TurnFits(p), used'["dial"] <= 1,
         Spend("dial"), Goto(p, "mark"), job[p].pc \in {"upload", "grpc"},
         UNCHANGED <<user, base, node, disk, run>>
  PROVE  TurnFits(p)'
  <1> DEFINE j == job[p]
             k == job'[p]
  <1>1. used["dial"] = 0 /\ used'["dial"] = 1
    BY DialOnce
  <1>2. /\ k.pc = "mark" /\ k.u = j.u /\ k.at = j.at /\ k.passes = j.passes
        /\ k.todo = j.todo /\ k.rows = j.rows
    BY GotoSame DEF Stages
  <1>3. j.u \in Users /\ j.at \in Nodes
    BY TurnTypes
  <1>4. ASSUME NEW n \in Nodes
        PROVE  /\ \A q \in Due(k, user', n) : Suits(q, user'[k.u], n)
               /\ NodeFits(k, n, Due(k, user', n), Generated(base', user', n),
                           node'[n], disk'[n], run'[n], used'["dial"])
    <2>1. CASE n # j.at
      <3>1. Due(k, user, n) = Due(j, user, n)
        BY <1>2, <2>1, DueStill
      <3> QED
        BY <1>1, <1>2, <2>1, <3>1, TurnOther
    <2>2. CASE n = j.at
      <3>1. Due(k, user, n) \in SUBSET Due(j, user, n)
        BY <1>2, DueLess
      <3>2. /\ \A q \in Due(j, user, n) : Suits(q, user[j.u], n)
            /\ NodeFits(j, n, Due(j, user, n), Generated(base, user, n),
                        node[n], disk[n], run[n], 0)
        BY <1>1 DEF TurnFits
      <3>3. k.u = j.u /\ k.u \in Users /\ k.pc = "mark" /\ k.at = n
        BY <1>2, <1>3, <2>2
      <3> HIDE DEF j, k
      <3>4. NodeFits(k, n, Due(k, user, n), Generated(base, user, n),
                     node[n], disk[n], run[n], 1)
        BY <3>1, <3>2, <3>3, NodeMissed
      <3> QED
        BY <1>1, <3>1, <3>2, <3>3, <3>4
    <2> QED
      BY <2>1, <2>2
  <1>5. /\ j.at \notin j.todo
        /\ \A n \in Nodes : n \in j.todo \/ n = j.at => (n \in j.rows <=> node[n].status = "synced")
    BY DEF TurnFits, InPass
  <1> QED
    BY <1>1, <1>2, <1>4, <1>5 DEF TurnFits, Holding

LEMMA UploadTurn ==
  ASSUME LiveInv, LiveTypes', NEW p \in Workers, TurnFits(p), used'["dial"] <= 1, Upload(p)
  PROVE  TurnFits(p)'
  <1> DEFINE j == job[p]
             k == job'[p]
  <1>1. /\ j.pc = "upload" /\ UNCHANGED <<user, base, node, run>>
        /\ \/ /\ disk' = [disk EXCEPT ![j.at] = j.cfg] /\ Goto(p, "grpc") /\ UNCHANGED used
           \/ Spend("dial") /\ Goto(p, "mark") /\ UNCHANGED disk
    BY DEF Upload, tables, At
  <1>2. CASE Spend("dial") /\ Goto(p, "mark") /\ UNCHANGED disk
    BY <1>1, <1>2, MissedTurn DEF LiveInv
  <1>3. CASE disk' = [disk EXCEPT ![j.at] = j.cfg] /\ Goto(p, "grpc") /\ UNCHANGED used
    <2>1. /\ k.pc = "grpc" /\ k.u = j.u /\ k.at = j.at /\ k.passes = j.passes
          /\ k.todo = j.todo /\ k.rows = j.rows /\ k.cfg = j.cfg
      BY <1>3, GotoSame DEF Stages, LiveInv
    <2>2. /\ j.u \in Users /\ j.at \in Nodes /\ used["dial"] \in Nat /\ k.u \in Users
          /\ used["dial"] >= used["dial"]
      BY <2>1, TurnTypes DEF LiveInv
    <2>3. /\ j.cfg = Generated(base, user, j.at) /\ j.at \notin j.todo
          /\ \A n \in Nodes : n \in j.todo \/ n = j.at =>
                (n \in j.rows <=> node[n].status = "synced")
      BY <1>1 DEF TurnFits, InPass, Holding
    <2>4. disk'[j.at] = j.cfg /\ \A n \in Nodes : n # j.at => disk'[n] = disk[n]
      BY <1>3, <2>2 DEF LiveInv, LiveTypes, TypeOK
    <2>5. ASSUME NEW n \in Nodes
          PROVE  /\ \A q \in Due(k, user', n) : Suits(q, user'[k.u], n)
                 /\ NodeFits(k, n, Due(k, user', n), Generated(base', user', n),
                             node'[n], disk'[n], run'[n], used'["dial"])
      <3>1. Due(k, user, n) = Due(j, user, n)
        BY <1>1, <2>1, DueStill
      <3>2. CASE n # j.at
        BY <1>1, <1>3, <2>1, <2>2, <2>4, <3>1, <3>2, TurnOther DEF LiveInv
      <3>3. CASE n = j.at
        <4>1. /\ \A q \in Due(j, user, n) : Suits(q, user[j.u], n)
              /\ NodeFits(j, n, Due(j, user, n), Generated(base, user, n),
                          node[n], disk[n], run[n], used["dial"])
          BY DEF TurnFits
        <4>2. Settled(j, n) /\ ~Recording(j, n) /\ ~Recording(k, n)
          BY <1>1, <2>1 DEF Settled, Recording
        <4>3. disk'[n] = Generated(base, user, n)
          BY <2>3, <2>4, <3>3
        <4>4. k.u = j.u
          BY <2>1
        <4> HIDE DEF j, k
        <4>5. NodeFits(j, n, Due(j, user, n), Generated(base, user, n),
                       node[n], Generated(base, user, n), run[n], used["dial"])
          BY <4>1, NodeUploaded
        <4>6. NodeFits(k, n, Due(j, user, n), Generated(base, user, n),
                       node[n], Generated(base, user, n), run[n], used["dial"])
          BY <2>2, <4>2, <4>4, <4>5, NodeKept
        <4> QED
          BY <1>1, <1>3, <3>1, <4>1, <4>3, <4>4, <4>6
      <3> QED
        BY <3>2, <3>3
    <2> QED
      BY <1>1, <2>1, <2>3, <2>5 DEF TurnFits, Holding
  <1> QED
    BY <1>1, <1>2, <1>3

LEMMA GrpcTurn ==
  ASSUME LiveInv, LiveTypes', Alive, mode.limit["rpc"] = 0, NEW p \in Workers, TurnFits(p),
         used'["dial"] <= 1, Grpc(p)
  PROVE  TurnFits(p)'
  <1> DEFINE j == job[p]
             k == job'[p]
             q == Head(j.passes)
             after == Applied(run[j.at].users, q.verb, j.u, q.uuid)
  <1>1. ~Spend("rpc")
    BY SpendType DEF LiveInv, Events
  <1>2. /\ j.pc = "grpc" /\ UNCHANGED <<user, base, node, disk>>
        /\ \/ run' = [run EXCEPT ![j.at].users = after] /\ Goto(p, "record") /\ UNCHANGED used
           \/ Spend("dial") /\ Goto(p, "mark") /\ UNCHANGED run
    BY <1>1 DEF Grpc, tables, At
  <1>3. CASE Spend("dial") /\ Goto(p, "mark") /\ UNCHANGED run
    BY <1>2, <1>3, MissedTurn DEF LiveInv
  <1>4. CASE run' = [run EXCEPT ![j.at].users = after] /\ Goto(p, "record") /\ UNCHANGED used
    <2>1. /\ k.pc = "record" /\ k.u = j.u /\ k.at = j.at /\ k.passes = j.passes
          /\ k.todo = j.todo /\ k.rows = j.rows /\ k.cfg = j.cfg
      BY <1>4, GotoSame DEF Stages, LiveInv
    <2>2. /\ j \in Job /\ j.u \in Users /\ j.at \in Nodes /\ used["dial"] \in Nat
          /\ k.u \in Users /\ used["dial"] >= used["dial"]
          /\ user \in [Users -> User] /\ run[j.at] \in Config
      BY <2>1, TurnTypes DEF LiveInv
    <2>3. /\ j.cfg = Generated(base, user, j.at) /\ j.at \notin j.todo
          /\ \A n \in Nodes : n \in j.todo \/ n = j.at =>
                (n \in j.rows <=> node[n].status = "synced")
      BY <1>2 DEF TurnFits, InPass, Holding
    <2>4. /\ run'[j.at] = [run[j.at] EXCEPT !.users = after]
          /\ \A n \in Nodes : n # j.at => run'[n] = run[n]
      BY <1>4, <2>2 DEF LiveInv, LiveTypes, TypeOK
    <2>5. disk[j.at] = j.cfg
      BY <1>2 DEF Alive, HeldFits
    <2>6. q \in Pass /\ q \in Due(j, user, j.at)
      <3>1. j.passes # <<>>
        BY <1>2 DEF LiveInv, PassAtHand, InPass
      <3> HIDE DEF j
      <3> QED
        BY <1>2, <2>2, <3>1, DueNow
    <2>7. ASSUME NEW n \in Nodes
          PROVE  /\ \A r \in Due(k, user', n) : Suits(r, user'[k.u], n)
                 /\ NodeFits(k, n, Due(k, user', n), Generated(base', user', n),
                             node'[n], disk'[n], run'[n], used'["dial"])
      <3>1. CASE n # j.at
        <4>1. Due(k, user, n) = Due(j, user, n)
          BY <1>2, <2>1, <3>1, DueStill
        <4> QED
          BY <1>2, <1>4, <2>1, <2>2, <2>4, <3>1, <4>1, TurnOther DEF LiveInv
      <3>2. CASE n = j.at
        <4>1. Due(k, user, n) \in SUBSET Due(j, user, n)
          BY <1>2, <2>1, DueLess
        <4>2. /\ \A r \in Due(j, user, n) : Suits(r, user[j.u], n)
              /\ NodeFits(j, n, Due(j, user, n), Generated(base, user, n),
                          node[n], Generated(base, user, n), run[n], used["dial"])
          BY <2>3, <2>5, <3>2 DEF TurnFits
        <4>3. /\ k.u = j.u /\ k.u \in Users /\ j.pc = "grpc" /\ k.pc = "record" /\ k.at = n
              /\ q \in Pass /\ q \in Due(j, user, n) /\ Suits(q, user[j.u], n)
              /\ run'[n] = [run[n] EXCEPT !.users = Applied(run[n].users, q.verb, j.u, q.uuid)]
              /\ run[n] \in Config /\ disk'[n] = Generated(base, user, n)
          BY <1>2, <2>1, <2>2, <2>3, <2>4, <2>5, <2>6, <3>2, <4>2
        <4> HIDE DEF j, k, q
        <4>4. NodeFits(k, n, Due(k, user, n), Generated(base, user, n),
                       node[n], Generated(base, user, n), run'[n], used["dial"])
          BY <2>2, <4>2, <4>3, NodeServed
        <4> QED
          BY <1>2, <1>4, <4>1, <4>2, <4>3, <4>4
      <3> QED
        BY <3>1, <3>2
    <2> QED
      BY <1>2, <2>1, <2>3, <2>7 DEF TurnFits, Holding
  <1> QED
    BY <1>2, <1>3, <1>4

LEMMA StatusOnly ==
  ASSUME LiveTypes, NEW n \in Nodes, NEW s \in {"synced", "drifted", "failed"},
         node' = [node EXCEPT ![n].status = s]
  PROVE  /\ node'[n].status = s /\ node'[n].hash = node[n].hash
         /\ \A m \in Nodes : m # n => node'[m] = node[m]
  BY DEF LiveTypes, TypeOK, Row

LEMMA UpdateBoth ==
  ASSUME LiveTypes, NEW n \in Nodes, NEW c \in Config, UpdateLastSync(n, c)
  PROVE  /\ node'[n].status = "synced" /\ node'[n].hash = c
         /\ \A m \in Nodes : m # n => node'[m] = node[m]
  BY DEF LiveTypes, TypeOK, Row, UpdateLastSync

LEMMA RecordTurn ==
  ASSUME LiveInv, LiveTypes', Alive, NEW p \in Workers, TurnFits(p), Record(p)
  PROVE  TurnFits(p)'
  <1> DEFINE j == job[p]
             k == job'[p]
  <1>1. /\ j.pc = "record" /\ Goto(p, "next") /\ UNCHANGED <<user, base, disk, run, used>>
        /\ IF j.at \in j.rows THEN UpdateLastSync(j.at, j.cfg) ELSE UNCHANGED node
    BY DEF Record, At, hosts
  <1>2. /\ k.pc = "next" /\ k.u = j.u /\ k.at = j.at /\ k.passes = j.passes
        /\ k.todo = j.todo /\ k.rows = j.rows
    BY <1>1, GotoSame DEF Stages, LiveInv
  <1>3. /\ j.u \in Users /\ j.at \in Nodes /\ used["dial"] \in Nat /\ k.u \in Users
        /\ used["dial"] >= used["dial"] /\ j.cfg \in Config
    BY <1>2, TurnTypes, JobParts DEF LiveInv
  <1>4. /\ j.cfg = Generated(base, user, j.at) /\ j.at \notin j.todo
        /\ \A n \in Nodes : n \in j.todo \/ n = j.at =>
              (n \in j.rows <=> node[n].status = "synced")
        /\ disk[j.at] = j.cfg
    BY <1>1 DEF TurnFits, InPass, Holding, Alive, HeldFits
  <1>5. /\ \A n \in Nodes : n # j.at => node'[n] = node[n]
        /\ IF j.at \in j.rows THEN node'[j.at].status = "synced" /\ node'[j.at].hash = j.cfg
           ELSE node'[j.at] = node[j.at]
    BY <1>1, <1>3, UpdateBoth DEF LiveInv
  <1>6. ASSUME NEW n \in Nodes
        PROVE  /\ \A q \in Due(k, user', n) : Suits(q, user'[k.u], n)
               /\ NodeFits(k, n, Due(k, user', n), Generated(base', user', n),
                           node'[n], disk'[n], run'[n], used'["dial"])
    <2>1. Due(k, user, n) = Due(j, user, n)
      BY <1>1, <1>2, DueStill
    <2>2. CASE n # j.at
      BY <1>1, <1>2, <1>3, <1>5, <2>1, <2>2, TurnOther DEF LiveInv
    <2>3. CASE n = j.at
      <3> DEFINE D == Generated(base, user, n)
                 Q == Due(j, user, n)
      <3>1. /\ \A q \in Q : Suits(q, user[j.u], n)
            /\ NodeFits(j, n, Q, D, node[n], disk[n], run[n], used["dial"])
        BY DEF TurnFits
      <3>2. /\ Recording(j, n) /\ ~Recording(k, n) /\ Settled(j, n) /\ disk[n] = D
            /\ k.u = j.u /\ D.base \in Nat
        BY <1>1, <1>2, <1>4, <2>3, TurnTypes DEF Recording, Settled, LiveInv, Config, Versions
      <3>3. IF node[n].status = "synced" THEN node'[n].status = "synced" /\ node'[n].hash = D
            ELSE node'[n] = node[n]
        BY <1>4, <1>5, <2>3
      <3> HIDE DEF j, k, D, Q
      <3>4. NodeFits(k, n, Q, D, node'[n], D, run[n], used["dial"])
        <4>1. CASE node[n].status = "synced"
          <5>1. run[n].base = D.base /\ \A v \in Users : Like(run[n], D, v)
            BY <3>1, <3>2, <4>1, NodeRunsAll
          <5> QED
            BY <1>3, <3>2, <3>3, <4>1, <5>1, NodeRecorded
        <4>2. CASE node[n].status # "synced"
          BY <1>3, <3>1, <3>2, <3>3, <4>2, NodeKept
        <4> QED
          BY <4>1, <4>2
      <3> QED
        BY <1>1, <2>1, <3>1, <3>2, <3>4 DEF D, Q
    <2> QED
      BY <2>2, <2>3
  <1> QED
    BY <1>1, <1>2, <1>4, <1>5, <1>6 DEF TurnFits, Holding

LEMMA MarkDriftedTurn ==
  ASSUME LiveInv, LiveTypes', NEW p \in Workers, TurnFits(p), MarkDrifted(p)
  PROVE  TurnFits(p)'
  <1> DEFINE j == job[p]
             k == job'[p]
  <1>1. /\ j.pc = "mark" /\ Goto(p, "next")
        /\ node' = [node EXCEPT ![j.at].status = "drifted"]
        /\ UNCHANGED <<user, base, disk, run, used>>
    BY DEF MarkDrifted, At, hosts
  <1>2. /\ k.pc = "next" /\ k.u = j.u /\ k.at = j.at /\ k.passes = j.passes
        /\ k.todo = j.todo /\ k.rows = j.rows
    BY <1>1, GotoSame DEF Stages, LiveInv
  <1>3. /\ j.u \in Users /\ j.at \in Nodes /\ used["dial"] \in Nat /\ k.u \in Users
        /\ used["dial"] >= used["dial"]
    BY <1>2, TurnTypes DEF LiveInv
  <1>4. /\ j.at \notin j.todo /\ used["dial"] # 0
        /\ \A n \in Nodes : n \in j.todo => (n \in j.rows <=> node[n].status = "synced")
    BY <1>1 DEF TurnFits, InPass
  <1>5. /\ \A n \in Nodes : n # j.at => node'[n] = node[n]
        /\ node'[j.at].status = "drifted" /\ node'[j.at].hash = node[j.at].hash
    BY <1>1, <1>3, StatusOnly DEF LiveInv
  <1>6. ASSUME NEW n \in Nodes
        PROVE  /\ \A q \in Due(k, user', n) : Suits(q, user'[k.u], n)
               /\ NodeFits(k, n, Due(k, user', n), Generated(base', user', n),
                           node'[n], disk'[n], run'[n], used'["dial"])
    <2>1. Due(k, user, n) = Due(j, user, n)
      BY <1>1, <1>2, DueStill
    <2>2. CASE n # j.at
      BY <1>1, <1>2, <1>3, <1>5, <2>1, <2>2, TurnOther DEF LiveInv
    <2>3. CASE n = j.at
      <3> DEFINE D == Generated(base, user, n)
                 Q == Due(j, user, n)
      <3>1. /\ \A q \in Q : Suits(q, user[j.u], n)
            /\ NodeFits(j, n, Q, D, node[n], disk[n], run[n], used["dial"])
        BY DEF TurnFits
      <3>2. k.u = j.u /\ node'[n].hash = node[n].hash /\ node'[n].status # "synced"
        BY <1>2, <1>5, <2>3
      <3> HIDE DEF j, k, D, Q
      <3>3. NodeFits(k, n, Q, D, node'[n], disk[n], run[n], used["dial"])
        BY <1>3, <1>4, <3>1, <3>2, NodeMarked
      <3> QED
        BY <1>1, <2>1, <3>1, <3>2, <3>3 DEF D, Q
    <2> QED
      BY <2>2, <2>3
  <1> QED
    BY <1>1, <1>2, <1>4, <1>5, <1>6 DEF TurnFits, Holding

LEMMA SyncPushTurn ==
  ASSUME LiveInv, LiveTypes', NEW p \in Workers, TurnFits(p), used'["dial"] <= 1, SyncPush(p)
  PROVE  TurnFits(p)'
  <1> DEFINE j == job[p]
             k == job'[p]
  <1>1. /\ j.pc = "push" /\ UNCHANGED <<user, base>>
        /\ \/ /\ disk' = [disk EXCEPT ![j.at] = j.cfg] /\ run' = [run EXCEPT ![j.at] = j.cfg]
              /\ Goto(p, "pushed") /\ UNCHANGED <<node, used>>
           \/ /\ Spend("dial") /\ node' = [node EXCEPT ![j.at].status = "failed"]
              /\ Set(p, Idle) /\ UNCHANGED <<disk, run>>
    BY DEF SyncPush, At, hosts
  <1>2. /\ j.u \in Users /\ j.at \in Nodes /\ used["dial"] \in Nat /\ k.u \in Users
        /\ used["dial"] >= used["dial"] /\ j.cfg = Generated(base, user, j.at)
    <2>1. k \in Job
      BY DEF LiveTypes, TypeOK
    <2>2. j.cfg = Generated(base, user, j.at)
      BY <1>1 DEF TurnFits, Holding
    <2> QED
      BY <2>1, <2>2, TurnTypes, JobParts DEF LiveInv
  <1>3. \A n \in Nodes : Due(j, user, n) = {}
    BY <1>1, DueNothing DEF InPass
  <1>4. CASE /\ disk' = [disk EXCEPT ![j.at] = j.cfg] /\ run' = [run EXCEPT ![j.at] = j.cfg]
             /\ Goto(p, "pushed") /\ UNCHANGED <<node, used>>
    <2>1. k.pc = "pushed" /\ k.u = j.u /\ k.at = j.at /\ k.cfg = j.cfg
      BY <1>4, GotoSame DEF Stages, LiveInv
    <2>2. \A n \in Nodes : Due(k, user, n) = {}
      BY <2>1, DueNothing DEF InPass
    <2>3. /\ disk'[j.at] = j.cfg /\ run'[j.at] = j.cfg
          /\ \A n \in Nodes : n # j.at => disk'[n] = disk[n] /\ run'[n] = run[n]
      BY <1>2, <1>4 DEF LiveInv, LiveTypes, TypeOK
    <2>4. ASSUME NEW n \in Nodes
          PROVE  /\ \A q \in Due(k, user', n) : Suits(q, user'[k.u], n)
                 /\ NodeFits(k, n, Due(k, user', n), Generated(base', user', n),
                             node'[n], disk'[n], run'[n], used'["dial"])
      <3>1. CASE n # j.at
        BY <1>1, <1>2, <1>3, <1>4, <2>1, <2>2, <2>3, <3>1, TurnOther DEF LiveInv
      <3>2. CASE n = j.at
        <4> DEFINE D == Generated(base, user, n)
        <4>1. NodeFits(j, n, {}, D, node[n], disk[n], run[n], used["dial"])
          BY <1>3 DEF TurnFits
        <4>2. /\ Settled(j, n) /\ ~Recording(j, n) /\ ~Recording(k, n)
              /\ disk'[n] = D /\ run'[n] = D
          BY <1>1, <1>2, <2>1, <2>3, <3>2 DEF Settled, Recording
        <4> HIDE DEF j, k, D
        <4>3. NodeFits(j, n, {}, D, node[n], D, D, used["dial"])
          BY <4>1, NodePushed
        <4>4. NodeFits(k, n, {}, D, node[n], D, D, used["dial"])
          BY <1>2, <4>2, <4>3, NodeKept
        <4> QED
          BY <1>1, <1>4, <2>2, <4>2, <4>4 DEF D
      <3> QED
        BY <3>1, <3>2
    <2> QED
      BY <1>1, <1>2, <2>1, <2>3, <2>4 DEF TurnFits, Holding, InPass
  <1>5. CASE /\ Spend("dial") /\ node' = [node EXCEPT ![j.at].status = "failed"]
             /\ Set(p, Idle) /\ UNCHANGED <<disk, run>>
    <2>1. k.pc = "idle"
      BY <1>5, IdleType, SetParts DEF LiveInv
    <2>2. \A n \in Nodes : Due(k, user, n) = {}
      BY <2>1, DueNothing DEF InPass
    <2>3. used["dial"] = 0 /\ used'["dial"] = 1 /\ used'["dial"] >= used["dial"]
      <3>1. used["dial"] = 0 /\ used'["dial"] = 1
        BY <1>5, DialOnce DEF LiveInv
      <3> QED
        BY <3>1
    <2>4. /\ \A n \in Nodes : n # j.at => node'[n] = node[n]
          /\ node'[j.at].status = "failed" /\ node'[j.at].hash = node[j.at].hash
      BY <1>2, <1>5, StatusOnly DEF LiveInv
    <2>5. ASSUME NEW n \in Nodes
          PROVE  /\ \A q \in Due(k, user', n) : Suits(q, user'[k.u], n)
                 /\ NodeFits(k, n, Due(k, user', n), Generated(base', user', n),
                             node'[n], disk'[n], run'[n], used'["dial"])
      <3>1. CASE n # j.at
        <4>1. Due(k, user, n) = Due(j, user, n) /\ Due(j, user, n) = {}
          BY <1>3, <2>2
        <4>2. node'[n] = node[n] /\ disk'[n] = disk[n] /\ run'[n] = run[n]
          BY <1>5, <2>4, <3>1
        <4> QED
          BY <1>1, <2>1, <2>3, <3>1, <4>1, <4>2, TurnOther DEF LiveInv
      <3>2. CASE n = j.at
        <4> DEFINE D == Generated(base, user, n)
        <4>1. NodeFits(j, n, {}, D, node[n], disk[n], run[n], 0)
          BY <1>3, <2>3 DEF TurnFits
        <4>2. node'[n].hash = node[n].hash /\ node'[n].status # "synced"
          BY <2>4, <3>2
        <4>3. 0 \in Nat /\ 1 \in Nat /\ 1 >= 0
          OBVIOUS
        <4> HIDE DEF j, k, D
        <4>4. NodeFits(k, n, {}, D, node'[n], disk[n], run[n], 1)
          BY <1>2, <4>1, <4>2, <4>3, NodeMarked
        <4> QED
          BY <1>1, <1>5, <2>2, <2>3, <4>4 DEF D
      <3> QED
        BY <3>1, <3>2
    <2> QED
      BY <2>1, <2>5 DEF TurnFits, Holding, InPass
  <1> QED
    BY <1>1, <1>4, <1>5

LEMMA SyncRecordTurn ==
  ASSUME LiveInv, LiveTypes', Alive, NEW p \in Workers, TurnFits(p), SyncRecord(p)
  PROVE  TurnFits(p)'
  <1> DEFINE j == job[p]
             k == job'[p]
  <1>1. /\ j.pc = "pushed" /\ UpdateLastSync(j.at, j.cfg) /\ Set(p, Idle)
        /\ UNCHANGED <<user, base, disk, run, used>>
    BY DEF SyncRecord, At, hosts
  <1>2. k.pc = "idle"
    BY <1>1, IdleType, SetParts DEF LiveInv
  <1>3. /\ j.u \in Users /\ j.at \in Nodes /\ used["dial"] \in Nat /\ k.u \in Users
        /\ used["dial"] >= used["dial"] /\ j.cfg = Generated(base, user, j.at)
        /\ run[j.at] = j.cfg /\ disk[j.at] = j.cfg /\ j.cfg \in Config
    <2>1. k \in Job
      BY DEF LiveTypes, TypeOK
    <2>2. j.cfg = Generated(base, user, j.at) /\ run[j.at] = j.cfg /\ disk[j.at] = j.cfg
      BY <1>1 DEF TurnFits, Holding, Alive, HeldFits
    <2> QED
      BY <2>1, <2>2, TurnTypes, JobParts DEF LiveInv
  <1>4. \A n \in Nodes : Due(j, user, n) = {} /\ Due(k, user, n) = {}
    BY <1>1, <1>2, DueNothing DEF InPass
  <1>5. /\ \A n \in Nodes : n # j.at => node'[n] = node[n]
        /\ node'[j.at].status = "synced" /\ node'[j.at].hash = j.cfg
    BY <1>1, <1>3, UpdateBoth DEF LiveInv
  <1>6. ASSUME NEW n \in Nodes
        PROVE  /\ \A q \in Due(k, user', n) : Suits(q, user'[k.u], n)
               /\ NodeFits(k, n, Due(k, user', n), Generated(base', user', n),
                           node'[n], disk'[n], run'[n], used'["dial"])
    <2>1. CASE n # j.at
      BY <1>1, <1>2, <1>3, <1>4, <1>5, <2>1, TurnOther DEF LiveInv
    <2>2. CASE n = j.at
      <3> DEFINE D == Generated(base, user, n)
      <3>1. /\ node'[n].status = "synced" /\ node'[n].hash = D /\ ~Recording(k, n)
            /\ run[n] = D /\ disk[n] = D /\ D.base \in Nat
            /\ \A v \in Users : Like(D, D, v)
        BY <1>2, <1>3, <1>5, <2>2 DEF Recording, Config, Versions, Like
      <3> HIDE DEF j, k, D
      <3>2. NodeFits(k, n, {}, D, node'[n], D, D, used["dial"])
        BY <1>3, <3>1, NodeRecorded
      <3> QED
        BY <1>1, <1>4, <3>1, <3>2 DEF D
    <2> QED
      BY <2>1, <2>2
  <1> QED
    BY <1>2, <1>6 DEF TurnFits, Holding, InPass

LEMMA EditTurn ==
  ASSUME LiveInv, LiveTypes', NEW p \in Procs, TurnFits(p), base <= used["request"], Edit(p)
  PROVE  TurnFits(p)' /\ base' <= used'["request"]
  <1> DEFINE j == job[p]
             k == job'[p]
  <1>1. /\ p \in Workers /\ j.pc = "idle" /\ k.pc = "editMark"
        /\ UNCHANGED <<user, node, disk, run>>
    BY EditParts, WorkerParts DEF LiveInv
  <1>2. base' = used'["request"] /\ Spend("request")
    BY DEF Edit
  <1>3. /\ used["request"] \in Nat /\ used'["request"] = used["request"] + 1
        /\ base \in Nat /\ base' > base /\ base' \in Nat
    BY <1>1, <1>2, SpendType, TurnTypes DEF Events, LiveInv
  <1>4. ASSUME NEW n \in Nodes
        PROVE  node[n].hash.base \in Nat /\ node[n].hash.base <= base
    BY <1>1, TurnTypes DEF TurnFits, NodeFits, Generated, Config, Versions, LiveInv
  <1>5. \A n \in Nodes : node[n].hash.base <= base' /\ node[n].hash.base # base'
    BY <1>3, <1>4
  <1>6. \A n \in Nodes : Due(k, user, n) = {}
    BY <1>1, DueNothing DEF InPass
  <1>7. ASSUME NEW n \in Nodes
        PROVE  NodeFits(k, n, {}, Generated(base', user, n), node[n], disk[n], run[n],
                        used'["dial"])
    <2>1. Generated(base', user, n).base = base'
      BY DEF Generated
    <2> HIDE DEF j, k
    <2> QED
      BY <1>1, <1>5, <2>1, NodeOutdated DEF k
  <1>8. \A n \in Nodes : node'[n].hash.base # base'
    BY <1>1, <1>5
  <1>9. ASSUME NEW n \in Nodes
        PROVE  /\ \A q \in Due(k, user', n) : Suits(q, user'[k.u], n)
               /\ NodeFits(k, n, Due(k, user', n), Generated(base', user', n),
                           node'[n], disk'[n], run'[n], used'["dial"])
    BY <1>1, <1>6, <1>7
  <1>10. TurnFits(p)'
    BY <1>1, <1>8, <1>9 DEF TurnFits, Holding, InPass
  <1> QED
    BY <1>2, <1>3, <1>10

LEMMA MarkAllTurn ==
  ASSUME LiveInv, LiveTypes', Alive, NEW p \in Workers, TurnFits(p), MarkAllDrifted(p)
  PROVE  TurnFits(p)'
  <1> DEFINE j == job[p]
             k == job'[p]
  <1>1. /\ j.pc = "editMark" /\ k.pc = "idle" /\ UNCHANGED <<user, base, disk, run, used>>
        /\ \A n \in Nodes : node'[n].status = "drifted"
    BY MarkAllParts DEF LiveInv, Alive
  <1>2. \A n \in Nodes : node'[n].hash = node[n].hash
    <2>1. \A n \in Nodes : node'[n] = [node[n] EXCEPT !.status = "drifted"] /\ node[n] \in Row
      BY TurnTypes DEF MarkAllDrifted, Alive, LiveInv
    <2> QED
      BY <2>1 DEF Row
  <1>3. \A n \in Nodes : Due(k, user, n) = {}
    BY <1>1, DueNothing DEF InPass
  <1>4. ASSUME NEW n \in Nodes
        PROVE  NodeFits(k, n, {}, Generated(base, user, n), node'[n], disk[n], run[n],
                        used["dial"])
    <2> DEFINE D == Generated(base, user, n)
    <2>1. /\ D.base = base /\ node'[n].hash.base # base /\ node'[n].hash.base <= base
          /\ node'[n].status # "synced"
      BY <1>1, <1>2 DEF TurnFits, NodeFits, Generated
    <2> HIDE DEF D, k
    <2> QED
      BY <2>1, NodeOutdated DEF D
  <1> QED
    BY <1>1, <1>3, <1>4 DEF TurnFits, Holding, InPass

-----------------------------------------------------------------------------
(* A worker's turn: a user's row is written.                               *)

(* What each kind of request plans brings every node what the row that was *)
(* written asks for; a user is added only where it was not reached before. *)
PlannedFor(k, was, now) ==
    \/ k.kind = "create" /\ ~There(was)
    \/ k.kind = "delete" /\ ~There(now)
    \/ /\ k.kind = "toggle" /\ k.seen = was /\ There(was) /\ was.expiry # "past"
       /\ now.active = ~was.active /\ now.on = was.on /\ now.uuid = was.uuid
       /\ now.state = was.state /\ now.expiry # "past"
    \/ /\ k.kind = "reset" /\ k.seen.active = was.active /\ k.seen.on = was.on
       /\ k.seen.uuid = now.uuid /\ There(was) /\ was.expiry # "past"
       /\ now.on = was.on /\ Effective(now) = Effective(was)
    \/ /\ k.kind \in {"regroup", "renew"} /\ k.seen = was /\ k.old = was.on

LEMMA PlannedSuits ==
  ASSUME NEW k \in Job, NEW was \in User, NEW now \in User, PlannedFor(k, was, now),
         NEW n \in Nodes, NEW q, Among(q, PassesOf(k, now, Nodes), n)
  PROVE  Suits(q, now, n) /\ (q.verb = "add" => ~Reaches(was, n))
  <1> DEFINE seenNodes == k.seen.on \cap Nodes
             before == IF Effective(k.seen) THEN k.old ELSE {}
             after == IF Effective(now) THEN now.on \cap Nodes ELSE {}
             P == PassesOf(k, now, Nodes)
  <1>1. /\ after \in SUBSET Nodes /\ before \in SUBSET Nodes /\ now.uuid \in Nat
        /\ was.active \in BOOLEAN /\ now.active \in BOOLEAN
    BY JobParts, UserParts
  <1>2. CASE k.kind = "create" /\ ~There(was)
    <2>1. P = Over("add", now.uuid, after)
      BY <1>2 DEF PassesOf
    <2> HIDE DEF P, after
    <2>2. q.verb = "add" /\ q.uuid = now.uuid /\ n \in after
      BY <2>1, AmongOver DEF P
    <2> QED
      BY <1>2, <2>2 DEF Suits, Reaches, Effective, after
  <1>3. CASE k.kind = "delete" /\ ~There(now)
    <2>1. P = Over("remove", 0, k.old)
      BY <1>3 DEF PassesOf
    <2> HIDE DEF P
    <2>2. q.verb = "remove"
      BY <2>1, AmongOver DEF P
    <2> QED
      BY <1>3, <2>2 DEF Suits, Reaches, Effective
  <1>4. CASE /\ k.kind = "toggle" /\ k.seen = was /\ There(was) /\ was.expiry # "past"
             /\ now.active = ~was.active /\ now.on = was.on /\ now.uuid = was.uuid
             /\ now.state = was.state /\ now.expiry # "past"
    <2>1. CASE was.active
      <3>1. P = Over("remove", 0, seenNodes)
        BY <1>4, <2>1 DEF PassesOf
      <3> HIDE DEF P
      <3>2. q.verb = "remove"
        BY <3>1, AmongOver DEF P
      <3> QED
        BY <1>4, <2>1, <3>2 DEF Suits, Reaches, Effective
    <2>2. CASE ~was.active
      <3>1. P = Over("add", was.uuid, seenNodes)
        BY <1>4, <2>2, NoneLapses DEF PassesOf
      <3> HIDE DEF P
      <3>2. q.verb = "add" /\ q.uuid = was.uuid /\ n \in seenNodes
        BY <3>1, AmongOver DEF P
      <3> QED
        BY <1>4, <2>2, <3>2 DEF Suits, Reaches, Effective, There
    <2> QED
      BY <1>1, <2>1, <2>2
  <1>5. CASE /\ k.kind = "reset" /\ k.seen.active = was.active /\ k.seen.on = was.on
             /\ k.seen.uuid = now.uuid /\ There(was) /\ was.expiry # "past"
             /\ now.on = was.on /\ Effective(now) = Effective(was)
    <2> DEFINE S == IF k.seen.active /\ ~Lapsed(k.seen, now) THEN seenNodes ELSE {}
    <2>1. P = Over("replace", k.seen.uuid, S)
      BY <1>5 DEF PassesOf
    <2> HIDE DEF P, S
    <2>2. q.verb = "replace" /\ q.uuid = k.seen.uuid /\ n \in S
      BY <2>1, AmongOver DEF P
    <2>3. k.seen.active /\ n \in k.seen.on
      BY <2>2 DEF S
    <2> QED
      BY <1>5, <2>2, <2>3 DEF Suits, Reaches, Effective
  <1>6. CASE k.kind \in {"regroup", "renew"} /\ k.seen = was /\ k.old = was.on
    <2>1. P = Over("add", now.uuid, after \ before) \o Over("remove", 0, before \ after)
      BY <1>6 DEF PassesOf
    <2> HIDE DEF P, before, after
    <2>2. /\ Over("add", now.uuid, after \ before) \in Seq(Pass)
          /\ Over("remove", 0, before \ after) \in Seq(Pass)
      <3>1. after \ before \in SUBSET Nodes /\ before \ after \in SUBSET Nodes /\ 0 \in Nat
        BY <1>1
      <3> QED
        BY <1>1, <3>1, OverParts
    <2>3. \/ Among(q, Over("add", now.uuid, after \ before), n)
          \/ Among(q, Over("remove", 0, before \ after), n)
      BY <2>1, <2>2, AmongTwo DEF P
    <2>4. \/ q.verb = "add" /\ q.uuid = now.uuid /\ n \in after \ before
          \/ q.verb = "remove" /\ n \in before \ after
      BY <2>3, AmongOver
    <2> QED
      BY <1>6, <2>4 DEF Suits, Reaches, after, before
  <1> QED
    BY <1>2, <1>3, <1>4, <1>5, <1>6 DEF PlannedFor

LEMMA OwingTurn ==
  ASSUME LiveInv, LiveTypes', NEW p \in Workers, TurnFits(p), Considerate(p),
         UNCHANGED <<base, node, disk, run>>, used'["dial"] = used["dial"],
         \A v \in Users : v # job'[p].u => user'[v] = user[v],
         PlannedFor(job'[p], user[job'[p].u], user'[job'[p].u])
  PROVE  TurnFits(p)'
  <1> DEFINE j == job[p]
             k == job'[p]
             u == k.u
  <1>1. /\ j.pc \in {"idle", "write"} /\ k.pc = "plan"
        /\ \A n \in Nodes : Generated(base, user, n) # Generated(base, user', n) =>
               n \in Future(k, user')
    BY DEF Considerate
  <1>2. /\ k \in Job /\ u \in Users /\ user' \in [Users -> User] /\ user \in [Users -> User]
        /\ user'[u] \in User /\ user[u] \in User /\ Nodes \in SUBSET Nodes
    <2>1. k \in Job /\ user' \in [Users -> User] /\ user \in [Users -> User]
      BY DEF LiveTypes, TypeOK, LiveInv
    <2> QED
      BY <2>1, JobParts
  <1>3. ASSUME NEW n \in Nodes
        PROVE  /\ \A q \in Due(k, user', n) : Suits(q, user'[u], n)
               /\ NodeFits(k, n, Due(k, user', n), Generated(base, user', n),
                           node[n], disk[n], run[n], used["dial"])
    <2> DEFINE P == PassesOf(k, user'[u], Nodes)
               Q == Due(k, user', n)
               D == Generated(base, user, n)
               E == Generated(base, user', n)
    <2>1. P \in Seq(Pass) /\ Future(k, user') = Reach(P)
      BY <1>1, <1>2, PassesParts DEF Future
    <2>2. Q = {q \in Pass : Among(q, P, n)}
      BY <1>1 DEF Due, InPass
    <2>3. \A q \in Q : Suits(q, user'[u], n) /\ (q.verb = "add" => ~Reaches(user[u], n))
      BY <1>2, <2>2, PlannedSuits
    <2>4. NodeFits(j, n, {}, D, node[n], disk[n], run[n], used["dial"])
      <3>1. Due(j, user, n) = {}
        BY <1>1, DueNothing DEF InPass
      <3> QED
        BY <3>1 DEF TurnFits
    <2>5. Q = {} => D = E
      <3> HIDE DEF P
      <3> QED
        BY <1>1, <2>1, <2>2, AmongReach
    <2>6. \A v \in Users : /\ Of(D, v) = IF Reaches(user[v], n) THEN {<<v, user[v].uuid>>} ELSE {}
                           /\ Of(E, v) = IF Reaches(user'[v], n) THEN {<<v, user'[v].uuid>>} ELSE {}
      BY <1>2, OfGenerated
    <2>7. D.base = E.base
      BY DEF Generated
    <2> HIDE DEF D, E, Q, P, k, j
    <2>8. \A v \in Users : v # u \/ Q = {} => Like(D, E, v)
      BY <2>5, <2>6 DEF Like, k
    <2>9. \A q \in Q : q.verb = "add" => Of(D, u) = {}
      BY <1>2, <2>3, <2>6
    <2>10. NodeFits(k, n, Q, E, node[n], disk[n], run[n], used["dial"])
      BY <1>1, <1>2, <2>4, <2>7, <2>8, <2>9, NodeOwing
    <2> QED
      BY <2>3, <2>10 DEF Q, E
  <1> QED
    BY <1>1, <1>3 DEF TurnFits, Holding, InPass

LEMMA CreateTurn ==
  ASSUME LiveInv, LiveTypes', Alive, FilesMode(mode), NEW p \in Procs, TurnFits(p),
         NEW u \in Users, NEW S \in SUBSET Nodes, Create(p, u, S)
  PROVE  TurnFits(p)'
  <1>1. /\ p \in Workers /\ job'[p].kind = "create" /\ job'[p].u = u
        /\ user[u].state = "none" /\ UNCHANGED <<base, node, disk, run>>
    BY CreateParts, WorkerParts DEF LiveInv
  <1>2. Considerate(p)
    BY CreateConsiderate
  <1>3. used'["dial"] = used["dial"]
    BY SpendType DEF Create, LiveInv, Events
  <1>4. \A v \in Users : v # u => user'[v] = user[v]
    BY DEF Create, LiveInv, LiveTypes, TypeOK
  <1>5. PlannedFor(job'[p], user[u], user'[u])
    BY <1>1 DEF PlannedFor, There
  <1> QED
    BY <1>1, <1>2, <1>3, <1>4, <1>5, OwingTurn

LEMMA WriteTurn ==
  ASSUME LiveInv, LiveTypes', Alive, FilesMode(mode), ~mode.together, NEW p \in Procs,
         TurnFits(p), WriteStep(p)
  PROVE  TurnFits(p)'
  <1> DEFINE j == job[p]
             k == job'[p]
             u == j.u
             was == user[u]
  <1>1. /\ p \in Workers /\ j.pc = "write" /\ u \in Users /\ k.pc = "plan" /\ k.kind = j.kind
        /\ k.u = u /\ k.old = j.old
        /\ k.seen.active = j.seen.active /\ k.seen.on = j.seen.on
        /\ j.kind # "reset" => k.seen = j.seen
        /\ j.kind = "reset" => k.seen.uuid = j.fresh
        /\ UNCHANGED <<mode, base, node, disk, run, lock, used>>
    BY WriteParts, WorkerParts DEF LiveInv
  <1>2. PICK r \in User : Written(p, r) /\ user' = [user EXCEPT ![u] = r]
    BY WriteParts DEF LiveInv
  <1>3. Considerate(p)
    BY WriteConsiderate
  <1>4. /\ user \in [Users -> User] /\ was \in User /\ j.fresh \in Nat
        /\ user'[u] = r /\ \A v \in Users : v # u => user'[v] = user[v]
    BY <1>1, <1>2, Typed, JobParts DEF LiveInv, LiveTypes, TypeOK
  <1>5. was = j.seen /\ There(was) /\ j.old = was.on /\ was.expiry # "past"
    BY <1>1 DEF Alive, JobFits
  <1>6. /\ r.expiry # "past"
        /\ \/ j.kind = "delete" /\ r = Gone
           \/ /\ j.kind = "toggle" /\ r.on = was.on /\ r.uuid = was.uuid /\ r.state = was.state
           \/ j.kind = "reset" /\ r.on = was.on /\ Effective(r) = Effective(was)
           \/ j.kind \in {"regroup", "renew"}
    BY <1>1, <1>2, <1>5, WrittenFresh
  <1>7. j.kind = "toggle" => r.active = ~was.active
    <2>1. j.kind = "toggle" => r = [was EXCEPT !.active = ~was.active]
      BY <1>2, <1>5 DEF Written
    <2> QED
      BY <1>4, <2>1 DEF User
  <1>8. j.kind = "reset" => r.uuid = j.fresh
    <2>1. j.kind = "reset" => r = [was EXCEPT !.uuid = j.fresh]
      BY <1>2, <1>5 DEF Written
    <2> QED
      BY <1>4, <2>1 DEF User, Uuids
  <1>9. PlannedFor(k, was, r)
    <2>1. ~There(Gone)
      BY DEF There, Gone, Absent
    <2> QED
      BY <1>1, <1>5, <1>6, <1>7, <1>8, <2>1 DEF PlannedFor
  <1> QED
    BY <1>1, <1>3, <1>4, <1>9, OwingTurn

-----------------------------------------------------------------------------
(* What xray runs: every step.                                             *)

LEMMA PlainMine ==
  ASSUME NEW p, PlainStep(p)
  PROVE  job[p].pc # "idle" \/ MyTurn
  <1>1. CASE Plan(p) \/ ReadRows(p) \/ PassDone(p) \/ Record(p) \/ MarkDrifted(p)
             \/ SyncRecord(p) \/ MarkAllDrifted(p) \/ \E n \in Nodes : LockAndBuild(p, n)
    BY <1>1 DEF Plan, ReadRows, PassDone, Record, MarkDrifted, SyncRecord, MarkAllDrifted,
                LockAndBuild
  <1>2. CASE Edit(p) \/ \E n \in Nodes : SyncBuild(p, n)
    BY <1>2 DEF Edit, SyncBuild
  <1>3. CASE Upload(p) \/ SyncPush(p) \/ Grpc(p)
    BY <1>3 DEF Upload, SyncPush, Grpc
  <1> QED
    BY <1>1, <1>2, <1>3 DEF PlainStep

LEMMA PlainTurn ==
  ASSUME LiveInv, LiveTypes', Alive, ServedMode(mode), NEW p \in Workers, PlainStep(p),
         TurnFits(p), used'["dial"] <= 1, base <= used["request"],
         used["request"] <= used'["request"]
  PROVE  TurnFits(p)' /\ base' <= used'["request"]
  <1>1. mode.limit["rpc"] = 0
    BY DEF ServedMode
  <1>2. base \in Nat /\ used["request"] \in Nat /\ used'["request"] \in Nat
    BY DEF LiveInv, LiveTypes, TypeOK, Versions, Events
  <1>3. base' = base => base' <= used'["request"]
    BY <1>2
  <1>4. CASE p \in Procs /\ Edit(p)
    BY <1>4, EditTurn
  <1>5. CASE Plan(p)
    BY <1>3, <1>5, PlanTurn DEF Plan, tables
  <1>6. CASE ReadRows(p)
    <2>1. p # Sweeper
      BY <1>6 DEF ReadRows, Alive, JobFits
    <2> QED
      BY <1>3, <1>6, <2>1, ReadRowsTurn DEF ReadRows, tables
  <1>7. CASE PassDone(p)
    BY <1>3, <1>7, PassDoneTurn DEF PassDone, tables
  <1>8. CASE Upload(p)
    BY <1>3, <1>8, UploadTurn DEF Upload, tables
  <1>9. CASE Grpc(p)
    BY <1>1, <1>3, <1>9, GrpcTurn DEF Grpc, tables
  <1>10. CASE Record(p)
    BY <1>3, <1>10, RecordTurn DEF Record
  <1>11. CASE MarkDrifted(p)
    BY <1>3, <1>11, MarkDriftedTurn DEF MarkDrifted
  <1>12. ASSUME NEW n \in Nodes, LockAndBuild(p, n)
         PROVE  TurnFits(p)' /\ base' = base
    BY <1>12, LockAndBuildTurn DEF LockAndBuild, tables
  <1>13. CASE SyncPush(p)
    BY <1>3, <1>13, SyncPushTurn DEF SyncPush
  <1>14. CASE SyncRecord(p)
    BY <1>3, <1>14, SyncRecordTurn DEF SyncRecord
  <1>15. CASE MarkAllDrifted(p)
    BY <1>3, <1>15, MarkAllTurn DEF MarkAllDrifted
  <1>16. ASSUME p \in Procs, NEW n \in Nodes, SyncBuild(p, n)
         PROVE  TurnFits(p)' /\ base' = base
    BY <1>16, SyncBuildTurn DEF SyncBuild, tables
  <1> QED
    BY <1>3, <1>4, <1>5, <1>6, <1>7, <1>8, <1>9, <1>10, <1>11, <1>12, <1>13, <1>14, <1>15,
       <1>16 DEF PlainStep

(* A turn ends, and it is anybody's.                                       *)
LEMMA TurnPasses ==
  ASSUME LiveTypes', NEW p \in Workers, NEW q \in Workers, TurnFits(p)',
         job'[p].pc = "idle", job'[q].pc = "idle"
  PROVE  TurnFits(q)'
  <1> DEFINE j == job'[p]
             k == job'[q]
  <1>1. k.u \in Users /\ used'["dial"] \in Nat /\ used'["dial"] >= used'["dial"]
    <2>1. k \in Job /\ used'["dial"] \in Nat
      BY DEF LiveTypes, TypeOK, Events
    <2> QED
      BY <2>1, JobParts
  <1>2. ASSUME NEW n \in Nodes
        PROVE  /\ Due(k, user', n) = {}
               /\ NodeFits(k, n, {}, Generated(base', user', n), node'[n], disk'[n], run'[n],
                           used'["dial"])
    <2>1. Due(j, user', n) = {} /\ Due(k, user', n) = {}
      BY DueNothing DEF InPass
    <2>2. NodeFits(j, n, {}, Generated(base', user', n), node'[n], disk'[n], run'[n],
                   used'["dial"])
      BY <2>1 DEF TurnFits
    <2>3. Settled(j, n) /\ ~Recording(j, n) /\ ~Recording(k, n)
      BY DEF Settled, Recording
    <2> HIDE DEF j, k
    <2> QED
      BY <1>1, <2>1, <2>2, <2>3, NodeKept
  <1> QED
    BY <1>2 DEF TurnFits, Holding, InPass

LEMMA CheckDriftTurn ==
  ASSUME LiveInv, LiveTypes', ~mode.together, NEW p \in Workers, TurnFits(p),
         NEW m \in Nodes, CheckDrift(m)
  PROVE  TurnFits(p)'
  <1> DEFINE j == job[p]
             s == IF Desired(m) = node[m].hash /\ Desired(m) = disk[m]
                  THEN "synced" ELSE "drifted"
  <1>1. /\ j.pc = "idle" /\ UNCHANGED <<user, base, disk, run, job, used>>
        /\ node' = [node EXCEPT ![m].status = s]
    BY DEF CheckDrift, MyTurn, Quiet, hosts
  <1>2. /\ node'[m].status = s /\ node'[m].hash = node[m].hash
        /\ \A n \in Nodes : n # m => node'[n] = node[n]
    <2>1. s \in {"synced", "drifted", "failed"}
      OBVIOUS
    <2> HIDE DEF s
    <2> QED
      BY <1>1, <2>1, StatusOnly DEF LiveInv
  <1>3. \A n \in Nodes : Due(j, user, n) = {}
    BY <1>1, DueNothing DEF InPass
  <1>4. ASSUME NEW n \in Nodes
        PROVE  NodeFits(j, n, {}, Generated(base, user, n), node'[n], disk[n], run[n],
                        used["dial"])
    <2> DEFINE D == Generated(base, user, n)
    <2>1. NodeFits(j, n, {}, D, node[n], disk[n], run[n], used["dial"])
      BY <1>3 DEF TurnFits
    <2>2. D \in Config /\ node[n] \in Row /\ disk[n] \in Config
      BY TurnTypes DEF LiveInv
    <2>3. CASE n = m
      <3>1. Desired(m) = D
        BY <2>3, DesiredParts DEF LiveInv
      <3>2. /\ node'[n].hash = node[n].hash
            /\ node'[n].status = IF D = node[n].hash /\ D = disk[n] THEN "synced" ELSE "drifted"
        BY <1>2, <2>3, <3>1
      <3> HIDE DEF D, j
      <3>3. j.pc = "idle"
        BY <1>1
      <3> QED
        BY <2>1, <2>2, <3>2, <3>3, NodeChecked DEF D
    <2> QED
      BY <1>2, <2>1, <2>3
  <1>5. ASSUME NEW n \in Nodes
        PROVE  /\ \A q \in Due(job'[p], user', n) : Suits(q, user'[job'[p].u], n)
               /\ NodeFits(job'[p], n, Due(job'[p], user', n), Generated(base', user', n),
                           node'[n], disk'[n], run'[n], used'["dial"])
    BY <1>1, <1>3, <1>4
  <1> QED
    BY <1>1, <1>5 DEF TurnFits, Holding, InPass

LEMMA RestartTurn ==
  ASSUME LiveInv, LiveTypes', Alive, NEW p \in Workers, TurnFits(p), NEW m \in Nodes,
         RestartXray(m)
  PROVE  TurnFits(p)'
  <1> DEFINE j == job[p]
  <1>1. /\ UNCHANGED <<user, base, node, disk, job>> /\ used'["dial"] = used["dial"]
        /\ run' = [run EXCEPT ![m] = disk[m]]
    BY SpendType DEF RestartXray, tables, LiveInv, Events
  <1>2. run'[m] = disk[m] /\ \A n \in Nodes : n # m => run'[n] = run[n]
    BY <1>1 DEF LiveInv, LiveTypes, TypeOK
  <1>3. /\ j.pc = "record" => disk[j.at] = Generated(base, user, j.at)
        /\ j.pc = "pushed" => disk[j.at] = j.cfg /\ run[j.at] = j.cfg
        /\ j.at \in Nodes
    BY TurnTypes DEF TurnFits, Alive, HeldFits, Holding, LiveInv
  <1>4. j.pc = "pushed" => run'[j.at] = j.cfg
    BY <1>2, <1>3
  <1>5. ASSUME NEW n \in Nodes
        PROVE  NodeFits(j, n, Due(j, user, n), Generated(base, user, n), node[n], disk[n],
                        run'[n], used["dial"])
    <2> DEFINE D == Generated(base, user, n)
               Q == Due(j, user, n)
    <2>1. NodeFits(j, n, Q, D, node[n], disk[n], run[n], used["dial"])
      BY DEF TurnFits
    <2>2. CASE n = m
      <3>1. Recording(j, n) => Like(disk[n], D, j.u)
        BY <1>3 DEF Recording, Like
      <3>2. run'[n] = disk[n]
        BY <1>2, <2>2
      <3> HIDE DEF D, Q, j
      <3> QED
        BY <2>1, <3>1, <3>2, NodeRestarted DEF D, Q
    <2> QED
      BY <1>2, <2>1, <2>2
  <1>6. ASSUME NEW n \in Nodes
        PROVE  /\ \A q \in Due(job'[p], user', n) : Suits(q, user'[job'[p].u], n)
               /\ NodeFits(job'[p], n, Due(job'[p], user', n), Generated(base', user', n),
                           node'[n], disk'[n], run'[n], used'["dial"])
    BY <1>1, <1>5 DEF TurnFits
  <1> QED
    BY <1>1, <1>4, <1>6 DEF TurnFits

LEMMA ServedInit == Init => ServedInv
  <1> SUFFICES ASSUME Init, NEW p \in Workers PROVE base <= used["request"] /\ TurnFits(p)
    BY WorkerParts DEF ServedInv
  <1>1. LiveTypes /\ job[p].pc = "idle"
    BY InitTypes, IdleType DEF Init
  <1>2. base = 0 /\ used["request"] = 0
    BY DEF Init, Events
  <1>3. ASSUME NEW n \in Nodes
        PROVE  /\ Due(job[p], user, n) = {}
               /\ NodeFits(job[p], n, {}, Generated(base, user, n), node[n], disk[n], run[n],
                           used["dial"])
    <2> DEFINE D == Generated(base, user, n)
               k == job[p]
    <2>1. Due(job[p], user, n) = {}
      BY <1>1, DueNothing DEF InPass
    <2>2. /\ node[n].status = "synced" /\ node[n].hash = D /\ disk[n] = D /\ run[n] = D
          /\ k.u \in Users /\ ~Recording(k, n) /\ D.base \in Nat
      BY <1>1, DesiredParts, TurnTypes DEF Init, Recording, Config, Versions
    <2> HIDE DEF D, k
    <2>3. \A v \in Users : Like(D, D, v)
      BY DEF Like
    <2>4. NodeFits(k, n, {}, D, node[n], D, D, used["dial"])
      BY <2>2, <2>3, NodeRecorded
    <2> QED
      BY <2>1, <2>2, <2>4 DEF D, k
  <1> QED
    BY <1>1, <1>2, <1>3 DEF TurnFits, Holding, InPass

LEMMA ServedStep ==
  ASSUME LiveInv, FilesInv, ServedMode(mode), ServedInv, [Next]_vars
  PROVE  ServedInv'
  <1> SUFFICES ASSUME NeverCrashed', used'["dial"] <= 1
               PROVE  base' <= used'["request"] /\ \A p \in Workers : Turn(p)' => TurnFits(p)'
    BY DEF ServedInv
  <1>1. Alive /\ FilesMode(mode) /\ ~mode.together /\ NeverCrashed
    BY CrashCounted DEF FilesInv, ServedMode
  <1>2. /\ used["dial"] <= 1 /\ used["request"] <= used'["request"]
        /\ used["request"] \in Nat /\ used'["request"] \in Nat /\ base \in Nat
    <2>1. \A e \in Events : used[e] \in Nat /\ (used'[e] = used[e] \/ used'[e] = used[e] + 1)
      BY StepSpends, SpendType DEF LiveInv, LiveTypes, TypeOK
    <2>2. "dial" \in Events /\ "request" \in Events /\ base \in Nat
      BY DEF Events, LiveInv, LiveTypes, TypeOK, Versions
    <2> QED
      BY <2>1, <2>2
  <1>3. base <= used["request"] /\ \A p \in Workers : Turn(p) => TurnFits(p)
    BY <1>1, <1>2 DEF ServedInv
  <1>4. LiveInv' /\ LiveTypes'
    BY LiveInvStep DEF LiveInv
  <1>5. base' = base => base' <= used'["request"]
    BY <1>2, <1>3
  <1>6. ASSUME NEW p \in Workers, job[p].pc # "idle" \/ MyTurn
        PROVE  Turn(p)
    BY <1>1, <1>6 DEF Turn, MyTurn, Quiet, LiveInv, TurnsAreTaken
  <1>7. ASSUME NEW p \in Workers, Turn(p), TurnFits(p)',
               \A q \in Workers : q # p => job'[q] = job[q]
        PROVE  \A q \in Workers : Turn(q)' => TurnFits(q)'
    <2> SUFFICES ASSUME NEW q \in Workers, q # p, Turn(q)' PROVE TurnFits(q)'
      BY <1>7
    <2>1. job'[p].pc = "idle" /\ job'[q].pc = "idle"
      BY <1>7 DEF Turn
    <2> QED
      BY <1>4, <1>7, <2>1, TurnPasses
  <1>8. ASSUME NEW p \in Workers, PlainStep(p)
        PROVE  base' <= used'["request"] /\ \A q \in Workers : Turn(q)' => TurnFits(q)'
    <2>1. Turn(p) /\ TurnFits(p)
      BY <1>3, <1>6, <1>8, PlainMine
    <2>2. TurnFits(p)' /\ base' <= used'["request"]
      BY <1>1, <1>2, <1>3, <1>4, <1>8, <2>1, PlainTurn
    <2>3. \A q \in Workers : q # p => job'[q] = job[q]
      BY <1>8, PlainParts DEF LiveInv, Kept
    <2> QED
      BY <1>7, <2>1, <2>2, <2>3
  <1>9. ASSUME NEW p \in Procs, WriteStep(p)
        PROVE  base' = base /\ \A q \in Workers : Turn(q)' => TurnFits(q)'
    <2>1. /\ p \in Workers /\ job[p].pc = "write" /\ base' = base
          /\ \A q \in Workers : q # p => job'[q] = job[q]
      BY <1>9, WriteParts, WorkerParts DEF LiveInv
    <2>2. Turn(p) /\ TurnFits(p)
      BY <1>3, <1>6, <2>1
    <2>3. TurnFits(p)'
      BY <1>1, <1>4, <1>9, <2>2, WriteTurn
    <2> QED
      BY <1>7, <2>1, <2>2, <2>3
  <1>10. ASSUME NEW p \in Procs, NEW u \in Users, NEW S \in SUBSET Nodes, Create(p, u, S)
         PROVE  base' = base /\ \A q \in Workers : Turn(q)' => TurnFits(q)'
    <2>1. /\ p \in Workers /\ MyTurn /\ base' = base
          /\ \A q \in Workers : q # p => job'[q] = job[q]
      BY <1>10, CreateParts, WorkerParts DEF LiveInv
    <2>2. Turn(p) /\ TurnFits(p)
      BY <1>3, <1>6, <2>1
    <2>3. TurnFits(p)'
      BY <1>1, <1>4, <1>10, <2>2, CreateTurn
    <2> QED
      BY <1>7, <2>1, <2>2, <2>3
  <1>11. ASSUME NEW p \in Procs, NEW u \in Users, NEW kind \in Kinds, Read(p, kind, u)
         PROVE  base' = base /\ \A q \in Workers : Turn(q)' => TurnFits(q)'
    <2>1. /\ p \in Workers /\ MyTurn /\ base' = base
          /\ \A q \in Workers : q # p => job'[q] = job[q]
      BY <1>11, ReadParts, WorkerParts DEF LiveInv, Kinds
    <2>2. Turn(p) /\ TurnFits(p)
      BY <1>3, <1>6, <2>1
    <2>3. TurnFits(p)'
      BY <1>11, <2>2, ReadTurn
    <2> QED
      BY <1>7, <2>1, <2>2, <2>3
  <1>12. ~SweepStart
    BY <1>1, SweepStartParts DEF LiveInv, Alive, Expired
  <1>13. ~SweepMark
    <2>1. job[Sweeper].pc = "idle"
      BY <1>1, WorkerParts DEF Alive, JobFits
    <2> QED
      BY <2>1 DEF SweepMark
  <1>14. ~Crash
    BY CrashParts DEF LiveInv
  <1>15. ASSUME NEW n \in Nodes, CheckDrift(n)
         PROVE  base' = base /\ \A q \in Workers : Turn(q)' => TurnFits(q)'
    <2>1. base' = base /\ MyTurn
      BY <1>15 DEF CheckDrift
    <2>2. \A q \in Workers : TurnFits(q)
      BY <1>3, <1>6, <2>1
    <2> QED
      BY <1>1, <1>4, <1>15, <2>1, <2>2, CheckDriftTurn
  <1>16. ASSUME NEW n \in Nodes, RestartXray(n)
         PROVE  base' = base /\ \A q \in Workers : Turn(q)' => TurnFits(q)'
    <2>1. base' = base /\ job' = job
      BY <1>16 DEF RestartXray, tables
    <2>2. \A q \in Workers : Turn(q)' => Turn(q)
      BY <2>1 DEF Turn
    <2> QED
      BY <1>1, <1>3, <1>4, <1>16, <2>1, <2>2, RestartTurn
  <1>17. ASSUME NEW n \in Nodes PROVE ~ToggleNode(n)
    BY <1>1, ToggleNodeParts DEF FilesMode, LiveInv
  <1>18. ASSUME NEW u \in Users PROVE ~Expire(u)
    BY <1>1, ExpireParts DEF FilesMode, LiveInv
  <1>19. CASE UNCHANGED vars
    <2>1. UNCHANGED <<user, base, node, disk, run, job, used>>
      BY <1>19 DEF vars
    <2>2. \A q \in Workers : /\ Turn(q)' => Turn(q)
                             /\ TurnFits(q) => TurnFits(q)'
      BY <2>1 DEF Turn, TurnFits
    <2> QED
      BY <1>3, <1>5, <2>1, <2>2
  <1> QED
    BY <1>5, <1>8, <1>9, <1>10, <1>11, <1>12, <1>13, <1>14, <1>15, <1>16, <1>17, <1>18,
       <1>19, StepKinds

(* livesync.go: while no node is switched off and on, no expiry passes and *)
(* xray refuses no alteration, and where requests take turns and one call  *)
(* to a server fails at most, a node that shows synced and whose recorded  *)
(* hash is what would be generated now runs with exactly the users it      *)
(* should - although nothing ever asks xray what it runs.                  *)
THEOREM SyncedIsServed == Spec => [](ServedMode(mode) => SyncedMeansServed)
  <1> DEFINE I == LiveInv /\ (ServedMode(mode) => FilesInv /\ ServedInv)
  <1>1. Init => I
    BY LiveInvInit, FilesInit, ServedInit
  <1>2. I /\ [Next]_vars => I'
    <2>1. LiveInv /\ [Next]_vars => LiveInv'
      BY LiveInvStep
    <2>2. LiveInv /\ [Next]_vars => mode' = mode
      BY ModeStays
    <2>3. ServedMode(mode) => FilesMode(mode)
      BY DEF ServedMode
    <2>4. LiveInv /\ ServedMode(mode) /\ FilesInv /\ ServedInv /\ [Next]_vars
              => FilesInv' /\ ServedInv'
      BY <2>3, FilesStep, ServedStep
    <2>5. mode' = mode => (ServedMode(mode)' <=> ServedMode(mode))
      BY DEF ServedMode, FilesMode
    <2> QED
      BY <2>1, <2>2, <2>4, <2>5
  <1>3. I => (ServedMode(mode) => SyncedMeansServed)
    <2> SUFFICES ASSUME LiveInv, ServedInv, NeverCrashed, used["dial"] <= 1, Quiet,
                        NEW n \in Nodes, node[n].status = "synced", node[n].hash = Desired(n)
                 PROVE  ServedAsRecorded(n)
      BY DEF SyncedMeansServed, Served
    <2> DEFINE j == job[Sweeper]
               D == Desired(n)
    <2>1. /\ Sweeper \in Workers /\ Turn(Sweeper) /\ j.pc = "idle"
          /\ D = Generated(base, user, n) /\ D \in Config /\ run[n] \in Config
      BY WorkerParts, DesiredParts, TurnTypes DEF Turn, Quiet, LiveInv
    <2>2. TurnFits(Sweeper)
      BY <2>1 DEF ServedInv
    <2>3. Due(j, user, n) = {}
      BY <2>1, DueNothing DEF InPass
    <2>4. NodeFits(j, n, {}, D, node[n], disk[n], run[n], used["dial"])
      BY <2>1, <2>2, <2>3 DEF TurnFits
    <2>5. D.base = base
      BY DEF Desired
    <2> HIDE DEF j, D
    <2>6. HostFits(run[n], D, D, j.u, {}, "synced", used["dial"])
      BY <2>4 DEF NodeFits, D
    <2>7. run[n].base = D.base /\ \A v \in Users : Like(run[n], D, v)
      BY <2>6 DEF HostFits, Either
    <2>8. run[n].users = D.users
      BY <2>1, <2>7, OfAll
    <2> QED
      BY <2>5, <2>7, <2>8 DEF ServedAsRecorded, D
  <1> QED
    BY <1>1, <1>2, <1>3, PTL DEF Spec
=============================================================================
