------------------------ MODULE FeishuTrafficProofs -------------------------
(***************************************************************************)
(* Proofs about Feishu, for any rows, persons, workers, forms and bounds;  *)
(* and about Traffic, for any nodes, users and names, however much they    *)
(* carry.  The two share nothing; the definitions of Traffic carry its     *)
(* name so that both can be extended here.                                 *)
(***************************************************************************)
EXTENDS Feishu, Traffic, FiniteSetTheorems, TLAPS

(* What a worker has read: copies of some rows.                            *)
Copies == UNION {[U -> Row] : U \in SUBSET Users}

Job == [kind : Kinds, pc : Stages, event : Events \cup {NoEvent}, asked : AnyOne,
        found : AnyOne, read : Copies, alone : BOOLEAN]

FeishuTypes == TypeOK /\ job \in [Workers -> Job]

(* Which work passes through which stages; what is saved is one row.       *)
StagesFit(j) ==
    /\ j.kind = "message" => j.event \in Events /\ j.pc # "idle"
    /\ j.pc \in {"find", "profile", "match", "fill", "note"} => j.kind = "message"
    /\ j.pc = "send" => j.kind \in {"message", "push"}
    /\ j.pc = "lookup" => j.kind = "bind"
    /\ j.pc \in {"lookup", "save", "fill"} \/ (j.pc = "send" /\ j.kind = "message") =>
           \E u \in Users : DOMAIN j.read = {u}

(* An event is answered by one worker, and remembered while it is.         *)
EventsAreRemembered ==
    /\ \A w \in Workers : job[w].kind = "message" =>
           job[w].event \in seen /\ replies[job[w].event] = 0
    /\ \A w, v \in Workers :
           w # v /\ job[w].kind = "message" /\ job[v].kind = "message" =>
               job[w].event # job[v].event
    /\ \A e \in Events \ seen : replies[e] = 0

Honest(r) == r.identity # Nobody => r.identity = r.email

(* What a worker goes by, E being the rows edited by hand: rows it read    *)
(* are as good as the table's, a first message comes from the address of   *)
(* its row, a lookup answers what it was asked.                            *)
JobIsHonest(j, E) ==
    /\ j.pc \in {"lookup", "save", "fill"} =>
           \A u \in DOMAIN j.read \ E : Honest(j.read[u])
    /\ j.pc = "fill" => \A u \in DOMAIN j.read :
           j.read[u].enabled /\ j.read[u].email = j.event[1]
    /\ j.pc = "save" /\ j.kind = "bind" => j.found \in {j.asked, Nobody}

(* LinksReachTheirOwner of one worker, R being the table.                  *)
JobLinks(j, R) ==
    j.pc = "send" /\ j.alone =>
        \A u \in DOMAIN j.read :
            LET p == IF j.kind = "message" THEN j.event[1] ELSE j.read[u].identity
            IN /\ j.read[u] = R[u]
               /\ R[u].enabled /\ p # Nobody
               /\ \/ R[u].identity = p
                  \/ {v \in Users : R[v].email = p} = {u}

JobInv(j, E, R) == j \in Job /\ StagesFit(j) /\ JobIsHonest(j, E) /\ JobLinks(j, R)

(* The inductive invariant.                                                *)
FeishuInv ==
    /\ row \in [Users -> Row] /\ seen \subseteq Events
    /\ used \in [Counted -> Nat] /\ replies \in [Events -> Nat]
    /\ edited \subseteq Users
    /\ job \in [Workers -> Job]
    /\ \A w \in Workers : JobInv(job[w], edited, row)
    /\ EventsAreRemembered /\ OneReplyPerEvent /\ IdentityMatchesMail

-----------------------------------------------------------------------------
(* Rows, copies and jobs.                                                  *)

LEMMA CopiesOf ==
  ASSUME NEW U \in SUBSET Users, NEW f \in [U -> Row]
  PROVE  f \in Copies
  BY DEF Copies

LEMMA CopyParts ==
  ASSUME NEW f \in Copies
  PROVE  DOMAIN f \subseteq Users /\ f \in [DOMAIN f -> Row]
  BY DEF Copies

LEMMA NoRowsType == NoRows \in Copies /\ DOMAIN NoRows = {}
  <1>1. NoRows \in [{} -> Row] /\ DOMAIN NoRows = {}
    BY DEF NoRows
  <1> QED
    BY <1>1, CopiesOf

LEMMA IdleParts ==
  /\ Idle \in Job /\ Idle.pc = "idle" /\ Idle.kind = "edit"
  /\ \A E, R : JobInv(Idle, E, R)
  <1>1. Idle \in Job /\ Idle.pc = "idle" /\ Idle.kind = "edit"
    BY NoRowsType DEF Idle, Job, Kinds, Stages, AnyOne
  <1>2. StagesFit(Idle)
    BY <1>1 DEF StagesFit
  <1> QED
    BY <1>1, <1>2 DEF JobInv, JobIsHonest, JobLinks

LEMMA JobParts ==
  ASSUME NEW j \in Job
  PROVE  /\ j.kind \in Kinds /\ j.pc \in Stages /\ j.event \in Events \cup {NoEvent}
         /\ j.asked \in AnyOne /\ j.found \in AnyOne /\ j.read \in Copies
         /\ j.alone \in BOOLEAN
  BY DEF Job

LEMMA RowParts ==
  ASSUME NEW r \in Row
  PROVE  /\ r.enabled \in BOOLEAN /\ r.email \in AnyOne /\ r.identity \in AnyOne
         /\ r.token \in Nat
  BY DEF Row

LEMMA EventParts == \A e \in Events : e[1] \in Persons /\ e[1] # Nobody
  BY FeishuAssumption DEF Events

LEMMA SpendType ==
  ASSUME FeishuInv, NEW e \in Counted, Spend(e)
  PROVE  used' \in [Counted -> Nat]
  <1>1. used' = [used EXCEPT ![e] = used[e] + 1]
    BY Zenon DEF Spend
  <1> QED
    BY <1>1 DEF FeishuInv

(* The row a worker is about, once it has read one.                        *)
LEMMA OneRow ==
  ASSUME FeishuInv, NEW w \in Workers,
         \/ job[w].pc \in {"lookup", "save", "fill"}
         \/ job[w].pc = "send" /\ job[w].kind = "message"
  PROVE  /\ User(w) \in Users /\ DOMAIN job[w].read = {User(w)}
         /\ Read(w) = job[w].read[User(w)] /\ Read(w) \in Row
  <1>1. job[w] \in Job /\ StagesFit(job[w])
    BY DEF FeishuInv, JobInv
  <1>2. PICK u \in Users : DOMAIN job[w].read = {u}
    BY <1>1 DEF StagesFit
  <1>3. User(w) = u
    BY <1>2 DEF User
  <1>4. job[w].read[u] \in Row
    BY <1>1, <1>2, JobParts, CopyParts
  <1> QED
    BY <1>2, <1>3, <1>4 DEF Read

(* A job that has just read rows of the table.                             *)
LEMMA ReadingParts ==
  ASSUME FeishuInv, NEW j \in Job, NEW goal \in Stages, NEW U \in SUBSET Users
  PROVE  /\ Reading(j, goal, U) \in Job
         /\ Reading(j, goal, U).pc = goal /\ Reading(j, goal, U).alone
         /\ DOMAIN Reading(j, goal, U).read = U
         /\ \A u \in U : Reading(j, goal, U).read[u] = row[u]
         /\ Reading(j, goal, U).kind = j.kind /\ Reading(j, goal, U).event = j.event
         /\ Reading(j, goal, U).asked = j.asked /\ Reading(j, goal, U).found = j.found
  <1>1. [u \in U |-> row[u]] \in Copies
    BY CopiesOf DEF FeishuInv
  <1> HIDE DEF Copies
  <1> QED
    BY <1>1 DEF Reading, Job

-----------------------------------------------------------------------------
(* Two shapes of steps: a worker goes on by itself, or saves a row.        *)

LEMMA OwnStep ==
  ASSUME FeishuInv, NEW w \in Workers, NEW next, Step(w, next),
         JobInv(next, edited, row),
         next.kind = "message" =>
             job[w].kind = "message" /\ next.event = job[w].event,
         UNCHANGED <<row, seen, replies, edited>>,
         used' \in [Counted -> Nat]
  PROVE  FeishuInv'
  <1>1. /\ job' \in [Workers -> Job] /\ job'[w] = next
        /\ \A v \in Workers : v # w => job'[v] = job[v]
    BY DEF FeishuInv, Step, JobInv
  <1>2. \A v \in Workers : JobInv(job'[v], edited', row')
    BY <1>1 DEF FeishuInv
  <1>3. EventsAreRemembered'
    BY <1>1 DEF FeishuInv, EventsAreRemembered
  <1> QED
    BY <1>1, <1>2, <1>3 DEF FeishuInv, OneReplyPerEvent, IdentityMatchesMail

(* The copies that others hold stay honest, and they are no longer alone.  *)
LEMMA OthersAfterSave ==
  ASSUME NEW j, NEW E, NEW F, NEW R, NEW S, JobInv(j, E, R), E \subseteq F
  PROVE  JobInv([j EXCEPT !.alone = @ /\ j.pc = "idle"], F, S)
  <1> DEFINE k == [j EXCEPT !.alone = @ /\ j.pc = "idle"]
  <1>1. /\ k \in Job /\ k.kind = j.kind /\ k.pc = j.pc /\ k.event = j.event
        /\ k.asked = j.asked /\ k.found = j.found /\ k.read = j.read
        /\ k.alone => j.pc = "idle"
    BY DEF JobInv, Job
  <1> HIDE DEF k
  <1>2. StagesFit(k)
    BY <1>1 DEF JobInv, StagesFit
  <1>3. JobIsHonest(k, F)
    BY <1>1 DEF JobInv, JobIsHonest
  <1>4. JobLinks(k, S)
    BY <1>1 DEF JobLinks
  <1>5. JobInv(k, F, S)
    BY <1>1, <1>2, <1>3, <1>4 DEF JobInv
  <1> QED
    BY <1>5 DEF k

LEMMA SaveStep ==
  ASSUME FeishuInv, NEW w \in Workers, NEW r \in Row, NEW next, Save(w, r, next),
         User(w) \in Users, edited \subseteq edited', edited' \subseteq Users,
         JobInv(next, edited', [row EXCEPT ![User(w)] = r]),
         next.kind = "message" =>
             job[w].kind = "message" /\ next.event = job[w].event,
         User(w) \in edited' \/ Honest(r),
         UNCHANGED <<seen, used, replies>>
  PROVE  FeishuInv'
  <1>1. row' \in [Users -> Row] /\ row' = [row EXCEPT ![User(w)] = r]
    BY DEF FeishuInv, Save
  <1>2. /\ job' = [v \in Workers |-> IF v = w THEN next
                      ELSE [job[v] EXCEPT !.alone = @ /\ job[v].pc = "idle"]]
    BY DEF Save
  <1>3. \A v \in Workers : JobInv(job'[v], edited', row')
    BY <1>1, <1>2, OthersAfterSave DEF FeishuInv
  <1>4. job' \in [Workers -> Job]
    BY <1>2, <1>3 DEF JobInv
  <1>5. /\ job'[w] = next
        /\ \A v \in Workers : v # w => job'[v].kind = job[v].kind
                                       /\ job'[v].event = job[v].event
    BY <1>2 DEF FeishuInv, Job
  <1>6. EventsAreRemembered'
    BY <1>5 DEF FeishuInv, EventsAreRemembered
  <1>7. IdentityMatchesMail'
    BY <1>1 DEF FeishuInv, IdentityMatchesMail, Honest
  <1> QED
    BY <1>1, <1>3, <1>4, <1>6, <1>7 DEF FeishuInv, OneReplyPerEvent

-----------------------------------------------------------------------------
(* Messages to the bot.                                                    *)

LEMMA InitInv == Init => FeishuInv
  <1> SUFFICES ASSUME Init PROVE FeishuInv
    OBVIOUS
  <1>1. /\ row \in [Users -> Row] /\ IdentityMatchesMail
    <2>1. PICK form \in [Users -> Given] :
             row = [u \in Users |-> [enabled |-> form[u][1], email |-> form[u][2],
                                    identity |-> Nobody, token |-> 0]]
      BY DEF Init
    <2>2. \A u \in Users : form[u][1] \in BOOLEAN /\ form[u][2] \in AnyOne
      BY FeishuAssumption DEF AnyOne
    <2>3. \A u \in Users : row[u] \in Row /\ row[u].identity = Nobody
      BY <2>1, <2>2 DEF Row, AnyOne
    <2> QED
      BY <2>1, <2>3 DEF IdentityMatchesMail
  <1>2. /\ job \in [Workers -> Job] /\ \A w \in Workers : JobInv(job[w], edited, row)
    BY IdleParts DEF Init
  <1>3. EventsAreRemembered /\ OneReplyPerEvent
    BY IdleParts DEF Init, EventsAreRemembered, OneReplyPerEvent
  <1>4. used \in [Counted -> Nat] /\ replies \in [Events -> Nat]
    BY DEF Init
  <1> QED
    BY <1>1, <1>2, <1>3, <1>4 DEF Init, FeishuInv

LEMMA DeliverKeeps ==
  ASSUME FeishuInv, NEW w \in Workers, NEW e \in Events, Deliver(w, e)
  PROVE  FeishuInv'
  <1> DEFINE next == [Idle EXCEPT !.kind = "message", !.pc = "find", !.event = e]
  <1>1. /\ next \in Job /\ next.kind = "message" /\ next.pc = "find" /\ next.event = e
    BY IdleParts DEF Job, Kinds, Stages
  <1>2. /\ e \notin seen /\ job[w].pc = "idle" /\ seen' = seen \cup {e}
        /\ job' = [job EXCEPT ![w] = next]
        /\ UNCHANGED <<row, used, replies, edited>>
    BY DEF Deliver, Begin, Step
  <1> HIDE DEF next
  <1>3. JobInv(next, edited, row)
    BY <1>1 DEF JobInv, StagesFit, JobIsHonest, JobLinks
  <1>4. /\ job' \in [Workers -> Job] /\ job'[w] = next
        /\ \A v \in Workers : v # w => job'[v] = job[v]
    BY <1>1, <1>2 DEF FeishuInv
  <1>5. EventsAreRemembered'
    BY <1>1, <1>2, <1>4 DEF FeishuInv, EventsAreRemembered
  <1> QED
    BY <1>2, <1>3, <1>4, <1>5
    DEF FeishuInv, OneReplyPerEvent, IdentityMatchesMail

(* A stage that reads nothing.                                             *)
LEMMA GotoKeeps ==
  ASSUME FeishuInv, NEW w \in Workers, NEW goal \in {"profile", "match", "note"},
         job[w].kind = "message", Goto(w, goal), Asleep
  PROVE  FeishuInv'
  <1> DEFINE next == [job[w] EXCEPT !.pc = goal]
  <1>1. JobInv(job[w], edited, row)
    BY DEF FeishuInv
  <1>2. /\ next \in Job /\ next.kind = "message" /\ next.pc = goal
        /\ next.event = job[w].event
    BY <1>1 DEF JobInv, Job, Stages
  <1>3. Step(w, next)
    BY DEF Goto
  <1> HIDE DEF next
  <1>4. JobInv(next, edited, row)
    BY <1>1, <1>2 DEF JobInv, StagesFit, JobIsHonest, JobLinks
  <1> QED
    BY <1>2, <1>3, <1>4, OwnStep DEF Asleep, FeishuInv

(* A message whose row has been found.                                     *)
LEMMA FoundKeeps ==
  ASSUME FeishuInv, NEW w \in Workers, job[w].kind = "message", NEW u \in Users,
         NEW goal \in {"send", "note", "fill"}, Step(w, Reading(job[w], goal, {u})), Asleep,
         goal # "note" => row[u].enabled,
         goal = "send" => \/ row[u].identity = Sender(w)
                        \/ u \in MailMatches(Sender(w)),
         goal = "fill" => u \in MailMatches(Sender(w)) /\ row[u].identity = Nobody
  PROVE  FeishuInv'
  <1> DEFINE next == Reading(job[w], goal, {u})
  <1>1. JobInv(job[w], edited, row)
    BY DEF FeishuInv
  <1>2. job[w] \in Job /\ job[w].event \in Events /\ goal \in Stages /\ {u} \in SUBSET Users
    BY <1>1 DEF JobInv, StagesFit, Stages
  <1>3. /\ next \in Job /\ next.kind = "message" /\ next.pc = goal
        /\ next.event = job[w].event /\ DOMAIN next.read = {u} /\ next.read[u] = row[u]
    BY <1>2, ReadingParts
  <1> HIDE DEF next
  <1>4. Sender(w) = next.event[1] /\ Sender(w) # Nobody
    BY <1>2, <1>3, EventParts DEF Sender
  <1>5. u \in MailMatches(Sender(w)) => {v \in Users : row[v].email = Sender(w)} = {u}
    BY DEF MailMatches
  <1>6. StagesFit(next)
    BY <1>2, <1>3 DEF StagesFit
  <1>7. JobIsHonest(next, edited)
    BY <1>3, <1>4, <1>5 DEF JobIsHonest, Honest
  <1>8. JobLinks(next, row)
    BY <1>3, <1>4, <1>5 DEF JobLinks
  <1>9. JobInv(next, edited, row)
    BY <1>3, <1>6, <1>7, <1>8 DEF JobInv
  <1>10. Step(w, next)
    BY DEF next
  <1> QED
    BY <1>3, <1>9, <1>10, OwnStep DEF Asleep, FeishuInv

LEMMA FindBoundUserKeeps ==
  ASSUME FeishuInv, NEW w \in Workers, FindBoundUser(w)
  PROVE  FeishuInv'
  <1>1. job[w].kind = "message" /\ Asleep
    BY DEF FindBoundUser
  <1>2. CASE BoundTo(Sender(w)) = {}
    BY <1>1, <1>2, GotoKeeps DEF FindBoundUser
  <1>3. CASE BoundTo(Sender(w)) # {}
    <2>1. PICK u \in BoundTo(Sender(w)) :
             Step(w, Reading(job[w], IF row[u].enabled THEN "send" ELSE "note", {u}))
      BY <1>3 DEF FindBoundUser
    <2>2. u \in Users /\ row[u].identity = Sender(w)
      BY DEF BoundTo
    <2>3. CASE row[u].enabled
      BY <1>1, <2>1, <2>2, <2>3, FoundKeeps
    <2>4. CASE ~row[u].enabled
      BY <1>1, <2>1, <2>2, <2>4, FoundKeeps
    <2> QED
      BY <2>3, <2>4
  <1> QED
    BY <1>2, <1>3

LEMMA FindByMailKeeps ==
  ASSUME FeishuInv, NEW w \in Workers, FindByMail(w)
  PROVE  FeishuInv'
  <1>1. job[w].kind = "message" /\ Asleep
    BY DEF FindByMail
  <1>2. CASE MailMatches(Sender(w)) = {}
    BY <1>1, <1>2, GotoKeeps DEF FindByMail
  <1>3. CASE MailMatches(Sender(w)) # {}
    <2>1. PICK u \in MailMatches(Sender(w)) :
             Step(w, Reading(job[w], IF ~row[u].enabled THEN "note"
                                     ELSE IF row[u].identity = Nobody THEN "fill"
                                     ELSE "send", {u}))
      BY <1>3 DEF FindByMail
    <2>2. u \in Users
      BY DEF MailMatches
    <2>3. CASE ~row[u].enabled
      BY <1>1, <2>1, <2>2, <2>3, FoundKeeps
    <2>4. CASE row[u].enabled /\ row[u].identity = Nobody
      BY <1>1, <2>1, <2>2, <2>4, FoundKeeps
    <2>5. CASE row[u].enabled /\ row[u].identity # Nobody
      BY <1>1, <2>1, <2>2, <2>5, FoundKeeps
    <2> QED
      BY <2>3, <2>4, <2>5
  <1> QED
    BY <1>2, <1>3

LEMMA FillIdentityKeeps ==
  ASSUME FeishuInv, NEW w \in Workers, FillIdentity(w)
  PROVE  FeishuInv'
  <1> DEFINE r == [Read(w) EXCEPT !.identity = Sender(w)]
             u == User(w)
             next == [job[w] EXCEPT !.pc = "send", !.read = [v \in {User(w)} |-> r]]
  <1>1. JobInv(job[w], edited, row) /\ job[w].kind = "message" /\ job[w].pc = "fill"
    BY DEF FeishuInv, FillIdentity
  <1>2. u \in Users /\ DOMAIN job[w].read = {u} /\ Read(w) = job[w].read[u] /\ Read(w) \in Row
    BY <1>1, OneRow
  <1>3. /\ job[w] \in Job /\ job[w].event \in Events
        /\ Sender(w) = job[w].event[1] /\ Sender(w) \in AnyOne /\ Sender(w) # Nobody
    BY <1>1, EventParts DEF JobInv, StagesFit, Sender, AnyOne
  <1>4. Read(w).enabled /\ Read(w).email = Sender(w)
    BY <1>1, <1>2, <1>3 DEF JobInv, JobIsHonest
  <1>5. /\ r \in Row /\ r.enabled /\ r.email = Sender(w) /\ r.identity = Sender(w)
    BY <1>2, <1>3, <1>4 DEF Row
  <1>6. Save(w, r, next) /\ UNCHANGED <<seen, used, replies, edited>>
    BY DEF FillIdentity
  <1> HIDE DEF r
  <1>7. [v \in {User(w)} |-> r] \in Copies
    BY <1>2, <1>5, CopiesOf
  <1>8. /\ next \in Job /\ next.kind = "message" /\ next.pc = "send"
        /\ next.event = job[w].event /\ DOMAIN next.read = {u} /\ next.read[u] = r
    BY <1>1, <1>3, <1>7 DEF Job, Stages
  <1> HIDE DEF next, u
  <1>9. [row EXCEPT ![u] = r][u] = r
    BY <1>2 DEF FeishuInv
  <1>10. StagesFit(next)
    BY <1>2, <1>3, <1>8 DEF StagesFit
  <1>11. JobIsHonest(next, edited)
    BY <1>8 DEF JobIsHonest
  <1>12. JobLinks(next, [row EXCEPT ![u] = r])
    BY <1>3, <1>5, <1>8, <1>9 DEF JobLinks
  <1>13. JobInv(next, edited', [row EXCEPT ![User(w)] = r])
    BY <1>6, <1>8, <1>10, <1>11, <1>12 DEF JobInv, u
  <1>14. User(w) \in Users /\ Honest(r)
    BY <1>2, <1>5 DEF Honest, u
  <1>15. edited \subseteq edited' /\ edited' \subseteq Users
    BY <1>6 DEF FeishuInv
  <1> QED
    BY <1>1, <1>5, <1>6, <1>8, <1>13, <1>14, <1>15, SaveStep
(* Links of a push go on with the rest of its rows; whatever else was sent *)
(* ends the work, and an event whose work has ended is never begun again.  *)
LEMMA SendMessageKeeps ==
  ASSUME FeishuInv, NEW w \in Workers, SendMessage(w)
  PROVE  FeishuInv'
  <1> DEFINE j == job[w]
  <1>1. /\ JobInv(j, edited, row) /\ j.pc \in {"send", "note"}
        /\ UNCHANGED <<row, seen, used, edited>>
    BY DEF FeishuInv, SendMessage
  <1>2. PICK u \in DOMAIN j.read \cup {Nobody} :
           /\ u = Nobody => j.pc = "note"
           /\ Step(w, IF j.pc = "note" \/ DOMAIN j.read \ {u} = {} THEN Idle
                      ELSE [j EXCEPT !.read = [v \in DOMAIN j.read \ {u} |-> @[v]]])
    BY Zenon DEF SendMessage
  <1>3. CASE j.kind = "message"
    <2>1. j.pc = "note" \/ DOMAIN j.read \ {u} = {}
      <3>1. CASE j.pc = "send"
        <4>1. u \in DOMAIN j.read
          BY <1>2, <3>1
        <4> QED
          BY <1>1, <1>3, <3>1, <4>1 DEF JobInv, StagesFit
      <3> QED
        BY <1>1, <3>1
    <2>2. Step(w, Idle)
      BY <1>2, <2>1
    <2>3. replies' = [replies EXCEPT ![j.event] = @ + 1]
      BY <1>3 DEF SendMessage
    <2>4. /\ j.event \in Events /\ j.event \in seen /\ replies[j.event] = 0
          /\ \A v \in Workers : v # w /\ job[v].kind = "message" => job[v].event # j.event
      BY <1>1, <1>3 DEF JobInv, StagesFit, FeishuInv, EventsAreRemembered
    <2>5. /\ job' \in [Workers -> Job] /\ job'[w] = Idle
          /\ \A v \in Workers : v # w => job'[v] = job[v]
      BY <2>2, IdleParts DEF FeishuInv, Step
    <2>6. /\ replies' \in [Events -> Nat] /\ replies'[j.event] = 1
          /\ \A e \in Events : e # j.event => replies'[e] = replies[e]
      BY <2>3, <2>4 DEF FeishuInv
    <2>7. \A v \in Workers : JobInv(job'[v], edited', row')
      BY <1>1, <2>5, IdleParts DEF FeishuInv
    <2>8. EventsAreRemembered'
      <3>1. \A v \in Workers : job'[v].kind = "message" => v # w
        BY <2>5, IdleParts
      <3>2. \A v \in Workers : job'[v].kind = "message" =>
               job'[v].event \in seen /\ replies'[job'[v].event] = 0
        <4> SUFFICES ASSUME NEW v \in Workers, job'[v].kind = "message"
                     PROVE  job'[v].event \in seen /\ replies'[job'[v].event] = 0
          OBVIOUS
        <4>1. v # w /\ job'[v] = job[v] /\ job[v].event # j.event
          BY <2>4, <2>5, <3>1
        <4>2. job[v].event \in seen /\ replies[job[v].event] = 0 /\ seen \subseteq Events
          BY <4>1 DEF FeishuInv, EventsAreRemembered
        <4> QED
          BY <2>6, <4>1, <4>2
      <3>3. \A e \in Events \ seen : replies'[e] = 0
        BY <2>4, <2>6 DEF FeishuInv, EventsAreRemembered
      <3> QED
        BY <1>1, <2>5, <3>1, <3>2, <3>3 DEF FeishuInv, EventsAreRemembered
    <2>9. OneReplyPerEvent'
      BY <2>6 DEF FeishuInv, OneReplyPerEvent
    <2> QED
      BY <1>1, <2>5, <2>6, <2>7, <2>8, <2>9 DEF FeishuInv, IdentityMatchesMail
  <1>4. CASE j.kind # "message"
    <2>1. j.pc = "send" /\ replies' = replies
      BY <1>1, <1>4 DEF JobInv, StagesFit, SendMessage
    <2>2. CASE DOMAIN j.read \ {u} = {}
      <3>1. Step(w, Idle)
        BY <1>2, <2>2
      <3> QED
        BY <1>1, <2>1, <3>1, IdleParts, OwnStep DEF FeishuInv
    <2>3. CASE DOMAIN j.read \ {u} # {}
      <3> DEFINE rest == DOMAIN j.read \ {u}
                 read == [v \in rest |-> j.read[v]]
                 next == [j EXCEPT !.read = read]
      <3>1. Step(w, next)
        BY <1>2, <2>1, <2>3
      <3>2. rest \in SUBSET Users /\ \A v \in rest : j.read[v] \in Row
        BY <1>1, JobParts, CopyParts DEF JobInv
      <3>3. read \in Copies /\ DOMAIN read = rest /\ \A v \in rest : read[v] = j.read[v]
        BY <3>2, CopiesOf
      <3> HIDE DEF read, rest
      <3>4. /\ next \in Job /\ next.kind = j.kind /\ next.pc = "send"
            /\ next.read = read /\ next.alone = j.alone /\ next.event = j.event
        BY <1>1, <2>1, <3>3 DEF JobInv, Job
      <3> HIDE DEF next
      <3>5. StagesFit(next) /\ JobIsHonest(next, edited)
        BY <1>1, <1>4, <2>1, <3>4 DEF JobInv, StagesFit, JobIsHonest
      <3>6. rest \subseteq DOMAIN j.read
        BY DEF rest
      <3>7. JobLinks(next, row)
        BY <1>1, <1>4, <2>1, <3>3, <3>4, <3>6 DEF JobInv, JobLinks
      <3>8. JobInv(next, edited, row)
        BY <3>4, <3>5, <3>7 DEF JobInv
      <3> QED
        BY <1>1, <1>4, <2>1, <3>1, <3>4, <3>8, OwnStep DEF FeishuInv
    <2> QED
      BY <2>2, <2>3
  <1> QED
    BY <1>3, <1>4

(* What is forgotten is no longer under way.                               *)
LEMMA ForgetKeeps ==
  ASSUME FeishuInv, NEW e \in Events, Forget(e)
  PROVE  FeishuInv'
  <1>1. /\ \A w \in Workers : job[w].kind = "message" => job[w].event # e
        /\ seen' = seen \ {e} /\ replies' = [replies EXCEPT ![e] = 0]
        /\ UNCHANGED <<row, job, edited>> /\ Spend("forget")
    BY DEF Forget
  <1>2. used' \in [Counted -> Nat]
    BY <1>1, SpendType DEF Counted
  <1>3. /\ replies' \in [Events -> Nat] /\ replies'[e] = 0
        /\ \A f \in Events : f # e => replies'[f] = replies[f]
    BY <1>1 DEF FeishuInv
  <1>4. EventsAreRemembered'
    BY <1>1, <1>3 DEF FeishuInv, EventsAreRemembered
  <1>5. OneReplyPerEvent'
    BY <1>3 DEF FeishuInv, OneReplyPerEvent
  <1> QED
    BY <1>1, <1>2, <1>3, <1>4, <1>5 DEF FeishuInv, IdentityMatchesMail

-----------------------------------------------------------------------------
(* Administrators.                                                         *)

(* Work on one row begins with an honest copy of it.                       *)
LEMMA BegunKeeps ==
  ASSUME FeishuInv, NEW w \in Workers, NEW u \in Users, NEW mail \in AnyOne,
         NEW kind \in {"bind", "clear", "edit"}, NEW goal \in {"lookup", "save"},
         (kind = "bind") = (goal = "lookup"),
         Begun(w, kind, [Reading(Idle, goal, {u}) EXCEPT !.asked = mail])
  PROVE  FeishuInv'
  <1> DEFINE r == Reading(Idle, goal, {u})
             next == [[r EXCEPT !.asked = mail] EXCEPT !.kind = kind]
  <1>1. /\ r \in Job /\ r.pc = goal /\ DOMAIN r.read = {u} /\ r.read[u] = row[u]
    BY IdleParts, ReadingParts DEF Stages
  <1> HIDE DEF r
  <1>2. /\ next \in Job /\ next.pc = goal /\ next.kind = kind /\ next.read = r.read
    BY <1>1 DEF Job, Kinds
  <1>3. Step(w, next) /\ Spend(kind) /\ UNCHANGED <<row, seen, replies, edited>>
    BY DEF Begun, r
  <1> HIDE DEF next
  <1>4. StagesFit(next)
    BY <1>1, <1>2 DEF StagesFit
  <1>5. JobIsHonest(next, edited)
    BY <1>1, <1>2 DEF JobIsHonest, Honest, FeishuInv, IdentityMatchesMail
  <1>6. JobInv(next, edited, row)
    BY <1>2, <1>4, <1>5 DEF JobInv, JobLinks
  <1>7. used' \in [Counted -> Nat]
    BY <1>3, SpendType DEF Counted
  <1> QED
    BY <1>2, <1>3, <1>6, <1>7, OwnStep

LEMMA PushSubscriptionKeeps ==
  ASSUME FeishuInv, NEW w \in Workers, NEW U \in SUBSET Users, PushSubscription(w, U)
  PROVE  FeishuInv'
  <1> DEFINE to == {u \in U : row[u].enabled /\ row[u].identity # Nobody}
             r == Reading(Idle, "send", to)
             next == [r EXCEPT !.kind = "push"]
  <1>1. Begun(w, "push", r)
    BY DEF PushSubscription
  <1>2. /\ r \in Job /\ r.pc = "send" /\ DOMAIN r.read = to
        /\ \A u \in to : r.read[u] = row[u]
    BY IdleParts, ReadingParts DEF Stages
  <1> HIDE DEF r
  <1>3. /\ next \in Job /\ next.pc = "send" /\ next.kind = "push" /\ next.read = r.read
    BY <1>2 DEF Job, Kinds
  <1>4. Step(w, next) /\ Spend("push") /\ UNCHANGED <<row, seen, replies, edited>>
    BY <1>1 DEF Begun
  <1> HIDE DEF next
  <1>5. StagesFit(next) /\ JobIsHonest(next, edited)
    BY <1>3 DEF StagesFit, JobIsHonest
  <1>6. JobLinks(next, row)
    BY <1>2, <1>3 DEF JobLinks
  <1>7. JobInv(next, edited, row)
    BY <1>3, <1>5, <1>6 DEF JobInv
  <1>8. used' \in [Counted -> Nat]
    BY <1>4, SpendType DEF Counted
  <1> QED
    BY <1>3, <1>4, <1>7, <1>8, OwnStep

LEMMA LookupKeeps ==
  ASSUME FeishuInv, NEW w \in Workers, Lookup(w)
  PROVE  FeishuInv'
  <1>1. JobInv(job[w], edited, row) /\ job[w].pc = "lookup" /\ Asleep
    BY DEF FeishuInv, Lookup
  <1>2. ASSUME NEW p \in {job[w].asked, Nobody},
               Step(w, [job[w] EXCEPT !.pc = "save", !.found = p])
        PROVE  FeishuInv'
    <2> DEFINE next == [job[w] EXCEPT !.pc = "save", !.found = p]
    <2>1. p \in AnyOne
      BY <1>1, JobParts DEF JobInv, AnyOne
    <2>2. /\ next \in Job /\ next.pc = "save" /\ next.found = p
          /\ next.kind = job[w].kind /\ next.read = job[w].read
          /\ next.asked = job[w].asked
      BY <1>1, <2>1 DEF JobInv, Job, Stages
    <2> HIDE DEF next
    <2>3. StagesFit(next)
      BY <1>1, <2>2 DEF JobInv, StagesFit
    <2>4. JobIsHonest(next, edited)
      BY <1>1, <2>2 DEF JobInv, JobIsHonest
    <2>5. JobInv(next, edited, row)
      BY <2>2, <2>3, <2>4 DEF JobInv, JobLinks
    <2>6. next.kind # "message"
      BY <1>1, <2>2 DEF JobInv, StagesFit
    <2>7. Step(w, next)
      BY <1>2 DEF next
    <2> QED
      BY <1>1, <2>5, <2>6, <2>7, OwnStep DEF Asleep, FeishuInv
  <1>3. CASE Step(w, Idle)
    BY <1>1, <1>3, IdleParts, OwnStep DEF Asleep, FeishuInv
  <1> QED
    BY <1>2, <1>3 DEF Lookup

(* A save that ends the work: the row that is written is honest, or was    *)
(* typed in.                                                               *)
LEMMA LastSave ==
  ASSUME FeishuInv, NEW w \in Workers, NEW r \in Row, Save(w, r, Idle),
         User(w) \in Users, edited \subseteq edited', edited' \subseteq Users,
         User(w) \in edited' \/ Honest(r), UNCHANGED <<seen, used, replies>>
  PROVE  FeishuInv'
  BY IdleParts, SaveStep

(* The row that a request of an administrator saves.                       *)
LEMMA SavedRow ==
  ASSUME FeishuInv, NEW w \in Workers, job[w].pc = "save"
  PROVE  /\ User(w) \in Users /\ Read(w) \in Row
         /\ User(w) \in edited \/ Honest(Read(w))
         /\ job[w].kind = "bind" => job[w].found \in {job[w].asked, Nobody}
         /\ job[w].asked \in AnyOne /\ edited \subseteq Users
  <1>1. /\ User(w) \in Users /\ DOMAIN job[w].read = {User(w)}
        /\ Read(w) = job[w].read[User(w)] /\ Read(w) \in Row
    BY OneRow
  <1>2. JobInv(job[w], edited, row) /\ edited \subseteq Users
    BY DEF FeishuInv
  <1>3. /\ \A u \in DOMAIN job[w].read \ edited : Honest(job[w].read[u])
        /\ job[w].kind = "bind" => job[w].found \in {job[w].asked, Nobody}
    BY <1>2 DEF JobInv, JobIsHonest
  <1>4. job[w].asked \in AnyOne
    BY <1>2, JobParts DEF JobInv
  <1> QED
    BY <1>1, <1>2, <1>3, <1>4

LEMMA BoundRowIsHonest ==
  ASSUME NEW r \in Row, NEW mail \in AnyOne, NEW person \in {mail, Nobody}
  PROVE  /\ BoundRow(r, mail, person) \in Row
         /\ Honest(r) => Honest(BoundRow(r, mail, person))
  <1> DEFINE b == BoundRow(r, mail, person)
  <1>1. /\ b = [r EXCEPT !.enabled = TRUE, !.email = mail,
                         !.identity = IF person # Nobody \/ r.email # mail THEN person
                                      ELSE r.identity]
    BY DEF BoundRow
  <1>2. /\ b \in Row /\ b.email = mail
        /\ b.identity = IF person # Nobody \/ r.email # mail THEN person ELSE r.identity
    BY <1>1 DEF Row, AnyOne
  <1> QED
    BY <1>2 DEF Honest

LEMMA BindUserByEmailKeeps ==
  ASSUME FeishuInv, NEW w \in Workers, BindUserByEmail(w)
  PROVE  FeishuInv'
  <1> DEFINE r == BoundRow(Read(w), job[w].asked, job[w].found)
  <1>1. /\ job[w].kind = "bind" /\ job[w].pc = "save" /\ Save(w, r, Idle)
        /\ UNCHANGED <<seen, used, replies, edited>>
    BY DEF BindUserByEmail
  <1>2. r \in Row /\ (Honest(Read(w)) => Honest(r))
    BY <1>1, SavedRow, BoundRowIsHonest
  <1> HIDE DEF r
  <1> QED
    BY <1>1, <1>2, SavedRow, LastSave

LEMMA UnbindUserKeeps ==
  ASSUME FeishuInv, NEW w \in Workers, UnbindUser(w)
  PROVE  FeishuInv'
  <1> DEFINE r == [Read(w) EXCEPT !.identity = Nobody]
  <1>1. /\ job[w].pc = "save" /\ Save(w, r, Idle)
        /\ UNCHANGED <<seen, used, replies, edited>>
    BY DEF UnbindUser
  <1>2. r \in Row /\ Honest(r)
    BY <1>1, SavedRow DEF Row, AnyOne, Honest
  <1> HIDE DEF r
  <1> QED
    BY <1>1, <1>2, SavedRow, LastSave

LEMMA EditUserKeeps ==
  ASSUME FeishuInv, NEW w \in Workers, EditUser(w)
  PROVE  FeishuInv'
  <1>1. job[w].pc = "save" /\ UNCHANGED <<seen, used, replies>>
    BY DEF EditUser
  <1>2. PICK enabled \in BOOLEAN, mail, person \in AnyOne :
           /\ Save(w, [Read(w) EXCEPT !.enabled = enabled, !.email = mail,
                                      !.identity = person], Idle)
           /\ edited' = IF mail = Read(w).email /\ person = Read(w).identity THEN edited
                        ELSE edited \cup {User(w)}
    BY Zenon DEF EditUser
  <1> DEFINE r == [Read(w) EXCEPT !.enabled = enabled, !.email = mail,
                                  !.identity = person]
  <1>3. User(w) \in Users /\ Read(w) \in Row /\ edited \subseteq Users
    BY <1>1, SavedRow
  <1>4. r \in Row /\ r.email = mail /\ r.identity = person
    BY <1>3 DEF Row
  <1>5. Save(w, r, Idle)
    BY <1>2
  <1> HIDE DEF r
  <1>6. edited \subseteq edited' /\ edited' \subseteq Users
    BY <1>2, <1>3
  <1>7. User(w) \in edited' \/ Honest(r)
    BY <1>1, <1>2, <1>4, SavedRow DEF Honest
  <1> QED
    BY <1>1, <1>3, <1>4, <1>5, <1>6, <1>7, LastSave

(* One column is written beside all copies.                                *)
LEMMA ResetTokenKeeps ==
  ASSUME FeishuInv, NEW u \in Users, ResetToken(u)
  PROVE  FeishuInv'
  <1>1. /\ row' = [row EXCEPT ![u].token = @ + 1]
        /\ job' = [w \in Workers |-> [job[w] EXCEPT !.alone = @ /\ job[w].pc = "idle"]]
        /\ Spend("reset") /\ UNCHANGED <<seen, replies, edited>>
    BY DEF ResetToken
  <1>2. /\ row' \in [Users -> Row]
        /\ \A v \in Users : row'[v].identity = row[v].identity
                           /\ row'[v].email = row[v].email
    BY <1>1 DEF FeishuInv, Row
  <1>3. \A w \in Workers : JobInv(job'[w], edited', row')
    BY <1>1, OthersAfterSave DEF FeishuInv
  <1>4. job' \in [Workers -> Job]
    BY <1>1, <1>3 DEF JobInv
  <1>5. \A w \in Workers : job'[w].kind = job[w].kind /\ job'[w].event = job[w].event
    BY <1>1 DEF FeishuInv, Job
  <1>6. EventsAreRemembered' /\ OneReplyPerEvent'
    BY <1>1, <1>5 DEF FeishuInv, EventsAreRemembered, OneReplyPerEvent
  <1>7. IdentityMatchesMail'
    BY <1>1, <1>2 DEF FeishuInv, IdentityMatchesMail
  <1>8. used' \in [Counted -> Nat]
    BY <1>1, SpendType DEF Counted
  <1> QED
    BY <1>1, <1>2, <1>3, <1>4, <1>6, <1>7, <1>8 DEF FeishuInv

LEMMA StopKeeps == FeishuInv /\ Stop => FeishuInv'
  <1> SUFFICES ASSUME FeishuInv, Stop PROVE FeishuInv'
    OBVIOUS
  <1>1. /\ seen' = {} /\ job' = [w \in Workers |-> Idle]
        /\ replies' = [e \in Events |-> 0] /\ UNCHANGED <<row, edited>>
        /\ Spend("stop")
    BY DEF Stop
  <1>2. /\ job' \in [Workers -> Job] /\ \A w \in Workers : JobInv(job'[w], edited', row')
    BY <1>1, IdleParts
  <1>3. EventsAreRemembered' /\ OneReplyPerEvent'
    BY <1>1, IdleParts DEF EventsAreRemembered, OneReplyPerEvent
  <1>4. used' \in [Counted -> Nat]
    BY <1>1, SpendType DEF Counted
  <1>5. replies' \in [Events -> Nat]
    BY <1>1
  <1> QED
    BY <1>1, <1>2, <1>3, <1>4, <1>5 DEF FeishuInv, IdentityMatchesMail

-----------------------------------------------------------------------------
(* Every step, and what follows.                                           *)

LEMMA ReplyKeeps ==
  ASSUME FeishuInv, NEW w \in Workers, Reply(w)
  PROVE  FeishuInv'
  <1>1. CASE FetchProfile(w)
    <2>1. PICK next \in {"match", "note"} : Goto(w, next)
      BY <1>1 DEF FetchProfile
    <2> QED
      BY <1>1, <2>1, GotoKeeps DEF FetchProfile
  <1> QED
    BY <1>1, FindBoundUserKeeps, FindByMailKeeps, FillIdentityKeeps, SendMessageKeeps
    DEF Reply

LEMMA RequestKeeps ==
  ASSUME FeishuInv, NEW w \in Workers, Request(w)
  PROVE  FeishuInv'
  <1>1. ASSUME NEW u \in Users, NEW mail \in Persons, BindFind(w, u, mail)
        PROVE  FeishuInv'
    BY <1>1, BegunKeeps DEF BindFind, AnyOne
  <1>2. ASSUME NEW u \in Users, NEW kind \in {"clear", "edit"},
               Begun(w, kind, Reading(Idle, "save", {u}))
        PROVE  FeishuInv'
    <2> DEFINE r == Reading(Idle, "save", {u})
    <2>1. r \in Job /\ r.asked = Idle.asked /\ r.asked \in AnyOne
      BY IdleParts, ReadingParts, JobParts DEF Stages
    <2>2. r = [r EXCEPT !.asked = r.asked]
      BY <2>1 DEF Job
    <2>3. Begun(w, kind, [r EXCEPT !.asked = r.asked])
      BY <1>2, <2>2
    <2> QED
      BY <2>1, <2>3, BegunKeeps
  <1>3. ASSUME NEW u \in Users, ClearFind(w, u) \/ EditFind(w, u) PROVE FeishuInv'
    BY <1>2, <1>3 DEF ClearFind, EditFind
  <1> QED
    BY <1>1, <1>3, PushSubscriptionKeeps, LookupKeeps, BindUserByEmailKeeps,
       UnbindUserKeeps, EditUserKeeps
    DEF Request

LEMMA StepInv == FeishuInv /\ [Next]_vars => FeishuInv'
  <1> SUFFICES ASSUME FeishuInv, [Next]_vars PROVE FeishuInv'
    OBVIOUS
  <1>1. CASE UNCHANGED vars
    BY <1>1 DEF vars, FeishuInv, EventsAreRemembered, OneReplyPerEvent, IdentityMatchesMail
  <1> QED
    BY <1>1, DeliverKeeps, ReplyKeeps, RequestKeeps, ForgetKeeps, ResetTokenKeeps, StopKeeps
    DEF Next

LEMMA FeishuInvariant == Spec => []FeishuInv
  BY InitInv, StepInv, PTL DEF Spec

LEMMA InvTypes == FeishuInv => TypeOK
  <1> SUFFICES ASSUME FeishuInv PROVE TypeOK
    OBVIOUS
  <1>1. \A w \in Workers : job[w] \in Job
    BY DEF FeishuInv
  <1>2. \A w \in Workers :
           /\ DOMAIN job[w].read \subseteq Users
           /\ \A u \in DOMAIN job[w].read : job[w].read[u] \in Row
    BY <1>1, JobParts, CopyParts
  <1> QED
    BY <1>1, <1>2, JobParts DEF FeishuInv, TypeOK

LEMMA InvLinks == FeishuInv => LinksReachTheirOwner
  BY DEF FeishuInv, JobInv, JobLinks, LinksReachTheirOwner, Recipient, Sender

(* Type correctness: for any rows, persons and workers every variable      *)
(* keeps to its domain.                                                    *)
THEOREM FeishuTypeCorrect == Spec => []TypeOK
  BY FeishuInvariant, InvTypes, PTL

(* feishuEventDeduper and the reply goroutines: whatever Feishu delivers   *)
(* again and however replies overlap, a message is answered at most once.  *)
THEOREM EventsAreAnsweredOnce == Spec => []OneReplyPerEvent
  <1>1. FeishuInv => OneReplyPerEvent
    BY DEF FeishuInv
  <1> QED
    BY <1>1, FeishuInvariant, PTL

(* ResolveAuthorizedUser, PushSubscriptionToUsers: links read since the    *)
(* last write go to the person the row is bound to, or to the only person  *)
(* with its address, and only while the bot is enabled for the row.        *)
THEOREM LinksGoToTheirOwner == Spec => []LinksReachTheirOwner
  BY FeishuInvariant, InvLinks, PTL

(* BindUserByEmail, UnbindUser and the first message of a person, each     *)
(* saving a row read long before: unless it was typed in, an identity is   *)
(* the one of the row's address.                                           *)
THEOREM IdentitiesMatchMail == Spec => []IdentityMatchesMail
  <1>1. FeishuInv => IdentityMatchesMail
    BY DEF FeishuInv
  <1> QED
    BY <1>1, FeishuInvariant, PTL

-----------------------------------------------------------------------------
(***************************************************************************)
(* Finite sets and sums over them.  A sum is a fold over a set, defined by *)
(* recursion; what is needed of it is proved from the least counterexample *)
(* of each fact (Least), not by an induction theorem.                      *)
(***************************************************************************)

LEMMA Least ==
  ASSUME NEW N, N \subseteq Nat, N # {}
  PROVE  \E m \in N : \A k \in N : m <= k
  <1>1. IsWellFoundedOn(OpToRel(<, Nat), Nat)
    BY NatLessThanWellFounded
  <1>2. PICK m \in N : \A k \in N : ~(<<k, m>> \in OpToRel(<, Nat))
    BY <1>1, WFMin
  <1>3. ASSUME NEW k \in N PROVE m <= k
    <2>1. ~(<<k, m>> \in OpToRel(<, Nat)) /\ k \in Nat /\ m \in Nat
      BY <1>2
    <2> QED
      BY <2>1 DEF OpToRel
  <1> QED
    BY <1>3

(* A finite set is in a set of sets P if every subset of it is in P whose  *)
(* own strict subsets are: induction, for a set in place of a predicate.   *)
LEMMA SetInduction ==
  ASSUME NEW S, IsFiniteSet(S), NEW P,
         \A T \in SUBSET S : (\A U \in SUBSET T : U # T => U \in P) => T \in P
  PROVE  S \in P
  <1> SUFFICES ASSUME S \notin P PROVE FALSE
    OBVIOUS
  <1> DEFINE N == {Cardinality(T) : T \in (SUBSET S) \ P}
  <1>1. \A T \in SUBSET S : IsFiniteSet(T) /\ Cardinality(T) \in Nat
    BY FS_Subset, FS_CardinalityType
  <1>2. N \subseteq Nat /\ N # {}
    BY <1>1
  <1>3. PICK m \in N : \A k \in N : m <= k
    <2> HIDE DEF N
    <2> QED
      BY <1>2, Least
  <1>4. PICK T \in (SUBSET S) \ P : m = Cardinality(T)
    BY <1>3
  <1>5. ASSUME NEW U \in SUBSET T, U # T, U \notin P PROVE FALSE
    <2>1. U \in (SUBSET S) \ P
      BY <1>5
    <2>2. Cardinality(U) \in N
      BY <2>1
    <2>3. m <= Cardinality(U) /\ m \in Nat
      BY <1>2, <1>3, <2>2
    <2>4. IsFiniteSet(T) /\ Cardinality(T) \in Nat /\ Cardinality(U) \in Nat
      BY <1>1, <2>1
    <2>5. Cardinality(U) <= Cardinality(T) /\ (Cardinality(T) = Cardinality(U) => T = U)
      BY <2>4, FS_Subset
    <2> HIDE DEF N
    <2> QED
      BY <1>4, <1>5, <2>3, <2>4, <2>5
  <1> QED
    BY <1>4, <1>5

(* Taking out one element at a time is enough.                             *)
LEMMA StepInduction ==
  ASSUME NEW S, IsFiniteSet(S), NEW P, {} \in P,
         \A T \in SUBSET S : \A x \in T : T \ {x} \in P => T \in P
  PROVE  S \in P
  <1>1. ASSUME NEW T \in SUBSET S, \A U \in SUBSET T : U # T => U \in P
        PROVE  T \in P
    <2>1. CASE T = {}
      BY <2>1
    <2>2. CASE T # {}
      <3>1. PICK x \in T : TRUE
        BY <2>2
      <3>2. T \ {x} \in SUBSET T /\ T \ {x} # T
        BY <3>1
      <3>3. T \ {x} \in P
        BY <1>1, <3>2
      <3> QED
        BY <3>1, <3>3
    <2> QED
      BY <2>1, <2>2
  <1> QED
    BY <1>1, SetInduction

(* The table by which a sum is computed, an arbitrary element first.       *)
Pick(T) == CHOOSE x \in T : TRUE

Table(g, f, S) ==
    g = [T \in SUBSET S |-> IF T = {} THEN 0 ELSE f[Pick(T)] + g[T \ {Pick(T)}]]

LEMMA SumByTable == \A f, S : SumOf(f, S) = (CHOOSE g : Table(g, f, S))[S]
  BY DEF SumOf, MapThenSumSet, MapThenFoldSet, Table, Pick

LEMMA PickIn == \A T : T # {} => Pick(T) \in T
  BY DEF Pick

LEMMA TablesAgree ==
  ASSUME NEW f, NEW S, NEW R, NEW g, NEW h, Table(g, f, S), Table(h, f, R),
         NEW T, T \subseteq S, T \subseteq R, IsFiniteSet(T)
  PROVE  g[T] = h[T]
  <1> DEFINE P == {U \in SUBSET T : g[U] = h[U]}
  <1>1. ASSUME NEW U \in SUBSET T, \A V \in SUBSET U : V # U => V \in P
        PROVE  U \in P
    <2>0. U \in SUBSET S /\ U \in SUBSET R
      OBVIOUS
    <2>1. g[U] = IF U = {} THEN 0 ELSE f[Pick(U)] + g[U \ {Pick(U)}]
      BY <2>0 DEF Table
    <2>2. h[U] = IF U = {} THEN 0 ELSE f[Pick(U)] + h[U \ {Pick(U)}]
      BY <2>0 DEF Table
    <2>3. U # {} => U \ {Pick(U)} \in P
      BY <1>1, PickIn
    <2> QED
      BY <2>1, <2>2, <2>3
  <1>2. T \in P
    <2> HIDE DEF P
    <2> QED
      BY <1>1, SetInduction
  <1> QED
    BY <1>2

LEMMA TableExists ==
  ASSUME NEW f, NEW S, IsFiniteSet(S)
  PROVE  \E g : Table(g, f, S)
  <1> DEFINE P == {T \in SUBSET S : \E g : Table(g, f, T)}
  <1>1. ASSUME NEW T \in SUBSET S, \A U \in SUBSET T : U # T => U \in P
        PROVE  T \in P
    <2> DEFINE G == [U \in SUBSET T |->
                       IF U = {} THEN 0 ELSE f[Pick(U)] + SumOf(f, U \ {Pick(U)})]
    <2>1. ASSUME NEW V \in SUBSET T, V # T PROVE G[V] = SumOf(f, V)
      <3>1. \E g : Table(g, f, V)
        BY <1>1, <2>1
      <3> DEFINE g == CHOOSE g : Table(g, f, V)
      <3>2. Table(g, f, V)
        BY <3>1
      <3>3. SumOf(f, V) = g[V]
        BY SumByTable
      <3>4. g[V] = IF V = {} THEN 0 ELSE f[Pick(V)] + g[V \ {Pick(V)}]
        <4> HIDE DEF g
        <4> QED
          BY <3>2 DEF Table
      <3>5. CASE V = {}
        BY <3>3, <3>4, <3>5
      <3>6. CASE V # {}
        <4> DEFINE W == V \ {Pick(V)}
        <4>1. W \in SUBSET T /\ W # T /\ W \subseteq V
          BY <3>6, PickIn
        <4>2. \E k : Table(k, f, W)
          BY <1>1, <4>1
        <4> DEFINE k == CHOOSE k : Table(k, f, W)
        <4>3. Table(k, f, W)
          BY <4>2
        <4>4. SumOf(f, W) = k[W]
          BY SumByTable
        <4>5. IsFiniteSet(W)
          BY <4>1, FS_Subset
        <4>6. g[W] = k[W]
          <5> HIDE DEF g, k, W
          <5> QED
            BY <3>2, <4>1, <4>3, <4>5, TablesAgree
        <4> QED
          BY <3>3, <3>4, <3>6, <4>4, <4>6
      <3> QED
        BY <3>5, <3>6
    <2>2. \A U \in SUBSET T : U # {} => U \ {Pick(U)} \in SUBSET T /\ U \ {Pick(U)} # T
      BY PickIn
    <2>3. \A U \in SUBSET T : G[U] = IF U = {} THEN 0 ELSE f[Pick(U)] + G[U \ {Pick(U)}]
      BY <2>1, <2>2
    <2>4. Table(G, f, T)
      BY <2>3 DEF Table
    <2> QED
      BY <2>4
  <1>2. S \in P
    <2> HIDE DEF P
    <2> QED
      BY <1>1, SetInduction
  <1> QED
    BY <1>2

LEMMA SumPick ==
  ASSUME NEW f, NEW S, IsFiniteSet(S)
  PROVE  SumOf(f, S) = IF S = {} THEN 0 ELSE f[Pick(S)] + SumOf(f, S \ {Pick(S)})
  <1> DEFINE g == CHOOSE g : Table(g, f, S)
             W == S \ {Pick(S)}
             h == CHOOSE h : Table(h, f, W)
  <1>1. IsFiniteSet(W)
    BY FS_Subset
  <1>2. Table(g, f, S) /\ Table(h, f, W)
    BY <1>1, TableExists
  <1>3. SumOf(f, S) = g[S] /\ SumOf(f, W) = h[W]
    BY SumByTable
  <1>4. g[S] = IF S = {} THEN 0 ELSE f[Pick(S)] + g[W]
    <2> HIDE DEF g
    <2> QED
      BY <1>2 DEF Table
  <1>5. g[W] = h[W]
    <2>1. W \subseteq S
      OBVIOUS
    <2> HIDE DEF g, h, W
    <2> QED
      BY <1>1, <1>2, <2>1, TablesAgree
  <1> QED
    BY <1>3, <1>4, <1>5

LEMMA SumEmpty == \A f : SumOf(f, {}) = 0
  BY SumPick, FS_EmptySet

(* f is natural on S.                                                      *)
NatOn(f, S) == \A x \in S : f[x] \in Nat

LEMMA SumNat ==
  ASSUME NEW f, NEW S, IsFiniteSet(S), NatOn(f, S)
  PROVE  SumOf(f, S) \in Nat
  <1> DEFINE P == {T \in SUBSET S : SumOf(f, T) \in Nat}
  <1>1. ASSUME NEW T \in SUBSET S, \A U \in SUBSET T : U # T => U \in P
        PROVE  T \in P
    <2>1. IsFiniteSet(T)
      BY FS_Subset
    <2>2. SumOf(f, T) = IF T = {} THEN 0 ELSE f[Pick(T)] + SumOf(f, T \ {Pick(T)})
      BY <2>1, SumPick
    <2>3. T # {} => Pick(T) \in T /\ f[Pick(T)] \in Nat /\ T \ {Pick(T)} \in P
      BY <1>1, PickIn DEF NatOn
    <2> QED
      BY <2>2, <2>3
  <1>2. S \in P
    <2> HIDE DEF P
    <2> QED
      BY <1>1, SetInduction
  <1> QED
    BY <1>2

LEMMA SumTake ==
  ASSUME NEW f, NEW S, IsFiniteSet(S), NatOn(f, S), NEW x \in S
  PROVE  SumOf(f, S) = f[x] + SumOf(f, S \ {x})
  <1> DEFINE P == {T \in SUBSET S : \A y \in T : SumOf(f, T) = f[y] + SumOf(f, T \ {y})}
  <1>1. ASSUME NEW T \in SUBSET S, \A U \in SUBSET T : U # T => U \in P
        PROVE  T \in P
    <2> SUFFICES ASSUME NEW y \in T PROVE SumOf(f, T) = f[y] + SumOf(f, T \ {y})
      OBVIOUS
    <2> DEFINE c == Pick(T)
    <2>1. c \in T
      BY PickIn
    <2>2. SumOf(f, T) = f[c] + SumOf(f, T \ {c})
      BY FS_Subset, SumPick
    <2>3. CASE y = c
      BY <2>2, <2>3
    <2>4. CASE y # c
      <3> DEFINE V == (T \ {c}) \ {y}
      <3>1. T \ {c} \in P /\ T \ {y} \in P
        BY <1>1, <2>1
      <3>2. SumOf(f, T \ {c}) = f[y] + SumOf(f, V)
        BY <2>4, <3>1
      <3>3. SumOf(f, T \ {y}) = f[c] + SumOf(f, V)
        <4>1. (T \ {y}) \ {c} = V
          OBVIOUS
        <4>2. c \in T \ {y}
          BY <2>1, <2>4
        <4>3. SumOf(f, T \ {y}) = f[c] + SumOf(f, (T \ {y}) \ {c})
          BY <3>1, <4>2
        <4> QED
          BY <4>1, <4>3
      <3>4. IsFiniteSet(V) /\ NatOn(f, V)
        BY FS_Subset DEF NatOn
      <3>5. SumOf(f, V) \in Nat /\ f[c] \in Nat /\ f[y] \in Nat
        BY <2>1, <3>4, SumNat DEF NatOn
      <3> HIDE DEF c, V
      <3> QED
        BY <2>2, <3>2, <3>3, <3>5
    <2> QED
      BY <2>3, <2>4
  <1>2. S \in P
    <2> HIDE DEF P
    <2> QED
      BY <1>1, SetInduction
  <1> QED
    BY <1>2

LEMMA SumAdd ==
  ASSUME NEW f, NEW S, IsFiniteSet(S), NEW x, x \notin S, NatOn(f, S \cup {x})
  PROVE  SumOf(f, S \cup {x}) = f[x] + SumOf(f, S)
  <1>1. IsFiniteSet(S \cup {x}) /\ (S \cup {x}) \ {x} = S
    BY FS_AddElement
  <1>2. SumOf(f, S \cup {x}) = f[x] + SumOf(f, (S \cup {x}) \ {x})
    BY <1>1, SumTake
  <1> QED
    BY <1>1, <1>2

LEMMA SumOne ==
  ASSUME NEW f, NEW x, f[x] \in Nat
  PROVE  SumOf(f, {x}) = f[x]
  <1>1. IsFiniteSet({x}) /\ NatOn(f, {x}) /\ {x} \ {x} = {}
    BY FS_Singleton DEF NatOn
  <1>2. SumOf(f, {x}) = f[x] + SumOf(f, {x} \ {x})
    BY <1>1, SumTake
  <1> QED
    BY <1>1, <1>2, SumEmpty

LEMMA SumSame ==
  ASSUME NEW f, NEW g, NEW S, IsFiniteSet(S), \A x \in S : f[x] = g[x]
  PROVE  SumOf(f, S) = SumOf(g, S)
  <1> DEFINE P == {T \in SUBSET S : SumOf(f, T) = SumOf(g, T)}
  <1>1. ASSUME NEW T \in SUBSET S, \A U \in SUBSET T : U # T => U \in P
        PROVE  T \in P
    <2>1. IsFiniteSet(T)
      BY FS_Subset
    <2>2. SumOf(f, T) = IF T = {} THEN 0 ELSE f[Pick(T)] + SumOf(f, T \ {Pick(T)})
      BY <2>1, SumPick
    <2>3. SumOf(g, T) = IF T = {} THEN 0 ELSE g[Pick(T)] + SumOf(g, T \ {Pick(T)})
      BY <2>1, SumPick
    <2>4. T # {} => f[Pick(T)] = g[Pick(T)] /\ T \ {Pick(T)} \in P
      BY <1>1, PickIn
    <2> QED
      BY <2>2, <2>3, <2>4
  <1>2. S \in P
    <2> HIDE DEF P
    <2> QED
      BY <1>1, SetInduction
  <1> QED
    BY <1>2

(* Two functions that differ in one place.                                 *)
LEMMA SumChange ==
  ASSUME NEW f, NEW g, NEW S, IsFiniteSet(S), NatOn(f, S), NatOn(g, S),
         NEW x \in S, \A y \in S \ {x} : f[y] = g[y]
  PROVE  SumOf(g, S) + f[x] = SumOf(f, S) + g[x]
  <1>1. IsFiniteSet(S \ {x}) /\ NatOn(f, S \ {x})
    BY FS_Subset DEF NatOn
  <1>2. SumOf(f, S) = f[x] + SumOf(f, S \ {x}) /\ SumOf(g, S) = g[x] + SumOf(g, S \ {x})
    BY SumTake
  <1>3. SumOf(f, S \ {x}) = SumOf(g, S \ {x})
    BY <1>1, SumSame
  <1>4. SumOf(f, S \ {x}) \in Nat /\ f[x] \in Nat /\ g[x] \in Nat
    BY <1>1, SumNat DEF NatOn
  <1> QED
    BY <1>2, <1>3, <1>4

LEMMA SumUnion ==
  ASSUME NEW f, NEW S, IsFiniteSet(S), NEW R, IsFiniteSet(R), S \cap R = {},
         NatOn(f, S \cup R)
  PROVE  SumOf(f, S \cup R) = SumOf(f, S) + SumOf(f, R)
  <1> DEFINE P == {T \in SUBSET R : SumOf(f, S \cup T) = SumOf(f, S) + SumOf(f, T)}
  <1>0. SumOf(f, S) \in Nat
    BY SumNat DEF NatOn
  <1>1. {} \in P
    <2>1. S \cup {} = S
      OBVIOUS
    <2> QED
      BY <1>0, <2>1, SumEmpty
  <1>2. ASSUME NEW T \in SUBSET R, NEW x \in T, T \ {x} \in P PROVE T \in P
    <2>1. IsFiniteSet(T) /\ IsFiniteSet(T \ {x}) /\ IsFiniteSet(S \cup T)
      BY FS_Subset, FS_Union
    <2>2. NatOn(f, T) /\ NatOn(f, S \cup T) /\ NatOn(f, T \ {x}) /\ f[x] \in Nat
      BY DEF NatOn
    <2>3. SumOf(f, T) = f[x] + SumOf(f, T \ {x})
      BY <2>1, <2>2, SumTake
    <2>4. SumOf(f, S \cup T) = f[x] + SumOf(f, (S \cup T) \ {x})
      BY <2>1, <2>2, SumTake
    <2>5. (S \cup T) \ {x} = S \cup (T \ {x})
      OBVIOUS
    <2>6. SumOf(f, S \cup (T \ {x})) = SumOf(f, S) + SumOf(f, T \ {x})
      BY <1>2
    <2>7. SumOf(f, T \ {x}) \in Nat
      BY <2>1, <2>2, SumNat
    <2>8. SumOf(f, S \cup T) = f[x] + SumOf(f, S \cup (T \ {x}))
      BY <2>4, <2>5, Zenon
    <2>9. SumOf(f, S \cup T) = SumOf(f, S) + SumOf(f, T)
      BY <1>0, <2>2, <2>3, <2>6, <2>7, <2>8
    <2> QED
      BY <2>9
  <1>3. R \in P
    <2> HIDE DEF P
    <2> QED
      BY <1>1, <1>2, StepInduction
  <1> QED
    BY <1>3

LEMMA SumSubset ==
  ASSUME NEW f, NEW S, IsFiniteSet(S), NatOn(f, S), NEW T \in SUBSET S
  PROVE  SumOf(f, T) <= SumOf(f, S)
  <1>1. IsFiniteSet(T) /\ IsFiniteSet(S \ T) /\ T \cup (S \ T) = S /\ T \cap (S \ T) = {}
    BY FS_Subset
  <1>2. NatOn(f, T) /\ NatOn(f, S \ T)
    BY DEF NatOn
  <1>3. SumOf(f, T \cup (S \ T)) = SumOf(f, T) + SumOf(f, S \ T)
    BY <1>1, SumUnion
  <1>4. SumOf(f, T) \in Nat /\ SumOf(f, S \ T) \in Nat
    BY <1>1, <1>2, SumNat
  <1>5. SumOf(f, S) = SumOf(f, T) + SumOf(f, S \ T)
    BY <1>1, <1>3, Zenon
  <1> QED
    BY <1>4, <1>5

LEMMA SumAtLeast ==
  ASSUME NEW f, NEW S, IsFiniteSet(S), NatOn(f, S), NEW x \in S
  PROVE  f[x] <= SumOf(f, S)
  <1>1. IsFiniteSet(S \ {x}) /\ NatOn(f, S \ {x})
    BY FS_Subset DEF NatOn
  <1>2. SumOf(f, S) = f[x] + SumOf(f, S \ {x}) /\ SumOf(f, S \ {x}) \in Nat
    BY <1>1, SumTake, SumNat
  <1> QED
    BY <1>2 DEF NatOn

LEMMA SumZero ==
  ASSUME NEW f, NEW S, IsFiniteSet(S), \A x \in S : f[x] = 0
  PROVE  SumOf(f, S) = 0
  <1> DEFINE P == {T \in SUBSET S : SumOf(f, T) = 0}
  <1>1. {} \in P
    BY SumEmpty
  <1>2. ASSUME NEW T \in SUBSET S, NEW x \in T, T \ {x} \in P PROVE T \in P
    <2>1. IsFiniteSet(T) /\ NatOn(f, T)
      BY FS_Subset DEF NatOn
    <2> QED
      BY <1>2, <2>1, SumTake
  <1>3. S \in P
    <2> HIDE DEF P
    <2> QED
      BY <1>1, <1>2, StepInduction
  <1> QED
    BY <1>3

LEMMA SumMono ==
  ASSUME NEW f, NEW g, NEW S, IsFiniteSet(S), NatOn(f, S), NatOn(g, S),
         \A x \in S : f[x] <= g[x]
  PROVE  SumOf(f, S) <= SumOf(g, S)
  <1> DEFINE P == {T \in SUBSET S : SumOf(f, T) <= SumOf(g, T)}
  <1>1. {} \in P
    BY SumEmpty
  <1>2. ASSUME NEW T \in SUBSET S, NEW x \in T, T \ {x} \in P PROVE T \in P
    <2>1. IsFiniteSet(T) /\ IsFiniteSet(T \ {x})
      BY FS_Subset
    <2>2. NatOn(f, T) /\ NatOn(g, T) /\ NatOn(f, T \ {x}) /\ NatOn(g, T \ {x})
      BY DEF NatOn
    <2>3. SumOf(f, T) = f[x] + SumOf(f, T \ {x}) /\ SumOf(g, T) = g[x] + SumOf(g, T \ {x})
      BY <2>1, <2>2, SumTake
    <2>4. SumOf(f, T \ {x}) \in Nat /\ SumOf(g, T \ {x}) \in Nat
      BY <2>1, <2>2, SumNat
    <2>5. f[x] \in Nat /\ g[x] \in Nat /\ f[x] <= g[x]
      BY DEF NatOn
    <2>6. SumOf(f, T) <= SumOf(g, T)
      BY <1>2, <2>3, <2>4, <2>5
    <2> QED
      BY <2>6
  <1>3. S \in P
    <2> HIDE DEF P
    <2> QED
      BY <1>1, <1>2, StepInduction
  <1> QED
    BY <1>3

LEMMA SumPlus ==
  ASSUME NEW f, NEW g, NEW h, NEW S, IsFiniteSet(S), NatOn(f, S), NatOn(g, S),
         \A x \in S : h[x] = f[x] + g[x]
  PROVE  SumOf(h, S) = SumOf(f, S) + SumOf(g, S)
  <1> DEFINE P == {T \in SUBSET S : SumOf(h, T) = SumOf(f, T) + SumOf(g, T)}
  <1>1. {} \in P
    BY SumEmpty
  <1>2. ASSUME NEW T \in SUBSET S, NEW x \in T, T \ {x} \in P PROVE T \in P
    <2>1. IsFiniteSet(T) /\ IsFiniteSet(T \ {x})
      BY FS_Subset
    <2>2. /\ NatOn(f, T) /\ NatOn(g, T) /\ NatOn(h, T)
          /\ NatOn(f, T \ {x}) /\ NatOn(g, T \ {x})
      BY DEF NatOn
    <2>3. /\ SumOf(f, T) = f[x] + SumOf(f, T \ {x})
          /\ SumOf(g, T) = g[x] + SumOf(g, T \ {x})
          /\ SumOf(h, T) = h[x] + SumOf(h, T \ {x})
      BY <2>1, <2>2, SumTake
    <2>4. SumOf(f, T \ {x}) \in Nat /\ SumOf(g, T \ {x}) \in Nat
      BY <2>1, <2>2, SumNat
    <2>5. f[x] \in Nat /\ g[x] \in Nat /\ h[x] = f[x] + g[x]
      BY DEF NatOn
    <2>6. SumOf(h, T \ {x}) = SumOf(f, T \ {x}) + SumOf(g, T \ {x})
      BY <1>2
    <2>7. SumOf(h, T) = SumOf(f, T) + SumOf(g, T)
      BY <2>3, <2>4, <2>5, <2>6
    <2> QED
      BY <2>7
  <1>3. S \in P
    <2> HIDE DEF P
    <2> QED
      BY <1>1, <1>2, StepInduction
  <1> QED
    BY <1>3

(* The same sum under other names.                                         *)
LEMMA SumRelabel ==
  ASSUME NEW f, NEW h, NEW g, NEW S, IsFiniteSet(S), NatOn(h, S),
         \A x, y \in S : g[x] = g[y] => x = y,
         \A x \in S : f[g[x]] = h[x]
  PROVE  /\ IsFiniteSet({g[x] : x \in S})
         /\ SumOf(f, {g[x] : x \in S}) = SumOf(h, S)
  <1> DEFINE Im(T) == {g[x] : x \in T}
             P == {T \in SUBSET S : IsFiniteSet(Im(T)) /\ SumOf(f, Im(T)) = SumOf(h, T)}
  <1>1. {} \in P
    <2>1. Im({}) = {}
      OBVIOUS
    <2> QED
      BY <2>1, SumEmpty, FS_EmptySet
  <1>2. ASSUME NEW T \in SUBSET S, NEW x \in T, T \ {x} \in P PROVE T \in P
    <2>1. Im(T) = Im(T \ {x}) \cup {g[x]} /\ g[x] \notin Im(T \ {x})
      OBVIOUS
    <2>2. IsFiniteSet(Im(T \ {x})) /\ SumOf(f, Im(T \ {x})) = SumOf(h, T \ {x})
      BY <1>2
    <2>3. NatOn(f, Im(T \ {x}) \cup {g[x]}) /\ NatOn(h, T) /\ IsFiniteSet(T)
      BY FS_Subset DEF NatOn
    <2>4. SumOf(h, T) = h[x] + SumOf(h, T \ {x})
      BY <2>3, SumTake
    <2> HIDE DEF Im
    <2>5. IsFiniteSet(Im(T))
      <3>1. IsFiniteSet(Im(T \ {x}) \cup {g[x]})
        BY <2>2, FS_AddElement
      <3> QED
        BY <2>1, <3>1, Zenon
    <2>6. SumOf(f, Im(T)) = f[g[x]] + SumOf(f, Im(T \ {x}))
      BY <2>1, <2>2, <2>3, SumAdd
    <2>7. SumOf(f, Im(T)) = SumOf(h, T)
      BY <2>2, <2>4, <2>6
    <2> QED
      BY <2>5, <2>7
  <1>3. S \in P
    <2> HIDE DEF P
    <2> QED
      BY <1>1, <1>2, StepInduction
  <1> QED
    BY <1>3
-----------------------------------------------------------------------------
(* The sums of the model.                                                  *)

LEMMA Finite == IsFiniteSet(Nodes) /\ IsFiniteSet(Ids) /\ IsFiniteSet(Names)
  BY TrafficAssumption

LEMMA FiniteNames ==
  ASSUME NEW S \in SUBSET Names
  PROVE  IsFiniteSet(S)
  BY Finite, FS_Subset

LEMMA BytesAre ==
  ASSUME NEW S \in SUBSET Sample, IsFiniteSet(S), NEW T \in SUBSET S
  PROVE  /\ IsFiniteSet(T) /\ NatOn([s \in S |-> s.bytes], S)
         /\ SumOf([s \in S |-> s.bytes], T) = Bytes(T)
  <1> DEFINE f == [s \in S |-> s.bytes]
             g == [s \in T |-> s.bytes]
  <1>1. IsFiniteSet(T)
    BY FS_Subset
  <1>2. NatOn(f, S)
    BY DEF NatOn, Sample
  <1>3. \A s \in T : f[s] = g[s]
    OBVIOUS
  <1>4. SumOf(f, T) = SumOf(g, T)
    <2> HIDE DEF f, g
    <2> QED
      BY <1>1, <1>3, SumSame
  <1> QED
    BY <1>1, <1>2, <1>4 DEF Bytes

LEMMA BytesNat ==
  ASSUME NEW S \in SUBSET Sample, IsFiniteSet(S)
  PROVE  Bytes(S) \in Nat /\ \A i \in Ids : BytesOf(i, S) \in Nat
  <1>1. ASSUME NEW T \in SUBSET S PROVE Bytes(T) \in Nat
    <2>1. T \in SUBSET Sample /\ IsFiniteSet(T) /\ T \in SUBSET T
      BY FS_Subset
    <2>2. NatOn([s \in T |-> s.bytes], T)
      BY <2>1, BytesAre
    <2> QED
      BY <2>1, <2>2, SumNat DEF Bytes
  <1>2. \A i \in Ids : {s \in S : s.user = i} \in SUBSET S
    OBVIOUS
  <1> QED
    BY <1>1, <1>2 DEF BytesOf

LEMMA BytesEmpty == Bytes({}) = 0 /\ \A i : BytesOf(i, {}) = 0
  <1>1. Bytes({}) = 0
    BY SumEmpty DEF Bytes
  <1>2. \A i : {s \in {} : s.user = i} = {}
    OBVIOUS
  <1> QED
    BY <1>1, <1>2, Zenon DEF BytesOf

LEMMA BytesSubset ==
  ASSUME NEW S \in SUBSET Sample, IsFiniteSet(S), NEW T \in SUBSET S
  PROVE  Bytes(T) <= Bytes(S) /\ \A i \in Ids : BytesOf(i, T) <= BytesOf(i, S)
  <1>1. ASSUME NEW R \in SUBSET S, NEW U \in SUBSET R PROVE Bytes(U) <= Bytes(R)
    <2> DEFINE f == [s \in R |-> s.bytes]
    <2>1. R \in SUBSET Sample /\ IsFiniteSet(R) /\ R \in SUBSET R
      BY FS_Subset
    <2>2. NatOn(f, R) /\ SumOf(f, U) = Bytes(U) /\ SumOf(f, R) = Bytes(R)
      BY <2>1, BytesAre
    <2>3. SumOf(f, U) <= SumOf(f, R)
      <3> HIDE DEF f
      <3> QED
        BY <2>1, <2>2, SumSubset
    <2> HIDE DEF f
    <2> QED
      BY <2>2, <2>3
  <1>2. ASSUME NEW i \in Ids PROVE BytesOf(i, T) <= BytesOf(i, S)
    <2>1. /\ {s \in S : s.user = i} \in SUBSET S
          /\ {s \in T : s.user = i} \in SUBSET {s \in S : s.user = i}
      OBVIOUS
    <2> QED
      BY <1>1, <2>1 DEF BytesOf
  <1> QED
    BY <1>1, <1>2

LEMMA BytesUnion ==
  ASSUME NEW S \in SUBSET Sample, IsFiniteSet(S),
         NEW R \in SUBSET Sample, IsFiniteSet(R), S \cap R = {}
  PROVE  /\ IsFiniteSet(S \cup R) /\ Bytes(S \cup R) = Bytes(S) + Bytes(R)
         /\ \A i \in Ids : BytesOf(i, S \cup R) = BytesOf(i, S) + BytesOf(i, R)
  <1>1. ASSUME NEW T \in SUBSET S, NEW U \in SUBSET R
        PROVE  Bytes(T \cup U) = Bytes(T) + Bytes(U)
    <2> DEFINE W == T \cup U
               f == [s \in W |-> s.bytes]
    <2>1. IsFiniteSet(T) /\ IsFiniteSet(U) /\ T \cap U = {}
      BY FS_Subset
    <2>2. W \in SUBSET Sample /\ IsFiniteSet(W)
      BY <2>1, FS_Union
    <2>3. T \in SUBSET W /\ U \in SUBSET W /\ W \in SUBSET W
      OBVIOUS
    <2>4. /\ NatOn(f, W)
          /\ SumOf(f, T) = Bytes(T) /\ SumOf(f, U) = Bytes(U) /\ SumOf(f, W) = Bytes(W)
      <3> HIDE DEF W
      <3> QED
        BY <2>2, <2>3, BytesAre
    <2>5. SumOf(f, T \cup U) = SumOf(f, T) + SumOf(f, U)
      <3> HIDE DEF f
      <3> QED
        BY <2>1, <2>4, SumUnion
    <2> HIDE DEF f
    <2> QED
      BY <2>4, <2>5
  <1>2. ASSUME NEW i \in Ids
        PROVE  BytesOf(i, S \cup R) = BytesOf(i, S) + BytesOf(i, R)
    <2> DEFINE T == {s \in S : s.user = i}
               U == {s \in R : s.user = i}
    <2>1. T \in SUBSET S /\ U \in SUBSET R /\ {s \in S \cup R : s.user = i} = T \cup U
      OBVIOUS
    <2>2. Bytes(T \cup U) = Bytes(T) + Bytes(U)
      BY <1>1, <2>1
    <2>3. BytesOf(i, S \cup R) = Bytes(T \cup U)
      BY <2>1, Zenon DEF BytesOf
    <2> QED
      BY <2>2, <2>3 DEF BytesOf
  <1> QED
    BY <1>1, <1>2, FS_Union

(* What is counted for all users together is what was counted.             *)
LEMMA BytesByUser ==
  ASSUME NEW S \in SUBSET Sample, IsFiniteSet(S)
  PROVE  SumOf([i \in Ids |-> BytesOf(i, S)], Ids) = Bytes(S)
  <1> DEFINE f == [i \in Ids |-> BytesOf(i, S)]
             Of(I) == {s \in S : s.user \in I}
             P == {I \in SUBSET Ids : SumOf(f, I) = Bytes(Of(I))}
  <1>0. NatOn(f, Ids)
    BY BytesNat DEF NatOn
  <1>1. {} \in P
    <2>1. Of({}) = {}
      OBVIOUS
    <2> QED
      BY <2>1, SumEmpty, BytesEmpty
  <1>2. ASSUME NEW I \in SUBSET Ids, NEW i \in I, I \ {i} \in P PROVE I \in P
    <2>1. /\ Of(I) = Of(I \ {i}) \cup {s \in S : s.user = i}
          /\ Of(I \ {i}) \cap {s \in S : s.user = i} = {}
      OBVIOUS
    <2>2. /\ Of(I \ {i}) \in SUBSET Sample /\ {s \in S : s.user = i} \in SUBSET Sample
          /\ IsFiniteSet(Of(I \ {i})) /\ IsFiniteSet({s \in S : s.user = i})
      BY FS_Subset
    <2>3. Bytes(Of(I)) = Bytes(Of(I \ {i})) + BytesOf(i, S)
      <3>1. Bytes(Of(I \ {i}) \cup {s \in S : s.user = i})
              = Bytes(Of(I \ {i})) + Bytes({s \in S : s.user = i})
        <4> HIDE DEF Of
        <4> QED
          BY <2>1, <2>2, BytesUnion
      <3> HIDE DEF Of
      <3> QED
        BY <2>1, <3>1, Zenon DEF BytesOf
    <2>4. SumOf(f, I) = f[i] + SumOf(f, I \ {i})
      <3>1. IsFiniteSet(I) /\ NatOn(f, I)
        BY <1>0, Finite, FS_Subset DEF NatOn
      <3> HIDE DEF f
      <3> QED
        BY <3>1, SumTake
    <2>5. SumOf(f, I \ {i}) = Bytes(Of(I \ {i})) /\ f[i] = BytesOf(i, S)
      BY <1>2
    <2>6. Bytes(Of(I \ {i})) \in Nat /\ BytesOf(i, S) \in Nat
      BY <2>2, BytesNat
    <2>7. SumOf(f, I) = Bytes(Of(I))
      <3> HIDE DEF f, Of
      <3> QED
        BY <2>3, <2>4, <2>5, <2>6
    <2> QED
      BY <2>7
  <1>3. Ids \in P
    <2> HIDE DEF P
    <2> QED
      BY <1>1, <1>2, Finite, StepInduction
  <1>4. Of(Ids) = S
    BY DEF Sample
  <1>5. SumOf(f, Ids) = Bytes(Of(Ids))
    BY <1>3
  <1> QED
    BY <1>4, <1>5, Zenon

(* Unread, of any counters.                                                *)
UnreadIn(c, S) == SumOf([n \in Nodes |-> SumOf(c[n], S)], Nodes)

LEMMA CountersNat ==
  ASSUME NEW c \in [Nodes -> [Names -> Nat]], NEW S \in SUBSET Names
  PROVE  /\ \A n \in Nodes : NatOn(c[n], S) /\ SumOf(c[n], S) \in Nat
         /\ NatOn([n \in Nodes |-> SumOf(c[n], S)], Nodes)
         /\ UnreadIn(c, S) \in Nat
  <1>1. \A n \in Nodes : NatOn(c[n], S)
    BY DEF NatOn
  <1>2. \A n \in Nodes : SumOf(c[n], S) \in Nat
    BY <1>1, FiniteNames, SumNat
  <1>3. NatOn([n \in Nodes |-> SumOf(c[n], S)], Nodes)
    BY <1>2 DEF NatOn
  <1> QED
    BY <1>1, <1>2, <1>3, Finite, SumNat DEF UnreadIn

LEMMA UnreadEmpty == \A c : UnreadIn(c, {}) = 0
  <1> SUFFICES ASSUME NEW c PROVE UnreadIn(c, {}) = 0
    OBVIOUS
  <1> DEFINE f == [n \in Nodes |-> SumOf(c[n], {})]
  <1>1. \A n \in Nodes : f[n] = 0
    BY SumEmpty
  <1>2. SumOf(f, Nodes) = 0
    <2> HIDE DEF f
    <2> QED
      BY <1>1, Finite, SumZero
  <1> QED
    BY <1>2 DEF UnreadIn

LEMMA UnreadSubset ==
  ASSUME NEW c \in [Nodes -> [Names -> Nat]], NEW S \in SUBSET Names, NEW T \in SUBSET S
  PROVE  /\ \A n \in Nodes : SumOf(c[n], T) <= SumOf(c[n], S)
         /\ UnreadIn(c, T) <= UnreadIn(c, S)
  <1> DEFINE f == [n \in Nodes |-> SumOf(c[n], T)]
             g == [n \in Nodes |-> SumOf(c[n], S)]
  <1>1. \A n \in Nodes : SumOf(c[n], T) <= SumOf(c[n], S)
    BY CountersNat, FiniteNames, SumSubset
  <1>2. NatOn(f, Nodes) /\ NatOn(g, Nodes)
    BY CountersNat
  <1>3. \A n \in Nodes : f[n] <= g[n]
    BY <1>1
  <1>4. SumOf(f, Nodes) <= SumOf(g, Nodes)
    <2> HIDE DEF f, g
    <2> QED
      BY <1>2, <1>3, Finite, SumMono
  <1> QED
    BY <1>1, <1>4 DEF UnreadIn

(* A name under which nothing is counted.                                  *)
LEMMA UnreadSilent ==
  ASSUME NEW c \in [Nodes -> [Names -> Nat]], NEW S \in SUBSET Names, NEW m \in Names,
         \A n \in Nodes : c[n][m] = 0
  PROVE  UnreadIn(c, S \cup {m}) = UnreadIn(c, S)
  <1> DEFINE f == [n \in Nodes |-> SumOf(c[n], S \cup {m})]
             g == [n \in Nodes |-> SumOf(c[n], S)]
  <1>1. ASSUME NEW n \in Nodes PROVE SumOf(c[n], S \cup {m}) = SumOf(c[n], S)
    <2>1. CASE m \in S
      <3>1. S \cup {m} = S
        BY <2>1
      <3> QED
        BY <3>1, Zenon
    <2>2. CASE m \notin S
      <3>1. NatOn(c[n], S \cup {m}) /\ IsFiniteSet(S) /\ SumOf(c[n], S) \in Nat
        BY CountersNat, FiniteNames DEF NatOn
      <3>2. SumOf(c[n], S \cup {m}) = c[n][m] + SumOf(c[n], S)
        BY <2>2, <3>1, SumAdd
      <3> QED
        BY <3>1, <3>2
    <2> QED
      BY <2>1, <2>2
  <1>2. \A n \in Nodes : f[n] = g[n]
    BY <1>1
  <1>3. SumOf(f, Nodes) = SumOf(g, Nodes)
    <2> HIDE DEF f, g
    <2> QED
      BY <1>2, Finite, SumSame
  <1> QED
    BY <1>3 DEF UnreadIn

(* One node's counters are changed.                                        *)
LEMMA UnreadChange ==
  ASSUME NEW c \in [Nodes -> [Names -> Nat]], NEW d \in [Nodes -> [Names -> Nat]],
         NEW n \in Nodes, \A k \in Nodes \ {n} : d[k] = c[k], NEW S \in SUBSET Names
  PROVE  UnreadIn(d, S) + SumOf(c[n], S) = UnreadIn(c, S) + SumOf(d[n], S)
  <1> DEFINE f == [k \in Nodes |-> SumOf(c[k], S)]
             g == [k \in Nodes |-> SumOf(d[k], S)]
  <1>1. NatOn(f, Nodes) /\ NatOn(g, Nodes)
    BY CountersNat
  <1>2. \A k \in Nodes \ {n} : f[k] = g[k]
    OBVIOUS
  <1>3. SumOf(g, Nodes) + f[n] = SumOf(f, Nodes) + g[n]
    <2> HIDE DEF f, g
    <2> QED
      BY <1>1, <1>2, Finite, SumChange
  <1> QED
    BY <1>3 DEF UnreadIn

Zeroes == [m \in Names |-> 0]

LEMMA ZeroesSum ==
  ASSUME NEW S \in SUBSET Names
  PROVE  Zeroes \in [Names -> Nat] /\ SumOf(Zeroes, S) = 0
  <1>1. Zeroes \in [Names -> Nat] /\ \A m \in S : Zeroes[m] = 0
    BY DEF Zeroes
  <1> QED
    BY <1>1, FiniteNames, SumZero

LEMMA UnreadReset ==
  ASSUME NEW c \in [Nodes -> [Names -> Nat]], NEW n \in Nodes, NEW S \in SUBSET Names
  PROVE  /\ [c EXCEPT ![n] = Zeroes] \in [Nodes -> [Names -> Nat]]
         /\ UnreadIn([c EXCEPT ![n] = Zeroes], S) + SumOf(c[n], S) = UnreadIn(c, S)
  <1> DEFINE d == [c EXCEPT ![n] = Zeroes]
  <1>1. d \in [Nodes -> [Names -> Nat]] /\ d[n] = Zeroes /\ \A k \in Nodes \ {n} : d[k] = c[k]
    BY ZeroesSum
  <1>2. SumOf(d[n], S) = 0
    <2>1. SumOf(Zeroes, S) = 0
      BY ZeroesSum
    <2> QED
      BY <1>1, <2>1, Zenon
  <1>3. UnreadIn(d, S) + SumOf(c[n], S) = UnreadIn(c, S) + SumOf(d[n], S)
    <2> HIDE DEF d
    <2> QED
      BY <1>1, UnreadChange
  <1>4. UnreadIn(c, S) \in Nat
    BY CountersNat
  <1> HIDE DEF d
  <1>5. UnreadIn(d, S) + SumOf(c[n], S) = UnreadIn(c, S)
    BY <1>2, <1>3, <1>4
  <1> QED
    BY <1>1, <1>5 DEF d

(* From c to d node n counts one byte more under m.                        *)
CountsOne(c, d, n, m) ==
    /\ c \in [Nodes -> [Names -> Nat]] /\ d \in [Nodes -> [Names -> Nat]]
    /\ \A k \in Nodes \ {n} : d[k] = c[k]
    /\ \A k \in Names \ {m} : c[n][k] = d[n][k]
    /\ d[n][m] = c[n][m] + 1

LEMMA UnreadCarry ==
  ASSUME NEW c, NEW d, NEW n \in Nodes, NEW m \in Names, CountsOne(c, d, n, m),
         NEW S \in SUBSET Names
  PROVE  /\ m \in S => UnreadIn(d, S) = UnreadIn(c, S) + 1
         /\ m \notin S => UnreadIn(d, S) = UnreadIn(c, S)
  <1>1. /\ c \in [Nodes -> [Names -> Nat]]
        /\ d \in [Nodes -> [Names -> Nat]] /\ \A k \in Nodes \ {n} : d[k] = c[k]
        /\ d[n][m] = c[n][m] + 1 /\ \A k \in Names \ {m} : c[n][k] = d[n][k]
    BY DEF CountsOne
  <1>2. UnreadIn(d, S) + SumOf(c[n], S) = UnreadIn(c, S) + SumOf(d[n], S)
    BY <1>1, UnreadChange
  <1>3. /\ IsFiniteSet(S) /\ NatOn(c[n], S) /\ NatOn(d[n], S) /\ c[n][m] \in Nat
        /\ SumOf(c[n], S) \in Nat /\ SumOf(d[n], S) \in Nat
        /\ UnreadIn(c, S) \in Nat /\ UnreadIn(d, S) \in Nat
    BY <1>1, CountersNat, FiniteNames
  <1>4. CASE m \in S
    <2>1. \A k \in S \ {m} : c[n][k] = d[n][k]
      BY <1>1
    <2>2. SumOf(d[n], S) + c[n][m] = SumOf(c[n], S) + d[n][m]
      BY <1>3, <1>4, <2>1, SumChange
    <2>3. UnreadIn(d, S) = UnreadIn(c, S) + 1
      BY <1>1, <1>2, <1>3, <2>2
    <2> QED
      BY <1>1, <1>4, <2>3
  <1>5. CASE m \notin S
    <2>1. \A k \in S : d[n][k] = c[n][k]
      BY <1>1, <1>5
    <2>2. SumOf(d[n], S) = SumOf(c[n], S)
      BY <1>3, <2>1, SumSame
    <2>3. UnreadIn(d, S) + SumOf(d[n], S) = UnreadIn(c, S) + SumOf(d[n], S)
      BY <1>2, <2>2, Zenon
    <2>4. UnreadIn(d, S) = UnreadIn(c, S)
      BY <1>3, <2>3
    <2> QED
      BY <1>5, <2>4
  <1> QED
    BY <1>4, <1>5

-----------------------------------------------------------------------------
(***************************************************************************)
(* Proofs about Traffic: the inductive invariant.                          *)
(***************************************************************************)

(* Wherever a name stands for a user, the user has had it; what is counted *)
(* is counted under a name somebody had; the poller's map gives a user one *)
(* name.                                                                   *)
NamesAreBorne ==
    /\ \A i \in Ids : user[i] # NoName => user[i] \in borne[i]
    /\ \A n \in Nodes, i \in Ids : known[n][i] # NoName => known[n][i] \in borne[i]
    /\ \A m \in Names : emailToID[m] # NoUser => m \in borne[emailToID[m]]
    /\ \A m, k \in Names : emailToID[m] = emailToID[k] /\ m # k => emailToID[m] = NoUser
    /\ \A n \in Nodes, m \in Names : counter[n][m] > 0 => \E i \in Ids : m \in borne[i]
    /\ \A i \in Ids : borne[i] = {} => carried[i] = 0

(* The samples of the cycle under way are new, and none is there of a node *)
(* that has not reported: no sample falls together with another in a set.  *)
CycleIsFresh ==
    /\ pc # "ask" => emailToID = NoMap /\ asked = {} /\ batch = {}
    /\ \A s \in batch : s.period = happened["poll"] /\ s.node \notin asked
    /\ \A s \in samples : s.period <= happened["poll"]
                          /\ (pc = "ask" => s.period < happened["poll"])
    /\ IsFiniteSet(batch) /\ IsFiniteSet(samples)

(* A user who was there before the poll has one name, and the map has it.  *)
SteadyHaveOneName ==
    \A i \in steady :
        /\ user[i] # NoName /\ borne[i] = {user[i]}
        /\ pc = "ask" => emailToID[user[i]] # NoUser

TrafficInv == /\ TrafficTypeOK /\ NamesAreBorne /\ CycleIsFresh /\ SteadyHaveOneName
              /\ NoByteCountsTwice /\ SamplesAddUp /\ KnownUsersAreCounted

-----------------------------------------------------------------------------
(* What a node reports.                                                    *)

Report(n, m)   == [user |-> emailToID[m], node |-> n, period |-> happened["poll"],
                   bytes |-> counter[n][m]]
Reported(n)    == {m \in Names : emailToID[m] # NoUser /\ counter[n][m] > 0}
ReportOf(n, E) == {Report(n, m) : m \in E}

LEMMA ReportBytes ==
  ASSUME TrafficTypeOK, NamesAreBorne, NEW n \in Nodes, NEW E \in SUBSET Reported(n)
  PROVE  /\ ReportOf(n, E) \in SUBSET Sample /\ IsFiniteSet(ReportOf(n, E))
         /\ Bytes(ReportOf(n, E)) = SumOf(counter[n], E)
  <1> DEFINE R == ReportOf(n, E)
             g == [m \in E |-> Report(n, m)]
             f == [s \in R |-> s.bytes]
  <1>1. /\ E \in SUBSET Names /\ IsFiniteSet(E) /\ NatOn(counter[n], E)
        /\ \A m \in E : emailToID[m] \in Ids
    <2>1. E \in SUBSET Names
      BY DEF Reported
    <2>2. counter \in [Nodes -> [Names -> Nat]] /\ emailToID \in [Names -> Ids \cup {NoUser}]
      BY DEF TrafficTypeOK
    <2>3. NatOn(counter[n], E)
      BY <2>1, <2>2, CountersNat
    <2> QED
      BY <2>1, <2>2, <2>3, FiniteNames DEF Reported
  <1>2. R \in SUBSET Sample
    <2>1. happened["poll"] \in Nat /\ counter \in [Nodes -> [Names -> Nat]]
      BY DEF TrafficTypeOK, Happenings
    <2> QED
      BY <1>1, <2>1 DEF ReportOf, Report, Sample
  <1>3. \A x, y \in E : g[x] = g[y] => x = y
    <2> SUFFICES ASSUME NEW x \in E, NEW y \in E, g[x] = g[y] PROVE x = y
      OBVIOUS
    <2>1. emailToID[x] = emailToID[y]
      BY DEF Report
    <2> QED
      BY <1>1, <2>1 DEF NamesAreBorne, Reported
  <1>4. \A x \in E : f[g[x]] = counter[n][x]
    BY DEF ReportOf, Report
  <1>5. {g[x] : x \in E} = R
    BY DEF ReportOf
  <1>6. IsFiniteSet({g[x] : x \in E}) /\ SumOf(f, {g[x] : x \in E}) = SumOf(counter[n], E)
    <2> HIDE DEF f, g
    <2> QED
      BY <1>1, <1>3, <1>4, SumRelabel
  <1>7. IsFiniteSet(R) /\ SumOf(f, R) = SumOf(counter[n], E)
    <2> HIDE DEF f, g, R
    <2> QED
      BY <1>5, <1>6, Zenon
  <1> QED
    BY <1>2, <1>7 DEF Bytes

LEMMA DeltaBytes ==
  ASSUME TrafficTypeOK, NamesAreBorne, NEW n \in Nodes
  PROVE  /\ PollUserTrafficDelta(n) \in SUBSET Sample
         /\ IsFiniteSet(PollUserTrafficDelta(n))
         /\ \A s \in PollUserTrafficDelta(n) : s.node = n /\ s.period = happened["poll"]
         /\ Bytes(PollUserTrafficDelta(n)) <= SumOf(counter[n], Names)
         /\ \A i \in Ids : BytesOf(i, PollUserTrafficDelta(n)) <= SumOf(counter[n], borne[i])
         /\ \A i \in Ids, m \in Names : borne[i] = {m} /\ emailToID[m] = i =>
                BytesOf(i, PollUserTrafficDelta(n)) = SumOf(counter[n], borne[i])
  <1> DEFINE D == PollUserTrafficDelta(n)
  <1>1. D = ReportOf(n, Reported(n))
    BY DEF PollUserTrafficDelta, ReportOf, Report, Reported
  <1>2. D \in SUBSET Sample /\ IsFiniteSet(D) /\ Bytes(D) = SumOf(counter[n], Reported(n))
    <2>1. Reported(n) \in SUBSET Reported(n)
      OBVIOUS
    <2> HIDE DEF D
    <2> QED
      BY <1>1, <2>1, ReportBytes, Zenon
  <1>3. \A s \in D : s.node = n /\ s.period = happened["poll"]
    BY DEF PollUserTrafficDelta
  <1>4. /\ counter \in [Nodes -> [Names -> Nat]] /\ \A i \in Ids : borne[i] \in SUBSET Names
        /\ Reported(n) \in SUBSET Names /\ Names \in SUBSET Names
    BY DEF TrafficTypeOK, Reported
  <1>5. SumOf(counter[n], Reported(n)) <= SumOf(counter[n], Names)
    BY <1>4, UnreadSubset
  <1>6. Bytes(D) <= SumOf(counter[n], Names)
    BY <1>2, <1>5, Zenon
  <1>7. ASSUME NEW i \in Ids
        PROVE  /\ BytesOf(i, D) <= SumOf(counter[n], borne[i])
               /\ \A m \in Names : borne[i] = {m} /\ emailToID[m] = i =>
                      BytesOf(i, D) = SumOf(counter[n], borne[i])
    <2> DEFINE E == {m \in Reported(n) : emailToID[m] = i}
    <2>1. E \in SUBSET Reported(n) /\ E \in SUBSET borne[i]
      BY DEF Reported, NamesAreBorne
    <2>2. {s \in D : s.user = i} = ReportOf(n, E)
      BY <1>1 DEF ReportOf, Report
    <2>3. BytesOf(i, D) = SumOf(counter[n], E)
      <3>1. Bytes(ReportOf(n, E)) = SumOf(counter[n], E)
        <4> HIDE DEF E
        <4> QED
          BY <2>1, ReportBytes
      <3>2. BytesOf(i, D) = Bytes(ReportOf(n, E))
        BY <2>2, Zenon DEF BytesOf
      <3> QED
        BY <3>1, <3>2
    <2>4. SumOf(counter[n], E) <= SumOf(counter[n], borne[i])
      <3> HIDE DEF E
      <3> QED
        BY <1>4, <2>1, UnreadSubset
    <2>5. ASSUME NEW m \in Names, borne[i] = {m}, emailToID[m] = i
          PROVE  BytesOf(i, D) = SumOf(counter[n], borne[i])
      <3>1. CASE counter[n][m] > 0
        <4>1. E = borne[i]
          BY <2>1, <2>5, <3>1, TrafficAssumption DEF Reported
        <4> QED
          BY <2>3, <4>1, Zenon
      <3>2. CASE ~(counter[n][m] > 0)
        <4>1. counter[n][m] = 0 /\ counter[n][m] \in Nat
          BY <1>4, <3>2
        <4>2. E = {}
          BY <2>1, <2>5, <3>2 DEF Reported
        <4>3. SumOf(counter[n], {m}) = 0
          BY <4>1, SumOne
        <4>4. SumOf(counter[n], borne[i]) = 0
          BY <2>5, <4>3, Zenon
        <4>5. SumOf(counter[n], E) = 0
          BY <4>2, SumEmpty, Zenon
        <4> QED
          BY <2>3, <4>4, <4>5
      <3> QED
        BY <3>1, <3>2
    <2> HIDE DEF D, E
    <2>6. BytesOf(i, D) <= SumOf(counter[n], borne[i])
      BY <2>3, <2>4, Zenon
    <2> QED
      BY <2>5, <2>6
  <1> QED
    BY <1>2, <1>3, <1>6, <1>7

(* What stands to the account of a user, and of all.                       *)
AllAccounted == SumOf(total, Ids) + Bytes(batch) + Unread(Names)

LEMMA AccountIs ==
  /\ \A i \in Ids : Accounted(i) = total[i] + BytesOf(i, batch) + UnreadIn(counter, borne[i])
  /\ \A i \in Ids : Accounted(i)' = total'[i] + BytesOf(i, batch') + UnreadIn(counter', borne'[i])
  /\ AllAccounted = SumOf(total, Ids) + Bytes(batch) + UnreadIn(counter, Names)
  /\ AllAccounted' = SumOf(total', Ids) + Bytes(batch') + UnreadIn(counter', Names)
  BY DEF Accounted, AllAccounted, Unread, UnreadIn

-----------------------------------------------------------------------------
(* Types, and what the steps do to the history.                            *)

LEMMA HappensType ==
  ASSUME TrafficTypeOK, NEW e \in Happenings, Happens(e)
  PROVE  /\ happened' \in [Happenings -> Nat] /\ happened'[e] = happened[e] + 1
         /\ \A f \in Happenings \ {e} : happened'[f] = happened[f]
  BY DEF TrafficTypeOK, Happens

(* Steps of users and nodes.                                               *)
Outside ==
    \/ \E i \in Ids, m \in Names : CreateUser(i, m) \/ RenameUser(i, m)
    \/ \E i \in Ids : DeleteUser(i)
    \/ \E n \in Nodes, i \in Ids : LearnUser(n, i) \/ Carry(n, i)
    \/ \E n \in Nodes : PushNode(n)

LEMMA NextIs == TrafficNext <=> PollAll \/ PurgeExpiredSamples \/ Crash \/ Outside
  BY DEF TrafficNext, Outside

LEMMA OutsideType == TrafficInv /\ Outside => TrafficTypeOK'
  <1> SUFFICES ASSUME TrafficInv, Outside PROVE TrafficTypeOK'
    OBVIOUS
  <1>0. TrafficTypeOK
    BY DEF TrafficInv
  <1>1. ASSUME NEW i \in Ids, NEW m \in Names, CreateUser(i, m) PROVE TrafficTypeOK'
    <2>1. happened' \in [Happenings -> Nat]
      BY <1>0, <1>1, HappensType DEF CreateUser, Happenings
    <2> QED
      BY <1>0, <1>1, <2>1 DEF TrafficTypeOK, CreateUser, servers, tables
  <1>2. ASSUME NEW i \in Ids, NEW m \in Names, RenameUser(i, m) PROVE TrafficTypeOK'
    <2>1. happened' \in [Happenings -> Nat]
      BY <1>0, <1>2, HappensType DEF RenameUser, Happenings
    <2> QED
      BY <1>0, <1>2, <2>1 DEF TrafficTypeOK, RenameUser, servers, tables
  <1>3. ASSUME NEW i \in Ids, DeleteUser(i) PROVE TrafficTypeOK'
    <2>1. happened' \in [Happenings -> Nat]
      BY <1>0, <1>3, HappensType DEF DeleteUser, Happenings
    <2> QED
      BY <1>0, <1>3, <2>1 DEF TrafficTypeOK, DeleteUser, servers, tables
  <1>4. ASSUME NEW n \in Nodes, NEW i \in Ids, LearnUser(n, i) PROVE TrafficTypeOK'
    BY <1>0, <1>4 DEF TrafficTypeOK, LearnUser, users, tables
  <1>5. ASSUME NEW n \in Nodes, NEW i \in Ids, Carry(n, i) PROVE TrafficTypeOK'
    <2>1. happened' \in [Happenings -> Nat]
      BY <1>0, <1>5, HappensType DEF Carry, Happenings
    <2>2. known[n][i] \in Names
      BY <1>0, <1>5 DEF TrafficTypeOK, Carry
    <2>3. counter' \in [Nodes -> [Names -> Nat]]
      BY <1>0, <1>5, <2>2 DEF TrafficTypeOK, Carry
    <2>4. carried' \in [Ids -> Nat]
      BY <1>0, <1>5 DEF TrafficTypeOK, Carry
    <2> QED
      BY <1>0, <1>5, <2>1, <2>3, <2>4 DEF TrafficTypeOK, Carry, users, tables
  <1>6. ASSUME NEW n \in Nodes, PushNode(n) PROVE TrafficTypeOK'
    <2> DEFINE e == IF SumOf(counter[n], Names) > 0 THEN "loss" ELSE "push"
    <2>1. e \in Happenings
      BY DEF Happenings
    <2>2. Happens(e)
      BY <1>6 DEF PushNode
    <2>3. happened' \in [Happenings -> Nat]
      <3> HIDE DEF e
      <3> QED
        BY <1>0, <2>1, <2>2, HappensType
    <2> QED
      BY <1>0, <1>6, <2>3 DEF TrafficTypeOK, PushNode, users, tables
  <1> QED
    BY <1>1, <1>2, <1>3, <1>4, <1>5, <1>6 DEF Outside

LEMMA PollType == TrafficInv /\ (PollAll \/ PurgeExpiredSamples \/ Crash) => TrafficTypeOK'
  <1> SUFFICES ASSUME TrafficInv, PollAll \/ PurgeExpiredSamples \/ Crash
               PROVE  TrafficTypeOK'
    OBVIOUS
  <1>0. /\ TrafficTypeOK /\ NamesAreBorne
        /\ IsFiniteSet(batch) /\ batch \in SUBSET Sample
        /\ NoMap \in [Names -> Ids \cup {NoUser}]
    BY DEF TrafficInv, CycleIsFresh, TrafficTypeOK, NoMap
  <1>1. CASE BeginPoll
    <2>1. happened' \in [Happenings -> Nat]
      BY <1>0, <1>1, HappensType DEF BeginPoll, Happenings
    <2>2. emailToID' \in [Names -> Ids \cup {NoUser}]
      BY <1>1 DEF BeginPoll
    <2> QED
      BY <1>0, <1>1, <2>1, <2>2 DEF TrafficTypeOK, BeginPoll, servers, tables, users
  <1>2. ASSUME NEW n \in Nodes, PollNode(n) PROVE TrafficTypeOK'
    <2>1. batch' \subseteq Sample
      BY <1>0, <1>2, DeltaBytes DEF PollNode
    <2> QED
      BY <1>0, <1>2, <2>1 DEF TrafficTypeOK, PollNode, tables, users
  <1>3. ASSUME NEW n \in Nodes, PollFails(n) PROVE TrafficTypeOK'
    <2>1. happened' \in [Happenings -> Nat]
      BY <1>0, <1>3, HappensType DEF PollFails, Happenings
    <2> QED
      BY <1>0, <1>3, <2>1 DEF TrafficTypeOK, PollFails, servers, tables, users
  <1>4. ASSUME NEW n \in Nodes, PollAnswerLost(n) PROVE TrafficTypeOK'
    <2>1. happened' \in [Happenings -> Nat]
      BY <1>0, <1>4, HappensType DEF PollAnswerLost, Happenings
    <2> QED
      BY <1>0, <1>4, <2>1 DEF TrafficTypeOK, PollAnswerLost, tables, users
  <1>5. CASE WriteCycle
    <2>1. total' \in [Ids -> Nat]
      BY <1>0, <1>5, BytesNat DEF TrafficTypeOK, WriteCycle
    <2> QED
      BY <1>0, <1>5, <2>1 DEF TrafficTypeOK, WriteCycle, Done, servers, users
  <1>6. CASE WriteFails
    <2>1. happened' \in [Happenings -> Nat]
      BY <1>0, <1>6, HappensType DEF WriteFails, Happenings
    <2> QED
      BY <1>0, <1>6, <2>1 DEF TrafficTypeOK, WriteFails, Done, servers, users, tables
  <1>7. CASE PurgeExpiredSamples
    BY <1>0, <1>7 DEF TrafficTypeOK, PurgeExpiredSamples, servers, users
  <1>8. CASE Crash
    <2>1. happened' \in [Happenings -> Nat]
      BY <1>0, <1>8, HappensType DEF Crash, Happenings
    <2> QED
      BY <1>0, <1>8, <2>1 DEF TrafficTypeOK, Crash, Done, servers, users, tables
  <1> QED
    BY <1>1, <1>2, <1>3, <1>4, <1>5, <1>6, <1>7, <1>8 DEF PollAll

LEMMA TypeStep == TrafficInv /\ [TrafficNext]_trafficVars => TrafficTypeOK'
  <1>1. TrafficInv /\ UNCHANGED trafficVars => TrafficTypeOK'
    BY DEF TrafficInv, TrafficTypeOK, trafficVars
  <1> QED
    BY <1>1, OutsideType, PollType, NextIs

(* A name once had stays had.                                              *)
LEMMA BorneGrows ==
  ASSUME TrafficTypeOK, [TrafficNext]_trafficVars, NEW i \in Ids
  PROVE  borne[i] \subseteq borne'[i]
  BY DEF TrafficTypeOK, TrafficNext, trafficVars, CreateUser, RenameUser, DeleteUser, LearnUser,
         Carry, PushNode, PollAll, BeginPoll, PollNode, PollFails, PollAnswerLost,
         WriteCycle, WriteFails, PurgeExpiredSamples, Crash, users

LEMMA UnsharedBefore ==
  ASSUME TrafficTypeOK, [TrafficNext]_trafficVars, NEW i \in Ids, Unshared(i)'
  PROVE  Unshared(i)
  <1>1. \A j \in Ids : borne[j] \subseteq borne'[j]
    BY BorneGrows
  <1>2. \A j \in Ids \ {i} : borne'[i] \cap borne'[j] = {}
    BY DEF Unshared
  <1> QED
    BY <1>1, <1>2 DEF Unshared

-----------------------------------------------------------------------------
(* Names.                                                                  *)

LEMMA NamesOutside == TrafficInv /\ Outside => NamesAreBorne'
  <1> SUFFICES ASSUME TrafficInv, Outside PROVE NamesAreBorne'
    OBVIOUS
  <1>0. TrafficTypeOK /\ NamesAreBorne
    BY DEF TrafficInv
  <1> USE <1>0 DEF NamesAreBorne, TrafficTypeOK
  <1>1. ASSUME NEW i \in Ids, NEW m \in Names, CreateUser(i, m) PROVE NamesAreBorne'
    <2>1. /\ user' = [user EXCEPT ![i] = m] /\ borne' = [borne EXCEPT ![i] = {m}]
          /\ borne[i] = {}
          /\ UNCHANGED <<known, counter, carried, emailToID>>
      BY <1>1 DEF CreateUser, servers
    <2>2. \A j \in Ids : borne[j] \subseteq borne'[j]
      BY <2>1
    <2>3. \A j \in Ids : user'[j] # NoName => user'[j] \in borne'[j]
      BY <2>1, <2>2
    <2>4. /\ \A n \in Nodes, j \in Ids : known'[n][j] # NoName => known'[n][j] \in borne'[j]
          /\ \A k \in Names : emailToID'[k] # NoUser => k \in borne'[emailToID'[k]]
          /\ \A n \in Nodes, k \in Names : counter'[n][k] > 0 => \E j \in Ids : k \in borne'[j]
      <3> HIDE DEF TrafficTypeOK
      <3>1. emailToID \in [Names -> Ids \cup {NoUser}]
        BY DEF TrafficTypeOK
      <3> QED
        BY <2>1, <2>2, <3>1
    <2>5. \A j \in Ids : borne'[j] = {} => carried'[j] = 0
      BY <2>1, <2>2
    <2> QED
      BY <2>1, <2>3, <2>4, <2>5
  <1>2. ASSUME NEW i \in Ids, NEW m \in Names, RenameUser(i, m) PROVE NamesAreBorne'
    <2>1. /\ user' = [user EXCEPT ![i] = m] /\ borne' = [borne EXCEPT ![i] = @ \cup {m}]
          /\ UNCHANGED <<known, counter, carried, emailToID>>
      BY <1>2 DEF RenameUser, servers
    <2>2. \A j \in Ids : borne[j] \subseteq borne'[j]
      BY <2>1
    <2>3. \A j \in Ids : user'[j] # NoName => user'[j] \in borne'[j]
      BY <2>1, <2>2
    <2>4. /\ \A n \in Nodes, j \in Ids : known'[n][j] # NoName => known'[n][j] \in borne'[j]
          /\ \A k \in Names : emailToID'[k] # NoUser => k \in borne'[emailToID'[k]]
          /\ \A n \in Nodes, k \in Names : counter'[n][k] > 0 => \E j \in Ids : k \in borne'[j]
      <3> HIDE DEF TrafficTypeOK
      <3>1. emailToID \in [Names -> Ids \cup {NoUser}]
        BY DEF TrafficTypeOK
      <3> QED
        BY <2>1, <2>2, <3>1
    <2>5. \A j \in Ids : borne'[j] = {} => carried'[j] = 0
      BY <2>1, <2>2
    <2> QED
      BY <2>1, <2>3, <2>4, <2>5
  <1>3. ASSUME NEW i \in Ids, DeleteUser(i) PROVE NamesAreBorne'
    BY <1>3 DEF DeleteUser, servers
  <1>4. ASSUME NEW n \in Nodes, NEW i \in Ids, LearnUser(n, i) PROVE NamesAreBorne'
    BY <1>4 DEF LearnUser, users
  <1>5. ASSUME NEW n \in Nodes, NEW i \in Ids, Carry(n, i) PROVE NamesAreBorne'
    <2>1. /\ known[n][i] \in Names /\ known[n][i] \in borne[i]
          /\ counter' = [counter EXCEPT ![n][known[n][i]] = @ + 1]
          /\ carried' = [carried EXCEPT ![i] = @ + 1]
          /\ UNCHANGED <<user, borne, known, emailToID>>
      BY <1>5 DEF Carry, users
    <2>2. \A k \in Nodes, m \in Names : counter'[k][m] > 0 => \E j \in Ids : m \in borne[j]
      BY <2>1
    <2>3. \A j \in Ids : borne[j] = {} => carried'[j] = 0
      BY <2>1
    <2> QED
      BY <2>1, <2>2, <2>3
  <1>6. ASSUME NEW n \in Nodes, PushNode(n) PROVE NamesAreBorne'
    <2>1. /\ known' = [known EXCEPT ![n] = user]
          /\ counter' = [counter EXCEPT ![n] = [m \in Names |-> 0]]
          /\ UNCHANGED <<user, borne, carried, emailToID>>
      BY <1>6 DEF PushNode, users
    <2>2. \A k \in Nodes, m \in Names : counter'[k][m] > 0 => counter[k][m] > 0
      BY <2>1
    <2>3. \A k \in Nodes, i \in Ids : known'[k][i] # NoName => known'[k][i] \in borne[i]
      BY <2>1
    <2> HIDE DEF TrafficTypeOK
    <2> QED
      BY <2>1, <2>2, <2>3
  <1> HIDE DEF NamesAreBorne
  <1> QED
    BY <1>1, <1>2, <1>3, <1>4, <1>5, <1>6 DEF Outside

LEMMA NamesPoll == TrafficInv /\ (PollAll \/ PurgeExpiredSamples \/ Crash) => NamesAreBorne'
  <1> SUFFICES ASSUME TrafficInv, PollAll \/ PurgeExpiredSamples \/ Crash
               PROVE  NamesAreBorne'
    OBVIOUS
  <1>0. TrafficTypeOK /\ NamesAreBorne
    BY DEF TrafficInv
  <1>a. ASSUME UNCHANGED <<user, known, carried, borne>>, emailToID' \in {emailToID, NoMap},
               \A k \in Nodes, m \in Names : counter'[k][m] > 0 => counter[k][m] > 0
        PROVE  NamesAreBorne'
    BY <1>0, <1>a DEF NamesAreBorne, NoMap
  <1>1. CASE BeginPoll
    <2>1. /\ UNCHANGED <<user, known, counter, carried, borne>>
          /\ emailToID' = [m \in Names |-> IF \E i \in Ids : user[i] = m
                                            THEN CHOOSE i \in Ids : user[i] = m
                                            ELSE NoUser]
      BY <1>1 DEF BeginPoll, users, servers
    <2>2. \A m \in Names : emailToID'[m] # NoUser => emailToID'[m] \in Ids /\ user[emailToID'[m]] = m
      BY <2>1
    <2>3. \A m \in Names : emailToID'[m] # NoUser => m \in borne[emailToID'[m]]
      BY <1>0, <2>2, TrafficAssumption DEF NamesAreBorne
    <2>4. \A m, k \in Names : emailToID'[m] = emailToID'[k] /\ m # k => emailToID'[m] = NoUser
      BY <2>2
    <2> QED
      BY <1>0, <2>1, <2>3, <2>4 DEF NamesAreBorne
  <1>2. ASSUME NEW n \in Nodes, PollNode(n) \/ PollFails(n) \/ PollAnswerLost(n)
        PROVE  NamesAreBorne'
    <2>1. /\ UNCHANGED <<user, known, carried, borne, emailToID>>
          /\ counter' \in {counter, [counter EXCEPT ![n] = [m \in Names |-> 0]]}
      BY <1>2 DEF PollNode, PollFails, PollAnswerLost, users, servers
    <2>2. counter \in [Nodes -> [Names -> Nat]]
      BY <1>0 DEF TrafficTypeOK
    <2>3. \A k \in Nodes, m \in Names : counter'[k][m] = counter[k][m] \/ counter'[k][m] = 0
      BY <2>1, <2>2
    <2>4. \A k \in Nodes, m \in Names : counter'[k][m] > 0 => counter[k][m] > 0
      BY <2>3
    <2> QED
      BY <1>a, <2>1, <2>4
  <1>3. CASE WriteCycle \/ WriteFails \/ PurgeExpiredSamples \/ Crash
    BY <1>a, <1>3 DEF WriteCycle, WriteFails, PurgeExpiredSamples, Crash, Done, users, servers
  <1> QED
    BY <1>1, <1>2, <1>3 DEF PollAll

LEMMA NamesStep == TrafficInv /\ [TrafficNext]_trafficVars => NamesAreBorne'
  <1>1. TrafficInv /\ UNCHANGED trafficVars => NamesAreBorne'
    BY DEF TrafficInv, NamesAreBorne, trafficVars
  <1> QED
    BY <1>1, NamesOutside, NamesPoll, NextIs

-----------------------------------------------------------------------------
(* The cycle, the steady users and the samples.                            *)

LEMMA FreshStep == TrafficInv /\ [TrafficNext]_trafficVars => CycleIsFresh'
  <1> SUFFICES ASSUME TrafficInv, [TrafficNext]_trafficVars PROVE CycleIsFresh'
    OBVIOUS
  <1>0. TrafficTypeOK /\ NamesAreBorne /\ CycleIsFresh /\ "poll" \in Happenings
    BY DEF TrafficInv, Happenings
  <1>a. ASSUME NEW e \in Happenings \ {"poll"}, Happens(e)
        PROVE  happened'["poll"] = happened["poll"]
    BY <1>0, <1>a, HappensType
  <1>b. ASSUME UNCHANGED <<samples, pc, emailToID, asked, batch>>,
               happened'["poll"] = happened["poll"]
        PROVE  CycleIsFresh'
    BY <1>0, <1>b DEF CycleIsFresh
  <1>c. ASSUME Done(pc'), pc' # "ask", happened'["poll"] = happened["poll"],
               samples' \subseteq samples \cup batch, IsFiniteSet(samples')
        PROVE  CycleIsFresh'
    <2>1. \A s \in samples' : s.period <= happened'["poll"]
      <3>1. \A s \in batch : s.period = happened["poll"]
        BY <1>0 DEF CycleIsFresh
      <3>2. \A s \in samples : s.period <= happened["poll"]
        BY <1>0 DEF CycleIsFresh
      <3>3. happened["poll"] \in Nat
        BY <1>0 DEF TrafficTypeOK
      <3> QED
        BY <1>c, <3>1, <3>2, <3>3
    <2>2. emailToID' = NoMap /\ asked' = {} /\ batch' = {}
      BY <1>c DEF Done
    <2> QED
      BY <1>c, <2>1, <2>2, FS_EmptySet DEF CycleIsFresh, NoMap
  <1>d. IsFiniteSet(samples) /\ IsFiniteSet(batch) /\ IsFiniteSet(samples \cup batch)
    BY <1>0, FS_Union DEF CycleIsFresh
  <1>1. CASE UNCHANGED trafficVars
    BY <1>1, <1>b DEF trafficVars
  <1>2. ASSUME NEW i \in Ids, NEW m \in Names, CreateUser(i, m) \/ RenameUser(i, m)
        PROVE  CycleIsFresh'
    BY <1>2, <1>a, <1>b DEF CreateUser, RenameUser, tables, Happenings
  <1>3. ASSUME NEW i \in Ids, DeleteUser(i) PROVE CycleIsFresh'
    BY <1>3, <1>a, <1>b DEF DeleteUser, tables, Happenings
  <1>4. ASSUME NEW n \in Nodes, NEW i \in Ids, LearnUser(n, i) \/ Carry(n, i)
        PROVE  CycleIsFresh'
    BY <1>4, <1>a, <1>b DEF LearnUser, Carry, tables, Happenings
  <1>5. ASSUME NEW n \in Nodes, PushNode(n) PROVE CycleIsFresh'
    <2> DEFINE e == IF SumOf(counter[n], Names) > 0 THEN "loss" ELSE "push"
    <2>1. e \in Happenings \ {"poll"} /\ Happens(e)
      BY <1>5 DEF PushNode, Happenings
    <2>2. happened'["poll"] = happened["poll"]
      <3> HIDE DEF e
      <3> QED
        BY <2>1, <1>a
    <2> QED
      BY <1>5, <2>2, <1>b DEF PushNode, tables
  <1>6. CASE BeginPoll
    <2>1. /\ happened'["poll"] = happened["poll"] + 1 /\ happened["poll"] \in Nat
          /\ pc = "idle" /\ pc' = "ask" /\ samples' = samples /\ batch' = batch /\ batch = {}
      BY <1>0, <1>6, HappensType DEF BeginPoll, TrafficTypeOK, CycleIsFresh, tables
    <2>2. \A s \in samples : s.period <= happened["poll"] /\ s.period \in Nat
      BY <1>0 DEF CycleIsFresh, TrafficTypeOK, Sample
    <2>3. \A s \in samples' : s.period < happened'["poll"] /\ s.period <= happened'["poll"]
      BY <2>1, <2>2
    <2> QED
      BY <1>d, <2>1, <2>3 DEF CycleIsFresh
  <1>7. ASSUME NEW n \in Nodes, PollNode(n) PROVE CycleIsFresh'
    <2> DEFINE D == PollUserTrafficDelta(n)
    <2>1. /\ batch' = batch \cup D /\ asked' = asked \ {n}
          /\ pc = "ask" /\ UNCHANGED <<pc, samples, happened, emailToID>>
      BY <1>7 DEF PollNode, tables
    <2>2. IsFiniteSet(D) /\ \A s \in D : s.node = n /\ s.period = happened["poll"]
      BY <1>0, DeltaBytes
    <2> HIDE DEF D
    <2>3. IsFiniteSet(batch')
      BY <1>d, <2>1, <2>2, FS_Union
    <2> QED
      BY <1>0, <2>1, <2>2, <2>3 DEF CycleIsFresh
  <1>8. ASSUME NEW n \in Nodes, PollFails(n) \/ PollAnswerLost(n) PROVE CycleIsFresh'
    <2>1. /\ asked' = asked \ {n} /\ pc = "ask" /\ UNCHANGED <<pc, samples, emailToID, batch>>
          /\ happened'["poll"] = happened["poll"]
      BY <1>8, <1>a DEF PollFails, PollAnswerLost, tables, Happenings
    <2> QED
      BY <1>0, <2>1 DEF CycleIsFresh
  <1>9. CASE WriteCycle
    <2>1. Done(pc') /\ pc' = "purge" /\ samples' = samples \cup batch /\ happened' = happened
      BY <1>9 DEF WriteCycle, Done
    <2> QED
      BY <1>c, <1>d, <2>1
  <1>10. CASE WriteFails \/ Crash
    <2>1. /\ Done(pc') /\ pc' # "ask" /\ samples' = samples
          /\ happened'["poll"] = happened["poll"]
      BY <1>10, <1>a DEF WriteFails, Crash, Done, tables, Happenings
    <2> QED
      BY <1>c, <1>d, <2>1
  <1>11. CASE PurgeExpiredSamples
    <2>1. /\ samples' \subseteq samples /\ pc = "purge" /\ pc' = "idle"
          /\ UNCHANGED <<emailToID, asked, batch, happened>>
      BY <1>11 DEF PurgeExpiredSamples
    <2>2. IsFiniteSet(samples')
      BY <1>d, <2>1, FS_Subset
    <2> QED
      BY <1>0, <2>1, <2>2 DEF CycleIsFresh
  <1> QED
    BY <1>1, <1>2, <1>3, <1>4, <1>5, <1>6, <1>7, <1>8, <1>9, <1>10, <1>11
    DEF TrafficNext, PollAll

LEMMA SteadyStep == TrafficInv /\ [TrafficNext]_trafficVars => SteadyHaveOneName'
  <1> SUFFICES ASSUME TrafficInv, [TrafficNext]_trafficVars PROVE SteadyHaveOneName'
    OBVIOUS
  <1>0. TrafficTypeOK /\ SteadyHaveOneName
    BY DEF TrafficInv
  <1> USE <1>0 DEF SteadyHaveOneName
  <1>1. CASE UNCHANGED trafficVars
    BY <1>1 DEF trafficVars
  <1>2. ASSUME NEW i \in Ids, NEW m \in Names, CreateUser(i, m) PROVE SteadyHaveOneName'
    <2>1. /\ user' = [user EXCEPT ![i] = m] /\ borne' = [borne EXCEPT ![i] = {m}]
          /\ steady' = (IF pc = "idle" THEN steady \cup {i} ELSE steady)
          /\ borne[i] = {} /\ UNCHANGED <<pc, emailToID>>
      BY <1>2 DEF CreateUser
    <2>2. i \notin steady
      BY <2>1
    <2>3. user \in [Ids -> Names \cup {NoName}] /\ borne \in [Ids -> SUBSET Names]
          /\ steady \subseteq Ids
      BY DEF TrafficTypeOK
    <2>4. \A j \in steady : user'[j] = user[j] /\ borne'[j] = borne[j]
      BY <2>1, <2>2, <2>3
    <2>5. user'[i] = m /\ borne'[i] = {m} /\ m # NoName
      BY <2>1, <2>3, TrafficAssumption
    <2> QED
      BY <2>1, <2>4, <2>5
  <1>3. ASSUME NEW i \in Ids, NEW m \in Names, RenameUser(i, m) PROVE SteadyHaveOneName'
    BY <1>3 DEF RenameUser, TrafficTypeOK
  <1>4. ASSUME NEW i \in Ids, DeleteUser(i) PROVE SteadyHaveOneName'
    BY <1>4 DEF DeleteUser, TrafficTypeOK
  <1>5. CASE BeginPoll
    <2>1. /\ UNCHANGED <<user, borne, steady>>
          /\ emailToID' = [m \in Names |-> IF \E i \in Ids : user[i] = m
                                            THEN CHOOSE i \in Ids : user[i] = m
                                            ELSE NoUser]
      BY <1>5 DEF BeginPoll, users
    <2>2. \A i \in steady : i \in Ids /\ user[i] \in Names
      BY DEF TrafficTypeOK
    <2>3. \A i \in steady : emailToID'[user[i]] \in Ids
      BY <2>1, <2>2
    <2> QED
      BY <2>1, <2>3, TrafficAssumption
  <1>6. CASE \/ \E n \in Nodes, i \in Ids : LearnUser(n, i) \/ Carry(n, i)
             \/ \E n \in Nodes : PushNode(n) \/ PollNode(n) \/ PollFails(n) \/ PollAnswerLost(n)
    BY <1>6 DEF LearnUser, Carry, PushNode, PollNode, PollFails, PollAnswerLost, users
  <1>7. CASE WriteCycle \/ WriteFails \/ PurgeExpiredSamples \/ Crash
    BY <1>7 DEF WriteCycle, WriteFails, PurgeExpiredSamples, Crash, Done, users
  <1> HIDE DEF SteadyHaveOneName
  <1> QED
    BY <1>1, <1>2, <1>3, <1>4, <1>5, <1>6, <1>7 DEF TrafficNext, PollAll

LEMMA SamplesStep == TrafficInv /\ [TrafficNext]_trafficVars => SamplesAddUp'
  <1> SUFFICES ASSUME TrafficInv, [TrafficNext]_trafficVars, NEW i \in Ids
               PROVE  /\ BytesOf(i, samples') <= total'[i]
                      /\ purged' \/ BytesOf(i, samples') = total'[i]
    BY DEF SamplesAddUp
  <1>0. /\ TrafficTypeOK /\ CycleIsFresh /\ SamplesAddUp
        /\ samples \in SUBSET Sample /\ batch \in SUBSET Sample
        /\ IsFiniteSet(samples) /\ IsFiniteSet(batch)
        /\ total[i] \in Nat /\ BytesOf(i, samples) \in Nat /\ BytesOf(i, batch) \in Nat
    <2>1. /\ TrafficTypeOK /\ CycleIsFresh /\ SamplesAddUp
          /\ samples \in SUBSET Sample /\ batch \in SUBSET Sample
          /\ IsFiniteSet(samples) /\ IsFiniteSet(batch) /\ total[i] \in Nat
      BY DEF TrafficInv, TrafficTypeOK, CycleIsFresh
    <2> QED
      BY <2>1, BytesNat
  <1>1. /\ BytesOf(i, samples) <= total[i]
        /\ purged \/ BytesOf(i, samples) = total[i]
    BY <1>0 DEF SamplesAddUp
  <1>2. CASE UNCHANGED <<samples, total, purged>>
    BY <1>1, <1>2
  <1>3. CASE WriteCycle
    <2>1. /\ samples' = samples \cup batch /\ total'[i] = total[i] + BytesOf(i, batch)
          /\ purged' = purged /\ pc = "ask"
      BY <1>0, <1>3 DEF WriteCycle
    <2>2. samples \cap batch = {}
      <3>1. /\ \A s \in samples : s.period < happened["poll"]
            /\ \A s \in batch : s.period = happened["poll"]
        BY <1>0, <2>1 DEF CycleIsFresh
      <3>2. happened["poll"] \in Nat
        BY <1>0 DEF TrafficTypeOK, Happenings
      <3>3. \A s \in samples : s \notin batch
        BY <3>1, <3>2
      <3> QED
        BY <3>3
    <2>3. BytesOf(i, samples \cup batch) = BytesOf(i, samples) + BytesOf(i, batch)
      BY <1>0, <2>2, BytesUnion
    <2>4. BytesOf(i, samples') = BytesOf(i, samples) + BytesOf(i, batch)
      BY <2>1, <2>3, Zenon
    <2> QED
      BY <1>0, <1>1, <2>1, <2>4
  <1>4. CASE PurgeExpiredSamples
    <2>1. /\ samples' \in SUBSET samples /\ total' = total
          /\ purged' = (purged \/ samples' # samples)
      BY <1>4 DEF PurgeExpiredSamples
    <2>2. BytesOf(i, samples') <= BytesOf(i, samples)
      BY <1>0, <2>1, BytesSubset
    <2>3. BytesOf(i, samples') \in Nat
      <3>1. samples' \in SUBSET Sample /\ IsFiniteSet(samples')
        BY <1>0, <2>1, FS_Subset
      <3> QED
        BY <3>1, BytesNat
    <2>4. CASE samples' = samples
      BY <1>1, <2>1, <2>4
    <2>5. CASE samples' # samples
      <3>1. purged'
        BY <2>1, <2>5, Zenon
      <3>2. BytesOf(i, samples') <= total[i]
        BY <1>0, <1>1, <2>2, <2>3
      <3> QED
        BY <2>1, <3>1, <3>2
    <2> QED
      BY <2>4, <2>5
  <1>5. WriteCycle \/ PurgeExpiredSamples \/ UNCHANGED <<samples, total, purged>>
    BY DEF TrafficNext, trafficVars, CreateUser, RenameUser, DeleteUser, LearnUser, Carry,
           PushNode, PollAll, BeginPoll, PollNode, PollFails, PollAnswerLost, WriteFails,
           Crash, tables
  <1> QED
    BY <1>2, <1>3, <1>4, <1>5

-----------------------------------------------------------------------------
(* The ledger: no step adds more to an account than its user used.         *)

LEMMA AccountsNat ==
  ASSUME TrafficTypeOK, IsFiniteSet(batch)
  PROVE  /\ \A i \in Ids : /\ total[i] \in Nat /\ carried[i] \in Nat
                           /\ BytesOf(i, batch) \in Nat /\ borne[i] \in SUBSET Names
                           /\ UnreadIn(counter, borne[i]) \in Nat /\ Accounted(i) \in Nat
         /\ SumOf(total, Ids) \in Nat /\ Bytes(batch) \in Nat
         /\ UnreadIn(counter, Names) \in Nat /\ AllAccounted \in Nat
         /\ SumOf(carried, Ids) \in Nat
         /\ NatOn(total, Ids) /\ NatOn(carried, Ids)
  <1>1. /\ total \in [Ids -> Nat] /\ carried \in [Ids -> Nat] /\ batch \in SUBSET Sample
        /\ borne \in [Ids -> SUBSET Names] /\ counter \in [Nodes -> [Names -> Nat]]
    BY DEF TrafficTypeOK
  <1>2. Bytes(batch) \in Nat /\ \A i \in Ids : BytesOf(i, batch) \in Nat
    BY <1>1, BytesNat
  <1>3. UnreadIn(counter, Names) \in Nat /\ \A i \in Ids : UnreadIn(counter, borne[i]) \in Nat
    BY <1>1, CountersNat
  <1>4. NatOn(total, Ids) /\ NatOn(carried, Ids)
    BY <1>1 DEF NatOn
  <1>5. SumOf(total, Ids) \in Nat /\ SumOf(carried, Ids) \in Nat
    BY <1>4, Finite, SumNat
  <1>6. AllAccounted \in Nat
    BY <1>2, <1>3, <1>5, AccountIs
  <1>7. \A i \in Ids : Accounted(i) \in Nat
    BY <1>1, <1>2, <1>3, AccountIs
  <1> QED
    BY <1>1, <1>2, <1>3, <1>4, <1>5, <1>6, <1>7

(* The same of the next state.                                             *)
LEMMA NextAccountsNat ==
  ASSUME TrafficTypeOK', IsFiniteSet(batch')
  PROVE  /\ \A i \in Ids : /\ total'[i] \in Nat /\ carried'[i] \in Nat
                           /\ BytesOf(i, batch') \in Nat
                           /\ UnreadIn(counter', borne'[i]) \in Nat /\ Accounted(i)' \in Nat
         /\ AllAccounted' \in Nat /\ SumOf(carried', Ids) \in Nat
  <1>1. /\ total' \in [Ids -> Nat] /\ carried' \in [Ids -> Nat] /\ batch' \in SUBSET Sample
        /\ borne' \in [Ids -> SUBSET Names] /\ counter' \in [Nodes -> [Names -> Nat]]
    BY DEF TrafficTypeOK
  <1>2. Bytes(batch') \in Nat /\ \A i \in Ids : BytesOf(i, batch') \in Nat
    BY <1>1, BytesNat
  <1>3. UnreadIn(counter', Names) \in Nat /\ \A i \in Ids : UnreadIn(counter', borne'[i]) \in Nat
    BY <1>1, CountersNat
  <1>4. NatOn(total', Ids) /\ NatOn(carried', Ids)
    BY <1>1 DEF NatOn
  <1>5. SumOf(total', Ids) \in Nat /\ SumOf(carried', Ids) \in Nat
    BY <1>4, Finite, SumNat
  <1>6. AllAccounted' \in Nat
    BY <1>2, <1>3, <1>5, AccountIs
  <1>7. \A i \in Ids : Accounted(i)' \in Nat
    BY <1>1, <1>2, <1>3, AccountIs
  <1> QED
    BY <1>1, <1>2, <1>3, <1>5, <1>6, <1>7

(* What a step does to the account of i, to the accounts of the steady     *)
(* users, and to all of them.                                              *)
NoOvercount(i) == Unshared(i)' => Accounted(i)' + carried[i] <= Accounted(i) + carried'[i]

NoLoss(i) == Unshared(i)' /\ happened'["loss"] = 0 =>
                 Accounted(i)' + carried[i] = Accounted(i) + carried'[i]

Ledger == /\ \A i \in Ids : NoOvercount(i)
          /\ \A i \in steady : NoLoss(i)
          /\ AllAccounted' + SumOf(carried, Ids) <= AllAccounted + SumOf(carried', Ids)

(* A loss shows, and for ever.                                             *)
LEMMA LossShows ==
  ASSUME TrafficTypeOK, Happens("loss")
  PROVE  happened'["loss"] # 0
  BY HappensType DEF Happenings, TrafficTypeOK

LEMMA LossNeverForgotten ==
  ASSUME TrafficTypeOK, [TrafficNext]_trafficVars
  PROVE  happened'["loss"] >= happened["loss"] /\ happened["loss"] \in Nat
  <1>1. happened["loss"] \in Nat
    BY DEF TrafficTypeOK, Happenings
  <1>2. ASSUME NEW e \in Happenings, Happens(e) PROVE happened'["loss"] >= happened["loss"]
    BY <1>1, <1>2, HappensType DEF Happenings
  <1>3. CASE happened' = happened
    BY <1>1, <1>3
  <1>4. happened' = happened \/ \E e \in Happenings : Happens(e)
    BY DEF TrafficNext, trafficVars, CreateUser, RenameUser, DeleteUser, LearnUser, Carry,
           PushNode, PollAll, BeginPoll, PollNode, PollFails, PollAnswerLost, WriteCycle,
           WriteFails, PurgeExpiredSamples, Crash, Happenings
  <1> QED
    BY <1>1, <1>2, <1>3, <1>4

LEMMA LedgerSame ==
  ASSUME TrafficInv, UNCHANGED <<total, batch, counter, carried, borne>>
  PROVE  Ledger
  <1>1. /\ TrafficTypeOK /\ IsFiniteSet(batch) /\ steady \subseteq Ids
    BY DEF TrafficInv, CycleIsFresh, TrafficTypeOK
  <1>2. AllAccounted' = AllAccounted /\ \A i \in Ids : Accounted(i)' = Accounted(i)
    BY AccountIs
  <1>3. AllAccounted \in Nat /\ SumOf(carried, Ids) \in Nat
        /\ \A i \in Ids : Accounted(i) \in Nat /\ carried[i] \in Nat
    BY <1>1, AccountsNat
  <1>4. carried' = carried
    OBVIOUS
  <1> QED
    BY <1>1, <1>2, <1>3, <1>4 DEF Ledger, NoOvercount, NoLoss

(* A user gets a name.                                                     *)
LEMMA LedgerNaming ==
  ASSUME TrafficInv, NEW i \in Ids, NEW m \in Names,
         borne' = [borne EXCEPT ![i] = @ \cup {m}],
         UNCHANGED <<total, batch, counter, carried>>
  PROVE  /\ Ledger
         /\ \A j \in Ids : Unshared(j)' => Accounted(j)' = Accounted(j)
  <1>1. /\ TrafficTypeOK /\ NamesAreBorne /\ IsFiniteSet(batch) /\ steady \subseteq Ids
        /\ borne \in [Ids -> SUBSET Names] /\ counter \in [Nodes -> [Names -> Nat]]
    BY DEF TrafficInv, CycleIsFresh, TrafficTypeOK
  <1>2. ASSUME NEW j \in Ids, Unshared(j)' PROVE Accounted(j)' = Accounted(j)
    <2>1. CASE borne'[j] = borne[j]
      BY <2>1, AccountIs
    <2>2. CASE borne'[j] # borne[j]
      <3>1. j = i /\ borne'[j] = borne[j] \cup {m} /\ m \notin borne[j]
        BY <1>1, <2>2
      <3>2. \A k \in Ids \ {j} : m \notin borne'[k]
        BY <1>2, <3>1 DEF Unshared
      <3>3. \A k \in Ids : m \notin borne[k]
        BY <1>1, <3>1, <3>2
      <3>4. \A n \in Nodes : counter[n][m] = 0
        <4>1. \A n \in Nodes : counter[n][m] \in Nat /\ ~(counter[n][m] > 0)
          BY <1>1, <3>3 DEF NamesAreBorne
        <4> QED
          BY <4>1
      <3>5. UnreadIn(counter, borne[j] \cup {m}) = UnreadIn(counter, borne[j])
        BY <1>1, <3>4, UnreadSilent
      <3>6. UnreadIn(counter', borne'[j]) = UnreadIn(counter, borne[j])
        BY <3>1, <3>5, Zenon
      <3> QED
        BY <3>6, AccountIs
    <2> QED
      BY <2>1, <2>2
  <1>3. AllAccounted' = AllAccounted
    BY AccountIs
  <1>4. AllAccounted \in Nat /\ SumOf(carried, Ids) \in Nat
        /\ \A j \in Ids : Accounted(j) \in Nat /\ carried[j] \in Nat
    BY <1>1, AccountsNat
  <1>5. carried' = carried
    OBVIOUS
  <1> QED
    BY <1>1, <1>2, <1>3, <1>4, <1>5 DEF Ledger, NoOvercount, NoLoss

(* What one node has counted is lost.                                      *)
LEMMA LedgerReset ==
  ASSUME TrafficInv, NEW n \in Nodes, counter' = [counter EXCEPT ![n] = Zeroes],
         happened'["loss"] # 0,
         UNCHANGED <<total, batch, carried, borne>>
  PROVE  Ledger
  <1>1. /\ TrafficTypeOK /\ IsFiniteSet(batch) /\ steady \subseteq Ids
        /\ borne \in [Ids -> SUBSET Names] /\ counter \in [Nodes -> [Names -> Nat]]
    BY DEF TrafficInv, CycleIsFresh, TrafficTypeOK
  <1>2. ASSUME NEW S \in SUBSET Names
        PROVE  /\ UnreadIn(counter', S) <= UnreadIn(counter, S)
               /\ UnreadIn(counter', S) \in Nat /\ UnreadIn(counter, S) \in Nat
    <2>1. /\ counter' \in [Nodes -> [Names -> Nat]]
          /\ UnreadIn(counter', S) + SumOf(counter[n], S) = UnreadIn(counter, S)
      BY <1>1, UnreadReset
    <2>2. UnreadIn(counter', S) \in Nat /\ UnreadIn(counter, S) \in Nat
          /\ SumOf(counter[n], S) \in Nat
      BY <1>1, <2>1, CountersNat
    <2> QED
      BY <2>1, <2>2
  <1>3. /\ AllAccounted \in Nat /\ SumOf(carried, Ids) \in Nat
        /\ SumOf(total, Ids) \in Nat /\ Bytes(batch) \in Nat
        /\ \A i \in Ids : /\ Accounted(i) \in Nat /\ carried[i] \in Nat
                          /\ total[i] \in Nat /\ BytesOf(i, batch) \in Nat
    BY <1>1, AccountsNat
  <1>4. ASSUME NEW i \in Ids PROVE NoOvercount(i)
    <2>1. /\ Accounted(i) = total[i] + BytesOf(i, batch) + UnreadIn(counter, borne[i])
          /\ Accounted(i)' = total[i] + BytesOf(i, batch) + UnreadIn(counter', borne[i])
      BY AccountIs
    <2>2. borne[i] \in SUBSET Names /\ carried'[i] = carried[i]
      BY <1>1
    <2>3. /\ UnreadIn(counter', borne[i]) <= UnreadIn(counter, borne[i])
          /\ UnreadIn(counter', borne[i]) \in Nat /\ UnreadIn(counter, borne[i]) \in Nat
      BY <1>2, <2>2
    <2>4. Accounted(i)' <= Accounted(i) /\ Accounted(i)' \in Nat
      BY <1>3, <2>1, <2>3
    <2> QED
      BY <1>3, <2>2, <2>4 DEF NoOvercount
  <1>5. AllAccounted' + SumOf(carried, Ids) <= AllAccounted + SumOf(carried', Ids)
    <2>1. /\ AllAccounted = SumOf(total, Ids) + Bytes(batch) + UnreadIn(counter, Names)
          /\ AllAccounted' = SumOf(total, Ids) + Bytes(batch) + UnreadIn(counter', Names)
          /\ SumOf(carried', Ids) = SumOf(carried, Ids)
      BY AccountIs
    <2>2. /\ UnreadIn(counter', Names) <= UnreadIn(counter, Names)
          /\ UnreadIn(counter', Names) \in Nat /\ UnreadIn(counter, Names) \in Nat
      BY <1>2
    <2>3. AllAccounted' <= AllAccounted /\ AllAccounted' \in Nat
      BY <1>3, <2>1, <2>2
    <2> QED
      BY <1>3, <2>1, <2>3
  <1> QED
    BY <1>1, <1>4, <1>5 DEF Ledger, NoLoss

(* A user uses a byte.                                                     *)
LEMMA LedgerCarry ==
  ASSUME TrafficInv, NEW n \in Nodes, NEW i \in Ids, Carry(n, i)
  PROVE  Ledger
  <1> DEFINE m == known[n][i]
  <1>1. /\ TrafficTypeOK /\ NamesAreBorne /\ IsFiniteSet(batch) /\ steady \subseteq Ids
        /\ borne \in [Ids -> SUBSET Names] /\ counter \in [Nodes -> [Names -> Nat]]
        /\ carried \in [Ids -> Nat]
    BY DEF TrafficInv, CycleIsFresh, TrafficTypeOK
  <1>2. /\ m \in Names /\ m \in borne[i]
        /\ counter' = [counter EXCEPT ![n][m] = @ + 1]
        /\ carried' = [carried EXCEPT ![i] = @ + 1]
        /\ UNCHANGED <<total, batch, borne>>
    BY <1>1 DEF Carry, NamesAreBorne, TrafficTypeOK, users, tables
  <1> HIDE DEF m
  <1>a. CountsOne(counter, counter', n, m)
    BY <1>1, <1>2 DEF CountsOne
  <1>3. ASSUME NEW S \in SUBSET Names
        PROVE  /\ m \in S => UnreadIn(counter', S) = UnreadIn(counter, S) + 1
               /\ m \notin S => UnreadIn(counter', S) = UnreadIn(counter, S)
               /\ UnreadIn(counter, S) \in Nat
    <2>1. /\ m \in S => UnreadIn(counter', S) = UnreadIn(counter, S) + 1
          /\ m \notin S => UnreadIn(counter', S) = UnreadIn(counter, S)
      BY <1>2, <1>a, UnreadCarry
    <2> QED
      BY <1>1, <2>1, CountersNat
  <1>4. /\ AllAccounted \in Nat /\ SumOf(carried, Ids) \in Nat
        /\ SumOf(total, Ids) \in Nat /\ Bytes(batch) \in Nat /\ NatOn(carried, Ids)
        /\ \A j \in Ids : /\ Accounted(j) \in Nat /\ carried[j] \in Nat
                          /\ total[j] \in Nat /\ BytesOf(j, batch) \in Nat
    BY <1>1, AccountsNat
  <1>5. ASSUME NEW j \in Ids, Unshared(j)'
        PROVE  Accounted(j)' + carried[j] = Accounted(j) + carried'[j]
    <2>1. /\ Accounted(j) = total[j] + BytesOf(j, batch) + UnreadIn(counter, borne[j])
          /\ Accounted(j)' = total[j] + BytesOf(j, batch) + UnreadIn(counter', borne[j])
      BY <1>2, AccountIs
    <2>2. /\ m \in borne[j] => UnreadIn(counter', borne[j]) = UnreadIn(counter, borne[j]) + 1
          /\ m \notin borne[j] => UnreadIn(counter', borne[j]) = UnreadIn(counter, borne[j])
          /\ UnreadIn(counter, borne[j]) \in Nat
      BY <1>1, <1>3
    <2>3. CASE j = i
      <3>1. m \in borne[j] /\ carried'[j] = carried[j] + 1
        BY <1>1, <1>2, <2>3
      <3>2. UnreadIn(counter', borne[j]) = UnreadIn(counter, borne[j]) + 1
        BY <2>2, <3>1
      <3> QED
        BY <1>4, <2>1, <2>2, <3>1, <3>2
    <2>4. CASE j # i
      <3>1. m \notin borne[j] /\ carried'[j] = carried[j]
        BY <1>1, <1>2, <1>5, <2>4 DEF Unshared
      <3>2. UnreadIn(counter', borne[j]) = UnreadIn(counter, borne[j])
        BY <2>2, <3>1
      <3> QED
        BY <1>4, <2>1, <2>2, <3>1, <3>2
    <2> QED
      BY <2>3, <2>4
  <1>6. AllAccounted' + SumOf(carried, Ids) <= AllAccounted + SumOf(carried', Ids)
    <2>1. /\ AllAccounted = SumOf(total, Ids) + Bytes(batch) + UnreadIn(counter, Names)
          /\ AllAccounted' = SumOf(total, Ids) + Bytes(batch) + UnreadIn(counter', Names)
      BY <1>2, AccountIs
    <2>2. UnreadIn(counter', Names) = UnreadIn(counter, Names) + 1
          /\ UnreadIn(counter, Names) \in Nat
      BY <1>2, <1>3
    <2>3. SumOf(carried', Ids) = SumOf(carried, Ids) + 1
      <3>1. /\ NatOn(carried', Ids) /\ \A j \in Ids \ {i} : carried[j] = carried'[j]
            /\ carried'[i] = carried[i] + 1
        BY <1>1, <1>2 DEF NatOn
      <3>2. SumOf(carried', Ids) + carried[i] = SumOf(carried, Ids) + carried'[i]
        BY <1>4, <3>1, Finite, SumChange
      <3>3. SumOf(carried', Ids) \in Nat
        BY <3>1, Finite, SumNat
      <3> QED
        BY <1>4, <3>1, <3>2, <3>3
    <2> QED
      BY <1>4, <2>1, <2>2, <2>3
  <1>7. \A j \in Ids : Unshared(j)' => Accounted(j)' + carried[j] <= Accounted(j) + carried'[j]
    <2>1. \A j \in Ids : Accounted(j) + carried'[j] \in Nat
      BY <1>1, <1>2, <1>4
    <2> QED
      BY <1>5, <2>1
  <1> QED
    BY <1>1, <1>5, <1>6, <1>7 DEF Ledger, NoOvercount, NoLoss

(* A node reports: its counts move to the batch.                           *)
LEMMA LedgerPoll ==
  ASSUME TrafficInv, NEW n \in Nodes, PollNode(n)
  PROVE  Ledger
  <1> DEFINE D == PollUserTrafficDelta(n)
  <1>1. /\ TrafficTypeOK /\ NamesAreBorne /\ CycleIsFresh /\ SteadyHaveOneName
        /\ IsFiniteSet(batch) /\ batch \in SUBSET Sample /\ steady \subseteq Ids
        /\ borne \in [Ids -> SUBSET Names] /\ counter \in [Nodes -> [Names -> Nat]]
    BY DEF TrafficInv, CycleIsFresh, TrafficTypeOK
  <1>2. /\ pc = "ask" /\ n \in asked /\ batch' = batch \cup D
        /\ counter' = [counter EXCEPT ![n] = Zeroes]
        /\ UNCHANGED <<total, borne, carried>>
    BY DEF PollNode, users, tables, Zeroes
  <1>3. /\ D \in SUBSET Sample /\ IsFiniteSet(D) /\ \A s \in D : s.node = n
        /\ Bytes(D) <= SumOf(counter[n], Names)
        /\ \A i \in Ids : BytesOf(i, D) <= SumOf(counter[n], borne[i])
        /\ \A i \in Ids, m \in Names : borne[i] = {m} /\ emailToID[m] = i =>
               BytesOf(i, D) = SumOf(counter[n], borne[i])
    BY <1>1, DeltaBytes
  <1> HIDE DEF D
  <1>4. batch \cap D = {}
    <2>1. \A s \in batch : s.node # n
      BY <1>1, <1>2 DEF CycleIsFresh
    <2> QED
      BY <1>3, <2>1
  <1>5. /\ Bytes(batch') = Bytes(batch) + Bytes(D)
        /\ \A i \in Ids : BytesOf(i, batch') = BytesOf(i, batch) + BytesOf(i, D)
    BY <1>1, <1>2, <1>3, <1>4, BytesUnion
  <1>6. Bytes(D) \in Nat /\ \A i \in Ids : BytesOf(i, D) \in Nat
    BY <1>3, BytesNat
  <1>7. ASSUME NEW S \in SUBSET Names
        PROVE  /\ UnreadIn(counter', S) + SumOf(counter[n], S) = UnreadIn(counter, S)
               /\ UnreadIn(counter', S) \in Nat /\ UnreadIn(counter, S) \in Nat
               /\ SumOf(counter[n], S) \in Nat
    <2>1. /\ counter' \in [Nodes -> [Names -> Nat]]
          /\ UnreadIn(counter', S) + SumOf(counter[n], S) = UnreadIn(counter, S)
      BY <1>1, <1>2, UnreadReset
    <2> QED
      BY <1>1, <2>1, CountersNat
  <1>8. /\ AllAccounted \in Nat /\ SumOf(carried, Ids) \in Nat
        /\ SumOf(total, Ids) \in Nat /\ Bytes(batch) \in Nat
        /\ \A i \in Ids : /\ Accounted(i) \in Nat /\ carried[i] \in Nat
                          /\ total[i] \in Nat /\ BytesOf(i, batch) \in Nat
    BY <1>1, AccountsNat
  <1>9. ASSUME NEW i \in Ids
        PROVE  /\ Accounted(i)' <= Accounted(i)
               /\ BytesOf(i, D) = SumOf(counter[n], borne[i]) => Accounted(i)' = Accounted(i)
               /\ Accounted(i)' \in Nat
    <2>1. /\ Accounted(i) = total[i] + BytesOf(i, batch) + UnreadIn(counter, borne[i])
          /\ Accounted(i)' = total[i] + BytesOf(i, batch') + UnreadIn(counter', borne[i])
      BY <1>2, AccountIs
    <2>2. /\ UnreadIn(counter', borne[i]) + SumOf(counter[n], borne[i])
               = UnreadIn(counter, borne[i])
          /\ UnreadIn(counter', borne[i]) \in Nat /\ UnreadIn(counter, borne[i]) \in Nat
          /\ SumOf(counter[n], borne[i]) \in Nat
      BY <1>1, <1>7
    <2>3. /\ BytesOf(i, D) <= SumOf(counter[n], borne[i])
          /\ BytesOf(i, batch') = BytesOf(i, batch) + BytesOf(i, D)
          /\ BytesOf(i, D) \in Nat /\ BytesOf(i, batch) \in Nat /\ total[i] \in Nat
      BY <1>3, <1>5, <1>6, <1>8
    <2> QED
      BY <2>1, <2>2, <2>3
  <1>10. AllAccounted' <= AllAccounted /\ AllAccounted' \in Nat
    <2>1. /\ AllAccounted = SumOf(total, Ids) + Bytes(batch) + UnreadIn(counter, Names)
          /\ AllAccounted' = SumOf(total, Ids) + Bytes(batch') + UnreadIn(counter', Names)
      BY <1>2, AccountIs
    <2>2. /\ UnreadIn(counter', Names) + SumOf(counter[n], Names) = UnreadIn(counter, Names)
          /\ UnreadIn(counter', Names) \in Nat /\ UnreadIn(counter, Names) \in Nat
          /\ SumOf(counter[n], Names) \in Nat
      BY <1>7
    <2> QED
      BY <1>3, <1>5, <1>6, <1>8, <2>1, <2>2
  <1>11. ASSUME NEW i \in steady, Unshared(i)' PROVE Accounted(i)' = Accounted(i)
    <2>1. /\ i \in Ids /\ user[i] \in Names /\ borne[i] = {user[i]}
          /\ emailToID[user[i]] \in Ids
      BY <1>1, <1>2 DEF SteadyHaveOneName, TrafficTypeOK
    <2>2. user[i] \in borne[emailToID[user[i]]]
      BY <1>1, <2>1, TrafficAssumption DEF NamesAreBorne
    <2>3. emailToID[user[i]] = i
      <3>1. \A j \in Ids \ {i} : borne[i] \cap borne[j] = {}
        BY <1>2, <1>11 DEF Unshared
      <3> QED
        BY <2>1, <2>2, <3>1
    <2>4. BytesOf(i, D) = SumOf(counter[n], borne[i])
      BY <1>3, <2>1, <2>3
    <2> QED
      BY <1>9, <2>1, <2>4
  <1>12. carried' = carried
    BY <1>2
  <1>13. ASSUME NEW i \in Ids PROVE NoOvercount(i)
    BY <1>8, <1>9, <1>12 DEF NoOvercount
  <1>14. ASSUME NEW i \in steady PROVE NoLoss(i)
    BY <1>11, <1>12 DEF NoLoss
  <1>15. AllAccounted' + SumOf(carried, Ids) <= AllAccounted + SumOf(carried', Ids)
    BY <1>8, <1>10, <1>12
  <1> QED
    BY <1>13, <1>14, <1>15 DEF Ledger

(* The cycle is written: the batch moves to the totals.                    *)
LEMMA LedgerWrite ==
  ASSUME TrafficInv, WriteCycle
  PROVE  Ledger
  <1>1. /\ TrafficTypeOK /\ IsFiniteSet(batch) /\ batch \in SUBSET Sample
        /\ steady \subseteq Ids /\ total \in [Ids -> Nat]
    BY DEF TrafficInv, CycleIsFresh, TrafficTypeOK
  <1>2. /\ total' = [i \in Ids |-> total[i] + BytesOf(i, batch)] /\ batch' = {}
        /\ UNCHANGED <<borne, carried, counter>>
    BY DEF WriteCycle, Done, users, servers
  <1>3. Bytes(batch') = 0 /\ \A i \in Ids : BytesOf(i, batch') = 0
    BY <1>2, BytesEmpty, Zenon
  <1>4. /\ AllAccounted \in Nat /\ SumOf(carried, Ids) \in Nat
        /\ SumOf(total, Ids) \in Nat /\ Bytes(batch) \in Nat
        /\ UnreadIn(counter, Names) \in Nat /\ NatOn(total, Ids)
        /\ \A i \in Ids : /\ Accounted(i) \in Nat /\ carried[i] \in Nat
                          /\ total[i] \in Nat /\ BytesOf(i, batch) \in Nat
                          /\ UnreadIn(counter, borne[i]) \in Nat
    BY <1>1, AccountsNat
  <1>5. ASSUME NEW i \in Ids PROVE Accounted(i)' = Accounted(i)
    <2>1. /\ Accounted(i) = total[i] + BytesOf(i, batch) + UnreadIn(counter, borne[i])
          /\ Accounted(i)' = total'[i] + BytesOf(i, batch') + UnreadIn(counter, borne[i])
      BY <1>2, AccountIs
    <2>2. total'[i] = total[i] + BytesOf(i, batch) /\ BytesOf(i, batch') = 0
      BY <1>2, <1>3
    <2>3. /\ total[i] \in Nat /\ BytesOf(i, batch) \in Nat
          /\ UnreadIn(counter, borne[i]) \in Nat
      BY <1>4
    <2> QED
      BY <2>1, <2>2, <2>3
  <1>6. AllAccounted' = AllAccounted
    <2> DEFINE g == [i \in Ids |-> BytesOf(i, batch)]
    <2>1. SumOf(g, Ids) = Bytes(batch) /\ NatOn(g, Ids)
      BY <1>1, <1>4, BytesByUser DEF NatOn
    <2>2. \A i \in Ids : total'[i] = total[i] + g[i]
      BY <1>2
    <2>3. SumOf(total', Ids) = SumOf(total, Ids) + SumOf(g, Ids)
      <3> HIDE DEF g
      <3> QED
        BY <1>4, <2>1, <2>2, Finite, SumPlus
    <2>4. /\ AllAccounted = SumOf(total, Ids) + Bytes(batch) + UnreadIn(counter, Names)
          /\ AllAccounted' = SumOf(total', Ids) + Bytes(batch') + UnreadIn(counter, Names)
      BY <1>2, AccountIs
    <2>5. SumOf(total', Ids) = SumOf(total, Ids) + Bytes(batch)
      BY <2>1, <2>3, Zenon
    <2> QED
      BY <1>3, <1>4, <2>4, <2>5
  <1>7. carried' = carried
    BY <1>2
  <1> QED
    BY <1>1, <1>4, <1>5, <1>6, <1>7 DEF Ledger, NoOvercount, NoLoss

(* A batch is dropped.                                                     *)
LEMMA LedgerDrop ==
  ASSUME TrafficInv, batch' = {}, happened'["loss"] # 0,
         UNCHANGED <<total, borne, carried, counter>>
  PROVE  Ledger
  <1>1. /\ TrafficTypeOK /\ IsFiniteSet(batch) /\ steady \subseteq Ids
    BY DEF TrafficInv, CycleIsFresh, TrafficTypeOK
  <1>2. Bytes(batch') = 0 /\ \A i \in Ids : BytesOf(i, batch') = 0
    BY BytesEmpty, Zenon
  <1>3. /\ AllAccounted \in Nat /\ SumOf(carried, Ids) \in Nat
        /\ SumOf(total, Ids) \in Nat /\ Bytes(batch) \in Nat
        /\ UnreadIn(counter, Names) \in Nat
        /\ \A i \in Ids : /\ Accounted(i) \in Nat /\ carried[i] \in Nat
                          /\ total[i] \in Nat /\ BytesOf(i, batch) \in Nat
                          /\ UnreadIn(counter, borne[i]) \in Nat
    BY <1>1, AccountsNat
  <1>4. ASSUME NEW i \in Ids PROVE Accounted(i)' <= Accounted(i) /\ Accounted(i)' \in Nat
    <2>1. /\ Accounted(i) = total[i] + BytesOf(i, batch) + UnreadIn(counter, borne[i])
          /\ Accounted(i)' = total[i] + BytesOf(i, batch') + UnreadIn(counter, borne[i])
      BY AccountIs
    <2>2. /\ total[i] \in Nat /\ BytesOf(i, batch) \in Nat
          /\ UnreadIn(counter, borne[i]) \in Nat /\ BytesOf(i, batch') = 0
      BY <1>2, <1>3
    <2> QED
      BY <2>1, <2>2
  <1>5. AllAccounted' <= AllAccounted /\ AllAccounted' \in Nat
    <2>1. /\ AllAccounted = SumOf(total, Ids) + Bytes(batch) + UnreadIn(counter, Names)
          /\ AllAccounted' = SumOf(total, Ids) + Bytes(batch') + UnreadIn(counter, Names)
      BY AccountIs
    <2> QED
      BY <1>2, <1>3, <2>1
  <1>6. carried' = carried
    OBVIOUS
  <1>7. ASSUME NEW i \in Ids PROVE NoOvercount(i)
    BY <1>3, <1>4, <1>6 DEF NoOvercount
  <1>8. AllAccounted' + SumOf(carried, Ids) <= AllAccounted + SumOf(carried', Ids)
    BY <1>3, <1>5, <1>6
  <1> QED
    BY <1>7, <1>8 DEF Ledger, NoLoss

LEMMA LedgerStep == TrafficInv /\ [TrafficNext]_trafficVars => Ledger
  <1> SUFFICES ASSUME TrafficInv, [TrafficNext]_trafficVars PROVE Ledger
    OBVIOUS
  <1>0. /\ TrafficTypeOK /\ "loss" \in Happenings
        /\ borne \in [Ids -> SUBSET Names] /\ counter \in [Nodes -> [Names -> Nat]]
    BY DEF TrafficInv, TrafficTypeOK, Happenings
  <1>1. ASSUME NEW i \in Ids, NEW m \in Names, CreateUser(i, m) \/ RenameUser(i, m)
        PROVE  Ledger
    <2>1. /\ borne' = [borne EXCEPT ![i] = @ \cup {m}]
          /\ UNCHANGED <<total, batch, counter, carried>>
      BY <1>0, <1>1 DEF CreateUser, RenameUser, tables, servers
    <2> QED
      BY <2>1, LedgerNaming
  <1>2. ASSUME NEW n \in Nodes, PushNode(n) PROVE Ledger
    <2>1. /\ counter' = [counter EXCEPT ![n] = Zeroes]
          /\ UNCHANGED <<total, batch, carried, borne>>
      BY <1>2 DEF PushNode, Zeroes, tables, users
    <2>2. CASE SumOf(counter[n], Names) > 0
      <3>1. Happens("loss")
        BY <1>2, <2>2 DEF PushNode
      <3> QED
        BY <1>0, <2>1, <3>1, LossShows, LedgerReset
    <2>3. CASE ~(SumOf(counter[n], Names) > 0)
      <3>1. NatOn(counter[n], Names) /\ SumOf(counter[n], Names) \in Nat
        BY <1>0, CountersNat
      <3>2. \A m \in Names : counter[n][m] <= SumOf(counter[n], Names)
        BY <3>1, Finite, SumAtLeast
      <3>3. \A m \in Names : counter[n][m] = 0
        BY <2>3, <3>1, <3>2 DEF NatOn
      <3>4. counter[n] = Zeroes
        BY <1>0, <3>3 DEF Zeroes
      <3>5. counter' = counter
        BY <1>0, <2>1, <3>4
      <3> QED
        BY <2>1, <3>5, LedgerSame
    <2> QED
      BY <2>2, <2>3
  <1>3. ASSUME NEW n \in Nodes, NEW i \in Ids, Carry(n, i) PROVE Ledger
    BY <1>3, LedgerCarry
  <1>4. ASSUME NEW n \in Nodes, PollNode(n) PROVE Ledger
    BY <1>4, LedgerPoll
  <1>5. ASSUME NEW n \in Nodes, PollAnswerLost(n) PROVE Ledger
    <2>1. /\ counter' = [counter EXCEPT ![n] = Zeroes] /\ Happens("loss")
          /\ UNCHANGED <<total, batch, carried, borne>>
      BY <1>5 DEF PollAnswerLost, Zeroes, tables, users
    <2> QED
      BY <1>0, <2>1, LossShows, LedgerReset
  <1>6. CASE WriteCycle
    BY <1>6, LedgerWrite
  <1>7. CASE WriteFails \/ Crash
    <2>1. /\ batch' = {} /\ Happens("loss")
          /\ UNCHANGED <<total, borne, carried, counter>>
      BY <1>7 DEF WriteFails, Crash, Done, users, servers, tables
    <2> QED
      BY <1>0, <2>1, LossShows, LedgerDrop
  <1>8. CASE UNCHANGED <<total, batch, counter, carried, borne>>
    BY <1>8, LedgerSame
  <1>9. ASSUME \/ UNCHANGED trafficVars \/ BeginPoll \/ PurgeExpiredSamples
               \/ \E i \in Ids : DeleteUser(i)
               \/ \E n \in Nodes, i \in Ids : LearnUser(n, i)
               \/ \E n \in Nodes : PollFails(n)
        PROVE  UNCHANGED <<total, batch, counter, carried, borne>>
    BY <1>9 DEF trafficVars, DeleteUser, LearnUser, BeginPoll, PollFails,
                PurgeExpiredSamples, users, servers, tables
  <1> QED
    BY <1>1, <1>2, <1>3, <1>4, <1>5, <1>6, <1>7, <1>8, <1>9 DEF TrafficNext, PollAll

LEMMA CountsStep == TrafficInv /\ [TrafficNext]_trafficVars => NoByteCountsTwice'
  <1> SUFFICES ASSUME TrafficInv, [TrafficNext]_trafficVars PROVE NoByteCountsTwice'
    OBVIOUS
  <1>1. /\ TrafficTypeOK /\ IsFiniteSet(batch) /\ NoByteCountsTwice /\ Ledger
        /\ TrafficTypeOK' /\ IsFiniteSet(batch')
    BY LedgerStep, TypeStep, FreshStep DEF TrafficInv, CycleIsFresh
  <1>2. /\ \A i \in Ids : Accounted(i) \in Nat /\ carried[i] \in Nat
        /\ AllAccounted \in Nat /\ SumOf(carried, Ids) \in Nat
    BY <1>1, AccountsNat
  <1>3. /\ \A i \in Ids : Accounted(i)' \in Nat /\ carried'[i] \in Nat
        /\ AllAccounted' \in Nat /\ SumOf(carried', Ids) \in Nat
    BY <1>1, NextAccountsNat
  <1>4. ASSUME NEW i \in Ids, Unshared(i)' PROVE Accounted(i)' <= carried'[i]
    <2>1. Accounted(i) <= carried[i]
      BY <1>1, <1>4, UnsharedBefore DEF NoByteCountsTwice
    <2>2. Accounted(i)' + carried[i] <= Accounted(i) + carried'[i]
      BY <1>1, <1>4 DEF Ledger, NoOvercount
    <2> QED
      BY <1>2, <1>3, <2>1, <2>2
  <1>5. AllAccounted' <= SumOf(carried', Ids)
    <2>1. AllAccounted <= SumOf(carried, Ids)
      BY <1>1 DEF NoByteCountsTwice, AllAccounted
    <2>2. AllAccounted' + SumOf(carried, Ids) <= AllAccounted + SumOf(carried', Ids)
      BY <1>1 DEF Ledger
    <2> QED
      BY <1>2, <1>3, <2>1, <2>2
  <1>6. (SumOf(total, Ids) + Bytes(batch) + Unread(Names) <= SumOf(carried, Ids))'
    BY <1>5 DEF AllAccounted
  <1> QED
    BY <1>4, <1>6 DEF NoByteCountsTwice

LEMMA KnownStep == TrafficInv /\ [TrafficNext]_trafficVars => KnownUsersAreCounted'
  <1> SUFFICES ASSUME TrafficInv, [TrafficNext]_trafficVars, happened'["loss"] = 0,
                      NEW i \in steady', Unshared(i)'
               PROVE  Accounted(i)' = carried'[i]
    BY DEF KnownUsersAreCounted
  <1>1. /\ TrafficTypeOK /\ NamesAreBorne /\ IsFiniteSet(batch)
        /\ NoByteCountsTwice /\ KnownUsersAreCounted /\ Ledger
        /\ TrafficTypeOK' /\ IsFiniteSet(batch') /\ i \in Ids
    BY LedgerStep, TypeStep, FreshStep DEF TrafficInv, CycleIsFresh, TrafficTypeOK
  <1>2. Accounted(i) \in Nat /\ carried[i] \in Nat /\ Accounted(i)' \in Nat /\ carried'[i] \in Nat
    BY <1>1, AccountsNat, NextAccountsNat
  <1>3. Unshared(i)
    BY <1>1, UnsharedBefore
  <1>4. CASE i \in steady
    <2>1. happened["loss"] = 0
      <3>1. happened'["loss"] >= happened["loss"] /\ happened["loss"] \in Nat
        BY <1>1, LossNeverForgotten
      <3> QED
        BY <3>1
    <2>2. Accounted(i) = carried[i]
      BY <1>1, <1>3, <1>4, <2>1 DEF KnownUsersAreCounted
    <2>3. Accounted(i)' + carried[i] = Accounted(i) + carried'[i]
      BY <1>1, <1>4 DEF Ledger, NoLoss
    <2> QED
      BY <1>2, <2>2, <2>3
  <1>5. CASE i \notin steady
    <2>1. \E m \in Names : CreateUser(i, m)
      BY <1>1, <1>5 DEF TrafficNext, trafficVars, CreateUser, RenameUser, DeleteUser,
         LearnUser, Carry, PushNode, PollAll, BeginPoll, PollNode, PollFails,
         PollAnswerLost, WriteCycle, WriteFails, PurgeExpiredSamples, Crash, users
    <2>2. PICK m \in Names : CreateUser(i, m)
      BY <2>1
    <2>3. /\ borne' = [borne EXCEPT ![i] = @ \cup {m}] /\ borne[i] = {}
          /\ UNCHANGED <<total, batch, counter, carried>>
      BY <1>1, <2>2 DEF CreateUser, tables, servers, TrafficTypeOK
    <2>4. Accounted(i)' = Accounted(i)
      BY <1>1, <2>3, LedgerNaming
    <2>5. carried[i] = 0 /\ Accounted(i) <= carried[i]
      BY <1>1, <1>3, <2>3 DEF NamesAreBorne, NoByteCountsTwice
    <2>6. carried'[i] = carried[i]
      BY <2>3
    <2> QED
      BY <1>2, <2>4, <2>5, <2>6
  <1> QED
    BY <1>4, <1>5

-----------------------------------------------------------------------------
(* The theorems of Traffic.                                                *)

LEMMA InitTraffic == TrafficInit => TrafficInv
  <1> SUFFICES ASSUME TrafficInit PROVE TrafficInv
    OBVIOUS
  <1>1. TrafficTypeOK
    BY DEF TrafficInit, TrafficTypeOK, NoMap, Sample
  <1>2. NamesAreBorne
    BY DEF TrafficInit, NamesAreBorne, NoMap
  <1>3. CycleIsFresh
    BY FS_EmptySet DEF TrafficInit, CycleIsFresh
  <1>4. SteadyHaveOneName
    BY DEF TrafficInit, SteadyHaveOneName
  <1>5. /\ samples = {} /\ batch = {} /\ steady = {} /\ total = [i \in Ids |-> 0]
        /\ carried = [i \in Ids |-> 0] /\ counter = [n \in Nodes |-> Zeroes]
    BY DEF TrafficInit, Zeroes
  <1>6. Bytes(batch) = 0 /\ \A i : BytesOf(i, batch) = 0 /\ BytesOf(i, samples) = 0
    BY <1>5, BytesEmpty, Zenon
  <1>7. ASSUME NEW S \in SUBSET Names PROVE UnreadIn(counter, S) = 0
    <2> DEFINE f == [n \in Nodes |-> SumOf(counter[n], S)]
    <2>1. SumOf(Zeroes, S) = 0
      BY ZeroesSum
    <2>2. \A n \in Nodes : f[n] = 0
      <3>1. \A n \in Nodes : counter[n] = Zeroes
        BY <1>5
      <3> QED
        BY <2>1, <3>1
    <2>3. SumOf(f, Nodes) = 0
      <3> HIDE DEF f
      <3> QED
        BY <2>2, Finite, SumZero
    <2> QED
      BY <2>3 DEF UnreadIn
  <1>8. \A i \in Ids : total[i] = 0 /\ carried[i] = 0 /\ borne[i] \in SUBSET Names
    BY <1>1, <1>5 DEF TrafficTypeOK
  <1>9. SamplesAddUp
    BY <1>6, <1>8 DEF SamplesAddUp
  <1>10. ASSUME NEW i \in Ids PROVE Accounted(i) = 0
    <2>1. UnreadIn(counter, borne[i]) = 0 /\ BytesOf(i, batch) = 0 /\ total[i] = 0
      BY <1>6, <1>7, <1>8
    <2>2. Accounted(i) = total[i] + BytesOf(i, batch) + UnreadIn(counter, borne[i])
      BY AccountIs
    <2> QED
      BY <2>1, <2>2
  <1>11. SumOf(total, Ids) = 0 /\ SumOf(carried, Ids) = 0
    BY <1>8, Finite, SumZero
  <1>12. AllAccounted = 0
    <2>1. UnreadIn(counter, Names) = 0
      BY <1>7
    <2> QED
      BY <1>6, <1>11, <2>1, AccountIs
  <1>13. NoByteCountsTwice
    BY <1>8, <1>10, <1>11, <1>12 DEF NoByteCountsTwice, AllAccounted
  <1>14. KnownUsersAreCounted
    BY <1>5 DEF KnownUsersAreCounted
  <1> QED
    BY <1>1, <1>2, <1>3, <1>4, <1>9, <1>13, <1>14 DEF TrafficInv

LEMMA StepTraffic == TrafficInv /\ [TrafficNext]_trafficVars => TrafficInv'
  BY TypeStep, NamesStep, FreshStep, SteadyStep, SamplesStep, CountsStep, KnownStep
  DEF TrafficInv

(* The invariant holds, for any nodes, users, names and bounds.            *)
THEOREM TrafficInvariant == TrafficSpec => []TrafficInv
  BY InitTraffic, StepTraffic, PTL DEF TrafficSpec

(* No variable of the accounting leaves its domain.                        *)
THEOREM TrafficTypesHold == TrafficSpec => []TrafficTypeOK
  <1>1. TrafficInv => TrafficTypeOK
    BY DEF TrafficInv
  <1> QED
    BY <1>1, TrafficInvariant, PTL

(* xray/stats.go, PollUserTrafficDelta with reset: whatever fails, no byte *)
(* is counted twice, nor to another user while names are not handed on.    *)
THEOREM BytesCountOnce == TrafficSpec => []NoByteCountsTwice
  <1>1. TrafficInv => NoByteCountsTwice
    BY DEF TrafficInv
  <1> QED
    BY <1>1, TrafficInvariant, PTL

(* repository/traffic.go, WriteCycle: the total of a user is the sum of    *)
(* the samples ever written for it.                                        *)
THEOREM TotalsAreSums == TrafficSpec => []SamplesAddUp
  <1>1. TrafficInv => SamplesAddUp
    BY DEF TrafficInv
  <1> QED
    BY <1>1, TrafficInvariant, PTL

(* service/traffic.go: without a loss every byte of a user that was there  *)
(* before the poll is in the total or on its way there.                    *)
THEOREM NoKnownByteIsLost == TrafficSpec => []KnownUsersAreCounted
  <1>1. TrafficInv => KnownUsersAreCounted
    BY DEF TrafficInv
  <1> QED
    BY <1>1, TrafficInvariant, PTL

=============================================================================
