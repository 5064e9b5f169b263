------------------------------- MODULE Feishu -------------------------------
(***************************************************************************)
(* The Feishu bot: whose subscription links it sends to whom.  A user row  *)
(* carries the mail address an administrator gave it and the identity (the *)
(* open and union id) of the person it is bound to; administrators bind,   *)
(* clear, edit and push, persons write to the bot, and every one of them   *)
(* reads a row, asks Feishu - which takes its time - and saves the row as  *)
(* a whole.                                                                *)
(*                                                                         *)
(* A person is known to Feishu by one mail address, taken here as the      *)
(* person.  The chat id of a user, the time of binding (set and cleared    *)
(* with the identity), help texts and the switches of the integration are  *)
(* left out; users are not deleted here.                                   *)
(***************************************************************************)
EXTENDS Naturals, FiniteSets, Functions

CONSTANTS
    Users,      \* rows of the users table
    Persons,    \* people in Feishu
    Nobody,     \* no mail address, no identity
    Workers,    \* requests and replies at a time
    Messages,   \* how many messages a person writes
    Given,      \* what the form of a new user may say: enabled, and the address
    Limit,      \* bounds of the model: kind of event -> how often it may occur
    Budget      \* and how many of these events there are in all

Counted == {"bind", "clear", "edit", "push", "reset", "stop", "forget"}

ASSUME FeishuAssumption ==
    /\ Nobody \notin Persons
    /\ Messages \in Nat
    /\ Given \subseteq BOOLEAN \X (Persons \cup {Nobody})
    /\ Limit \in [Counted -> Nat]
    /\ Budget \in Nat

VARIABLES
    row,        \* the users table
    seen,       \* feishuEventDeduper: events that have arrived
    job,        \* what each worker does
    used,       \* bounded events so far
    replies,    \* history: answers to each event since it was last forgotten
    edited      \* history: rows whose address or identity was typed in

vars == <<row, seen, job, used, replies, edited>>

Events == Persons \X (1 .. Messages)
AnyOne == Persons \cup {Nobody}
Row    == [enabled : BOOLEAN, email : AnyOne, identity : AnyOne, token : Nat]

(* kind: what the worker answers or does; pc: its next step; event: the    *)
(* message it answers; asked: the address to bind; found: whom Feishu      *)
(* knows by it; read: the rows to save, or to send the links of; alone:    *)
(* nobody else has written since.                                          *)
Kinds  == {"message", "bind", "clear", "edit", "push"}
Stages == {"idle", "find", "profile", "match", "fill", "send", "note",
           "lookup", "save"}
NoEvent == <<Nobody, 0>>
NoRows  == [u \in {} |-> Nobody]
Idle == [kind |-> "edit", pc |-> "idle", event |-> NoEvent, asked |-> Nobody,
         found |-> Nobody, read |-> NoRows, alone |-> TRUE]

Spend(e) == /\ used[e] < Limit[e]
            /\ FoldFunction(+, 0, used) < Budget
            /\ used' = [used EXCEPT ![e] = @ + 1]

Init ==
    /\ \E form \in [Users -> Given] :
          row = [u \in Users |-> [enabled |-> form[u][1], email |-> form[u][2],
                                 identity |-> Nobody, token |-> 0]]
    /\ seen = {}
    /\ job = [w \in Workers |-> Idle]
    /\ used = [e \in Counted |-> 0]
    /\ replies = [e \in Events |-> 0]
    /\ edited = {}

Step(w, next) == job' = [job EXCEPT ![w] = next]
Goto(w, pc)   == Step(w, [job[w] EXCEPT !.pc = pc])
Asleep        == UNCHANGED <<row, seen, used, replies, edited>>

Reading(j, pc, U) == [j EXCEPT !.pc = pc, !.read = [u \in U |-> row[u]],
                               !.alone = TRUE]

(* The row the worker is about.                                            *)
User(w) == CHOOSE u \in DOMAIN job[w].read : TRUE
Read(w) == job[w].read[User(w)]

(* DB.Save writes all columns of a row, whatever has become of it.         *)
Save(w, r, next) ==
    /\ row' = [row EXCEPT ![User(w)] = r]
    /\ job' = [v \in Workers |-> IF v = w THEN next
                                 ELSE [job[v] EXCEPT !.alone = @ /\ job[v].pc = "idle"]]

-----------------------------------------------------------------------------
(* Messages to the bot.                                                    *)

Begin(w, e) == /\ job[w].pc = "idle"
               /\ seen' = seen \cup {e}
               /\ Step(w, [Idle EXCEPT !.kind = "message", !.pc = "find", !.event = e])
               /\ UNCHANGED <<row, used, replies, edited>>

(* Mutant of Deliver: every delivery is answered, as before v0.1.9.        *)
Deliver_EveryTime(w, e) == Begin(w, e)

(* Events: a message that asks for the links.  One that was seen in the    *)
(* last ten minutes is ignored, however often Feishu delivers it.          *)
Deliver(w, e) == e \notin seen /\ Begin(w, e)

Sender(w) == job[w].event[1]

(* FindByFeishuIdentity, which takes any one of them.                      *)
BoundTo(p) == {u \in Users : row[u].identity = p}

FindBoundUser(w) ==
    /\ job[w].kind = "message" /\ job[w].pc = "find"
    /\ IF BoundTo(Sender(w)) = {} THEN Goto(w, "profile")
       ELSE \E u \in BoundTo(Sender(w)) :
               Step(w, Reading(job[w], IF row[u].enabled THEN "send" ELSE "note", {u}))
    /\ Asleep

(* GetUserProfile, which may fail or name no address.                      *)
FetchProfile(w) ==
    /\ job[w].kind = "message" /\ job[w].pc = "profile"
    /\ \E next \in {"match", "note"} : Goto(w, next)
    /\ Asleep

(* Mutant of MailMatches: any of several rows will do.                     *)
MailMatches_First(p) == {u \in Users : row[u].email = p}

(* FindByFeishuEmail: the only row with that address.                      *)
MailMatches(p) == {u \in Users : \A v \in Users : row[v].email = p <=> v = u}

(* A row that is enabled gets the identity of the sender if it has none.   *)
FindByMail(w) ==
    /\ job[w].kind = "message" /\ job[w].pc = "match"
    /\ IF MailMatches(Sender(w)) = {} THEN Goto(w, "note")
       ELSE \E u \in MailMatches(Sender(w)) :
               Step(w, Reading(job[w], IF ~row[u].enabled THEN "note"
                                       ELSE IF row[u].identity = Nobody THEN "fill"
                                       ELSE "send", {u}))
    /\ Asleep

FillIdentity(w) ==
    LET r == [Read(w) EXCEPT !.identity = Sender(w)]
    IN /\ job[w].kind = "message" /\ job[w].pc = "fill"
       /\ Save(w, r, [job[w] EXCEPT !.pc = "send", !.read = [u \in {User(w)} |-> r]])
       /\ UNCHANGED <<seen, used, replies, edited>>

Recipient(w, u) == IF job[w].kind = "message" THEN Sender(w)
                   ELSE job[w].read[u].identity

(* The links of one row after the other, or a line that says why there are *)
(* none; a message that cannot be sent is not repeated.                    *)
SendMessage(w) ==
    LET j == job[w]
    IN /\ j.pc \in {"send", "note"}
       /\ \E u \in DOMAIN j.read \cup {Nobody} :
             LET rest == DOMAIN j.read \ {u}
             IN /\ u = Nobody => j.pc = "note"
                /\ Step(w, IF j.pc = "note" \/ rest = {} THEN Idle
                           ELSE [j EXCEPT !.read = [v \in rest |-> @[v]]])
       /\ replies' = IF j.kind = "message" THEN [replies EXCEPT ![j.event] = @ + 1]
                     ELSE replies
       /\ UNCHANGED <<row, seen, used, edited>>

(* Ten minutes go by, in which any reply has come to its end.              *)
Forget(e) ==
    /\ e \in seen
    /\ \A w \in Workers : job[w].kind = "message" => job[w].event # e
    /\ Spend("forget")
    /\ seen' = seen \ {e}
    /\ replies' = [replies EXCEPT ![e] = 0]
    /\ UNCHANGED <<row, job, edited>>

-----------------------------------------------------------------------------
(* Administrators.                                                         *)

Begun(w, kind, next) ==
    /\ job[w].pc = "idle" /\ Spend(kind)
    /\ Step(w, [next EXCEPT !.kind = kind])
    /\ UNCHANGED <<row, seen, replies, edited>>

(* PushSubscriptionToUsers: all rows are read first; those without a       *)
(* recipient are skipped.                                                  *)
PushSubscription(w, U) ==
    LET to == {u \in U : row[u].enabled /\ row[u].identity # Nobody}
    IN to # {} /\ Begun(w, "push", Reading(Idle, "send", to))

BindFind(w, u, mail) ==
    Begun(w, "bind", [Reading(Idle, "lookup", {u}) EXCEPT !.asked = mail])

(* lookupUserByEmail and, for the person it names, GetUserProfile; either  *)
(* may fail, and the lookup may know of nobody.                            *)
Lookup(w) ==
    /\ job[w].pc = "lookup"
    /\ \/ \E p \in {job[w].asked, Nobody} :
             Step(w, [job[w] EXCEPT !.pc = "save", !.found = p])
       \/ Step(w, Idle)
    /\ Asleep

(* Mutant of BoundRow: the identity outlives the address.                  *)
BoundRow_KeepIdentity(r, mail, person) ==
    [r EXCEPT !.enabled = TRUE, !.email = mail,
              !.identity = IF person # Nobody THEN person ELSE @]

BoundRow(r, mail, person) ==
    [r EXCEPT !.enabled = TRUE, !.email = mail,
              !.identity = IF person # Nobody \/ r.email # mail THEN person ELSE @]

BindUserByEmail(w) ==
    /\ job[w].kind = "bind" /\ job[w].pc = "save"
    /\ Save(w, BoundRow(Read(w), job[w].asked, job[w].found), Idle)
    /\ UNCHANGED <<seen, used, replies, edited>>

ClearFind(w, u) == Begun(w, "clear", Reading(Idle, "save", {u}))

UnbindUser(w) ==
    /\ job[w].kind = "clear" /\ job[w].pc = "save"
    /\ Save(w, [Read(w) EXCEPT !.identity = Nobody], Idle)
    /\ UNCHANGED <<seen, used, replies, edited>>

(* UserService.Update: what the form has, typed or as it was read.         *)
EditFind(w, u) == Begun(w, "edit", Reading(Idle, "save", {u}))

EditUser(w) ==
    LET r == Read(w)
    IN /\ job[w].kind = "edit" /\ job[w].pc = "save"
       /\ \E enabled \in BOOLEAN, mail, person \in AnyOne :
             /\ Save(w, [r EXCEPT !.enabled = enabled, !.email = mail,
                                  !.identity = person], Idle)
             /\ edited' = IF mail = r.email /\ person = r.identity THEN edited
                          ELSE edited \cup {User(w)}
       /\ UNCHANGED <<seen, used, replies>>

(* ResetToken: one column; the links of before are dead.                   *)
ResetToken(u) ==
    /\ Spend("reset")
    /\ row' = [row EXCEPT ![u].token = @ + 1]
    /\ job' = [w \in Workers |-> [job[w] EXCEPT !.alone = @ /\ job[w].pc = "idle"]]
    /\ UNCHANGED <<seen, replies, edited>>

(* The panel stops: what it was doing and what it has seen are gone.       *)
Stop ==
    /\ Spend("stop")
    /\ seen' = {}
    /\ job' = [w \in Workers |-> Idle]
    /\ replies' = [e \in Events |-> 0]
    /\ UNCHANGED <<row, edited>>

-----------------------------------------------------------------------------

Reply(w) == \/ FindBoundUser(w) \/ FetchProfile(w) \/ FindByMail(w)
            \/ FillIdentity(w) \/ SendMessage(w)

Request(w) ==
    \/ \E U \in SUBSET Users : PushSubscription(w, U)
    \/ \E u \in Users, mail \in Persons : BindFind(w, u, mail)
    \/ Lookup(w) \/ BindUserByEmail(w)
    \/ \E u \in Users : ClearFind(w, u) \/ EditFind(w, u)
    \/ UnbindUser(w) \/ EditUser(w)

Next ==
    \/ \E w \in Workers, e \in Events : Deliver(w, e)
    \/ \E w \in Workers : Reply(w) \/ Request(w)
    \/ \E e \in Events : Forget(e)
    \/ \E u \in Users : ResetToken(u)
    \/ Stop

Spec == Init /\ [][Next]_vars

-----------------------------------------------------------------------------
(* Properties.                                                             *)

(* Every variable keeps to its domain.                                     *)
TypeOK ==
    /\ row \in [Users -> Row]
    /\ seen \subseteq Events
    /\ \A w \in Workers :
          /\ job[w].kind \in Kinds /\ job[w].pc \in Stages
          /\ job[w].event \in Events \cup {NoEvent} /\ job[w].alone \in BOOLEAN
          /\ job[w].asked \in AnyOne /\ job[w].found \in AnyOne
          /\ DOMAIN job[w].read \subseteq Users
          /\ \A u \in DOMAIN job[w].read : job[w].read[u] \in Row
    /\ used \in [Counted -> Nat] /\ replies \in [Events -> Nat]
    /\ edited \subseteq Users

(* release-notes/v0.1.9.md: a message is answered once, although Feishu    *)
(* delivers it again and replies run beside each other.                    *)
OneReplyPerEvent == \A e \in Events : replies[e] <= 1

(* ResolveAuthorizedUser and PushSubscriptionToUsers: when links are about *)
(* to be sent and nobody has written since the row was read, they are the  *)
(* links that work, of a user for whom the bot is enabled, and go to the   *)
(* person the row is bound to or the only one it has the address of.       *)
LinksReachTheirOwner ==
    \A w \in Workers : job[w].pc = "send" /\ job[w].alone =>
        \A u \in DOMAIN job[w].read :
            LET p == Recipient(w, u)
            IN /\ job[w].read[u] = row[u]
               /\ row[u].enabled /\ p # Nobody
               /\ \/ row[u].identity = p
                  \/ {v \in Users : row[v].email = p} = {u}

(* A row that nobody has edited by hand is bound to the person of its      *)
(* address, although bindings, first messages and clearings overlap and    *)
(* save rows they read long before.                                        *)
IdentityMatchesMail ==
    \A u \in Users \ edited :
        row[u].identity # Nobody => row[u].identity = row[u].email

(* service/user.go, ResetToken: a link that was reset stays dead.          *)
DeadLinksStayDead == [][\A u \in Users : row'[u].token >= row[u].token]_vars

=============================================================================
