------------------------------- MODULE Admins -------------------------------
(***************************************************************************)
(* Administrator accounts: seeded from the configuration at the first      *)
(* start, then changed by requests of logged-in super administrators.  A   *)
(* request is admitted by the middleware, reads the row it is about,       *)
(* counts the other super administrators if it takes one away, and writes; *)
(* other requests run in between.                                          *)
(*                                                                         *)
(* A password is the number of the request that set it, 0 for a seeded     *)
(* one.  Names, login times and the log are left out; ids are not reused;  *)
(* everybody who may log in is logged in.                                  *)
(***************************************************************************)
EXTENDS Naturals, Sequences

CONSTANTS
    Ids,        \* account ids, in the order of their creation
    Workers,    \* requests at a time
    Seeds,      \* config.yaml admins: whether each has a name and a password
    Limit       \* bounds of the model: kind of event -> how often it may occur

Events == {"request", "stop"}
Roles  == {"super", "admin"}
Kinds  == {"update", "delete", "reset", "own"}
Stages == {"idle", "find", "check", "save", "drop", "password"}

ASSUME AdminsAssumption ==
    /\ Ids \subseteq Nat /\ Ids # {}
    /\ Seeds \in Seq(BOOLEAN)
    /\ Limit \in [Events -> Nat]

VARIABLES
    admin,      \* the admin_users table
    panel,      \* "down", "seeding" or "up"
    seed,       \* the configured account SeedFromConfig comes to next
    job,        \* the requests under way
    used,       \* bounded events so far
    decided,    \* history: what the requests that succeeded asked for
    overtaken   \* history: an account was saved or deleted although another
                \* request had written since it was read

vars == <<admin, panel, seed, job, used, decided, overtaken>>

Account   == [is : {"unborn", "here", "gone"}, role : Roles, active : BOOLEAN,
              password : Nat]
NoAccount == [is |-> "unborn", role |-> "admin", active |-> FALSE, password |-> 0]
Fresh(role, password) ==
    [is |-> "here", role |-> role, active |-> TRUE, password |-> password]
Here(r) == r.is = "here"

AnyId == CHOOSE i \in Ids : TRUE
Job  == [pc : Stages, kind : Kinds, own : BOOLEAN, target : Ids, role : Roles,
         active : BOOLEAN, number : Nat, row : Account, alone : BOOLEAN]
Idle == [pc |-> "idle", kind |-> "own", own |-> TRUE, target |-> AnyId,
         role |-> "admin", active |-> FALSE, number |-> 0, row |-> NoAccount,
         alone |-> TRUE]

Spend(e) == /\ used[e] < Limit[e]
            /\ used' = [used EXCEPT ![e] = @ + 1]

Init ==
    /\ admin = [i \in Ids |-> NoAccount]
    /\ panel = "down"
    /\ seed = 1
    /\ job = [w \in Workers |-> Idle]
    /\ used = [e \in Events |-> 0]
    /\ decided = admin
    /\ overtaken = FALSE

-----------------------------------------------------------------------------
(* Starting and stopping.                                                  *)

NextId(i) == /\ decided[i].is = "unborn"
             /\ \A j \in Ids : j < i => decided[j].is # "unborn"

(* main: an empty table is filled from the configuration.                  *)
Start ==
    /\ panel = "down"
    /\ panel' = IF \E i \in Ids : Here(admin[i]) THEN "up" ELSE "seeding"
    /\ seed' = 1
    /\ UNCHANGED <<admin, job, used, decided, overtaken>>

(* SeedFromConfig, one account after the other: the first is the super     *)
(* administrator, one without name or password is passed over.             *)
Seed ==
    /\ panel = "seeding"
    /\ IF seed > Len(Seeds) THEN panel' = "up" /\ UNCHANGED <<admin, seed, decided>>
       ELSE /\ seed' = seed + 1 /\ UNCHANGED panel
            /\ IF Seeds[seed]
               THEN \E i \in Ids :
                      LET new == Fresh(IF seed = 1 THEN "super" ELSE "admin", 0)
                      IN /\ NextId(i)
                         /\ admin' = [admin EXCEPT ![i] = new]
                         /\ decided' = [decided EXCEPT ![i] = new]
               ELSE UNCHANGED <<admin, decided>>
    /\ UNCHANGED <<job, used, overtaken>>

(* An account that cannot be inserted is fatal; otherwise the process ends *)
(* anywhere, and the requests with it.                                     *)
Stop ==
    /\ panel # "down" /\ Spend("stop")
    /\ panel' = "down"
    /\ job' = [w \in Workers |-> Idle]
    /\ UNCHANGED <<admin, seed, decided, overtaken>>

-----------------------------------------------------------------------------
(* Requests.                                                               *)

IsSuperAdmin(r) == Here(r) /\ r.active /\ r.role = "super"

(* Mutant of EnsureNotLastSuperAdmin: the account itself is counted.       *)
EnsureNotLastSuperAdmin_CountSelf(id) == \E i \in Ids : IsSuperAdmin(admin[i])

EnsureNotLastSuperAdmin(id) == \E i \in Ids \ {id} : IsSuperAdmin(admin[i])

Step(w, next)  == job' = [job EXCEPT ![w] = next]

(* A request that writes; the others no longer know the latest rows.       *)
Write(w) == job' = [v \in Workers |-> IF v = w THEN Idle
                                      ELSE [job[v] EXCEPT !.alone = FALSE]]

(* The middleware: an account that exists and is enabled, and a super      *)
(* administrator for everything but the own password.  Nobody deletes or   *)
(* resets himself.                                                         *)
Admit(w, kind, self, target) ==
    /\ panel = "up" /\ job[w].pc = "idle"
    /\ Here(admin[self]) /\ admin[self].active
    /\ IF kind = "own" THEN target = self
       ELSE IsSuperAdmin(admin[self]) /\ (target # self \/ kind = "update")
    /\ Spend("request")
    /\ \E role \in Roles, active \in BOOLEAN :
          /\ kind = "update" \/ (role = Idle.role /\ active = Idle.active)
          /\ Step(w, [Idle EXCEPT !.pc = "find", !.kind = kind,
                                  !.own = (target = self), !.target = target,
                                  !.role = role, !.active = active,
                                  !.number = used["request"] + 1])
    /\ UNCHANGED <<admin, panel, seed, decided, overtaken>>

(* An account with a role that exists.  What is inserted depends on        *)
(* nothing read before: one step.                                          *)
Create(w, self) ==
    /\ panel = "up" /\ job[w].pc = "idle"
    /\ IsSuperAdmin(admin[self])
    /\ Spend("request")
    /\ \E i \in Ids, role \in Roles :
          LET new == Fresh(role, used["request"] + 1)
          IN /\ NextId(i)
             /\ admin' = [admin EXCEPT ![i] = new]
             /\ decided' = [decided EXCEPT ![i] = new]
    /\ Write(w)
    /\ UNCHANGED <<panel, seed, overtaken>>

Found(w) == [job[w] EXCEPT !.row = admin[job[w].target], !.alone = TRUE]

(* An update names role and state as it wants them; what the row has       *)
(* already is no change.  Own role and state are refused.                  *)
FindUpdate(w) ==
    LET j == job[w]
        row == admin[j.target]
        change  == j.role # row.role \/ j.active # row.active
        refused == j.own /\ (j.role # row.role \/ ~j.active)
        guarded == \/ j.role # row.role /\ row.role = "super"
                   \/ row.active /\ ~j.active /\ j.role = "super"
    IN /\ j.pc = "find" /\ j.kind = "update"
       /\ Step(w, IF ~Here(row) \/ ~change \/ refused THEN Idle
                  ELSE [Found(w) EXCEPT !.number = 0, !.own = TRUE,
                                      !.pc = IF guarded THEN "check" ELSE "save"])
       /\ UNCHANGED <<admin, panel, seed, used, decided, overtaken>>

FindDelete(w) ==
    LET j == job[w]
        row == admin[j.target]
    IN /\ j.pc = "find" /\ j.kind = "delete"
       /\ Step(w, IF ~Here(row) THEN Idle
                  ELSE [Found(w) EXCEPT !.number = 0,
                                      !.pc = IF IsSuperAdmin(row) THEN "check"
                                             ELSE "drop"])
       /\ UNCHANGED <<admin, panel, seed, used, decided, overtaken>>

Check(w) ==
    LET j == job[w]
        next == IF j.kind = "update" THEN "save" ELSE "drop"
    IN /\ j.pc = "check"
       /\ Step(w, IF EnsureNotLastSuperAdmin(j.target) THEN [j EXCEPT !.pc = next]
                  ELSE Idle)
       /\ UNCHANGED <<admin, panel, seed, used, decided, overtaken>>

(* The whole row as read, with the changes; inserted again if it is gone.  *)
Update(w) ==
    LET j == job[w]
    IN /\ j.pc = "save"
       /\ admin' = [admin EXCEPT ![j.target] =
                       [j.row EXCEPT !.role = j.role, !.active = j.active]]
       /\ decided' = [decided EXCEPT ![j.target] =
                         [@ EXCEPT !.role = j.role, !.active = j.active]]
       /\ overtaken' = (overtaken \/ ~j.alone)
       /\ Write(w)
       /\ UNCHANGED <<panel, seed, used>>

Delete(w) ==
    LET j == job[w]
    IN /\ j.pc = "drop"
       /\ admin' = [admin EXCEPT ![j.target].is = "gone"]
       /\ decided' = [decided EXCEPT ![j.target].is = "gone"]
       /\ overtaken' = (overtaken \/ ~j.alone)
       /\ Write(w)
       /\ UNCHANGED <<panel, seed, used>>

(* SetPassword and ChangeOwnPassword: the row must be there (and the old   *)
(* password right); hashing the new one takes its time.                    *)
FindPassword(w) ==
    LET j == job[w]
    IN /\ j.pc = "find" /\ j.kind \in {"reset", "own"}
       /\ Step(w, IF Here(admin[j.target]) THEN [Found(w) EXCEPT !.pc = "password"]
                  ELSE Idle)
       /\ UNCHANGED <<admin, panel, seed, used, decided, overtaken>>

(* Mutant of UpdatePasswordHash: the row as read is saved.                 *)
UpdatePasswordHash_WholeRow(w) ==
    LET j == job[w]
    IN /\ j.pc = "password"
       /\ admin' = [admin EXCEPT ![j.target] = [j.row EXCEPT !.password = j.number]]
       /\ decided' = [decided EXCEPT ![j.target].password =
                         IF Here(decided[j.target]) THEN j.number ELSE @]
       /\ Write(w)
       /\ UNCHANGED <<panel, seed, used, overtaken>>

UpdatePasswordHash(w) ==
    LET j == job[w]
    IN /\ j.pc = "password"
       /\ admin' = [admin EXCEPT ![j.target].password =
                       IF Here(admin[j.target]) THEN j.number ELSE @]
       /\ decided' = [decided EXCEPT ![j.target].password =
                         IF Here(decided[j.target]) THEN j.number ELSE @]
       /\ Write(w)
       /\ UNCHANGED <<panel, seed, used, overtaken>>

Request(w) ==
    \/ \E kind \in Kinds, self, target \in Ids : Admit(w, kind, self, target)
    \/ \E self \in Ids : Create(w, self)
    \/ FindUpdate(w) \/ FindDelete(w) \/ FindPassword(w) \/ Check(w)
    \/ Update(w) \/ Delete(w) \/ UpdatePasswordHash(w)

Next == Start \/ Seed \/ Stop \/ \E w \in Workers : Request(w)

Spec == Init /\ [][Next]_vars

-----------------------------------------------------------------------------
(* Properties.                                                             *)

(* Every variable keeps to its domain.                                     *)
TypeOK ==
    /\ admin \in [Ids -> Account] /\ decided \in [Ids -> Account]
    /\ panel \in {"down", "seeding", "up"}
    /\ seed \in Nat \ {0}
    /\ job \in [Workers -> Job]
    /\ used \in [Events -> Nat]
    /\ overtaken \in BOOLEAN

Manned == (\E i \in Ids : Here(admin[i])) => \E i \in Ids : IsSuperAdmin(admin[i])

(* ensureNotLastSuperAdmin: whoever is demoted, disabled or deleted by     *)
(* requests in whatever order, and wherever the panel stops, an enabled    *)
(* super administrator is left, unless a save or a deletion was overtaken  *)
(* between its count and its write.                                        *)
SomeSuperAdminLeft == overtaken \/ Manned

(* admin.go: accounts are as the last successful requests wanted them,     *)
(* unless a save of a whole row was overtaken: a deleted account stays     *)
(* deleted, a password is the last one set, a role the last one given.     *)
DecisionsStand == overtaken \/ admin = decided

(* release-notes/v0.5.0.md: at least one enabled super administrator       *)
(* remains.                                                                *)
AlwaysManned == Manned

=============================================================================
