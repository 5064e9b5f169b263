------------------------------ MODULE Traffic ------------------------------
(***************************************************************************)
(* Traffic accounting: every xray counts the bytes it carries per user     *)
(* name; the poller of the scheduler asks all nodes at once, each asking   *)
(* resets the counters of that node, and one transaction stores the        *)
(* samples of the cycle and adds them to the totals of the users.          *)
(*                                                                         *)
(* Up and down are counted alike and taken together here.  User ids are    *)
(* not reused.  Between polls users are created, renamed and deleted, and  *)
(* nodes learn their names from a push (xray restarts and forgets what it  *)
(* counted) or from a live change (it does not).                           *)
(***************************************************************************)
EXTENDS Naturals, FiniteSetsExt

CONSTANTS
    Nodes,      \* active nodes
    Ids,        \* user ids
    Names,      \* user names, the emails of xray
    NoName,     \* no such user
    NoUser,     \* the name is not in the poller's map
    Most        \* bounds of the model: kind of event -> how often it may occur

(* loss: a fault that costs counts; fail: a node that cannot be asked.     *)
Happenings == {"carry", "user", "push", "poll", "fail", "loss"}

ASSUME TrafficAssumption ==
    /\ IsFiniteSet(Nodes) /\ IsFiniteSet(Ids) /\ IsFiniteSet(Names)
    /\ NoName \notin Names /\ NoUser \notin Ids
    /\ Most \in [Happenings -> Nat]

VARIABLES
    user,       \* the users table: id -> name
    known,      \* the name by which xray of a node knows a user
    counter,    \* what xray of a node has counted, per name
    pc,         \* the poller: "idle", "ask" or "purge"
    emailToID,  \* the poller: the users when the cycle began
    asked,      \* the poller: nodes that have not reported yet
    batch,      \* the poller: the samples reported so far
    samples,    \* traffic_samples
    total,      \* user_traffic_totals
    happened,   \* bounded events so far; the number of polls tells periods apart
    carried,    \* history: bytes each user has really used
    borne,      \* history: names each user has had
    steady,     \* history: users created between polls and unchanged since
    purged      \* history: samples have been purged

tables      == <<samples, total, purged>>
servers     == <<known, counter, carried>>
users       == <<user, borne, steady>>
trafficVars == <<user, known, counter, pc, emailToID, asked, batch, samples, total,
                 happened, carried, borne, steady, purged>>

Sample == [user : Ids, node : Nodes, period : Nat, bytes : Nat]

NoMap         == [m \in Names |-> NoUser]
SumOf(f, S)   == MapThenSumSet(LAMBDA x : f[x], S)
Bytes(S)      == SumOf([s \in S |-> s.bytes], S)
BytesOf(i, S) == Bytes({s \in S : s.user = i})
Happens(e)    == /\ happened[e] < Most[e]
                 /\ happened' = [happened EXCEPT ![e] = @ + 1]

TrafficInit ==
    /\ user = [i \in Ids |-> NoName]
    /\ known = [n \in Nodes |-> [i \in Ids |-> NoName]]
    /\ counter = [n \in Nodes |-> [m \in Names |-> 0]]
    /\ pc = "idle" /\ emailToID = NoMap /\ asked = {} /\ batch = {}
    /\ samples = {} /\ total = [i \in Ids |-> 0]
    /\ happened = [e \in Happenings |-> 0]
    /\ carried = [i \in Ids |-> 0]
    /\ borne = [i \in Ids |-> {}]
    /\ steady = {}
    /\ purged = FALSE

-----------------------------------------------------------------------------
(* Users and nodes.                                                        *)

Free(m) == \A i \in Ids : user[i] # m

CreateUser(i, m) ==
    /\ borne[i] = {} /\ Free(m) /\ Happens("user")
    /\ user' = [user EXCEPT ![i] = m]
    /\ borne' = [borne EXCEPT ![i] = {m}]
    /\ steady' = IF pc = "idle" THEN steady \cup {i} ELSE steady
    /\ UNCHANGED <<servers, tables, pc, emailToID, asked, batch>>

RenameUser(i, m) ==
    /\ user[i] # NoName /\ Free(m) /\ Happens("user")
    /\ user' = [user EXCEPT ![i] = m]
    /\ borne' = [borne EXCEPT ![i] = @ \cup {m}]
    /\ steady' = steady \ {i}
    /\ UNCHANGED <<servers, tables, pc, emailToID, asked, batch>>

(* Samples and totals of a deleted user stay.                              *)
DeleteUser(i) ==
    /\ user[i] # NoName /\ Happens("user")
    /\ user' = [user EXCEPT ![i] = NoName]
    /\ steady' = steady \ {i}
    /\ UNCHANGED <<servers, tables, pc, emailToID, asked, batch, borne>>

(* A live change tells a running xray of one user.                         *)
LearnUser(n, i) ==
    /\ known[n][i] # user[i]
    /\ known' = [known EXCEPT ![n][i] = user[i]]
    /\ UNCHANGED <<users, tables, counter, carried, pc, emailToID, asked, batch,
                   happened>>

(* A push restarts xray: what was counted since the last poll is gone.     *)
PushNode(n) ==
    /\ Happens(IF SumOf(counter[n], Names) > 0 THEN "loss" ELSE "push")
    /\ known' = [known EXCEPT ![n] = user]
    /\ counter' = [counter EXCEPT ![n] = [m \in Names |-> 0]]
    /\ UNCHANGED <<users, tables, carried, pc, emailToID, asked, batch>>

Carry(n, i) ==
    /\ known[n][i] # NoName /\ Happens("carry")
    /\ counter' = [counter EXCEPT ![n][known[n][i]] = @ + 1]
    /\ carried' = [carried EXCEPT ![i] = @ + 1]
    /\ UNCHANGED <<users, tables, known, pc, emailToID, asked, batch>>

-----------------------------------------------------------------------------
(* The poller.                                                             *)

BeginPoll ==
    /\ pc = "idle" /\ Happens("poll")
    /\ pc' = "ask"
    /\ emailToID' = [m \in Names |-> IF \E i \in Ids : user[i] = m
                                     THEN CHOOSE i \in Ids : user[i] = m
                                     ELSE NoUser]
    /\ asked' = Nodes
    /\ UNCHANGED <<servers, tables, users, batch>>

(* What xray of n counted, for the users in the map; other names and       *)
(* zeroes are dropped.                                                     *)
PollUserTrafficDelta(n) ==
    {[user |-> emailToID[m], node |-> n, period |-> happened["poll"],
      bytes |-> counter[n][m]] :
        m \in {x \in Names : emailToID[x] # NoUser /\ counter[n][x] > 0}}

(* Mutant of PollNode: the counters are read and not reset.                *)
PollNode_NoReset(n) ==
    /\ pc = "ask" /\ n \in asked
    /\ batch' = batch \cup PollUserTrafficDelta(n)
    /\ asked' = asked \ {n}
    /\ UNCHANGED <<users, servers, tables, pc, emailToID, happened>>

PollNode(n) ==
    /\ pc = "ask" /\ n \in asked
    /\ batch' = batch \cup PollUserTrafficDelta(n)
    /\ counter' = [counter EXCEPT ![n] = [m \in Names |-> 0]]
    /\ asked' = asked \ {n}
    /\ UNCHANGED <<users, tables, known, carried, pc, emailToID, happened>>

(* No connection: nothing is reset.                                        *)
PollFails(n) ==
    /\ pc = "ask" /\ n \in asked /\ Happens("fail")
    /\ asked' = asked \ {n}
    /\ UNCHANGED <<users, servers, tables, pc, emailToID, batch>>

(* The answer does not arrive in time: the counters are reset already.     *)
PollAnswerLost(n) ==
    /\ pc = "ask" /\ n \in asked /\ Happens("loss")
    /\ counter' = [counter EXCEPT ![n] = [m \in Names |-> 0]]
    /\ asked' = asked \ {n}
    /\ UNCHANGED <<users, tables, known, carried, pc, emailToID, batch>>

Done(next) == /\ pc' = next
              /\ emailToID' = NoMap /\ asked' = {} /\ batch' = {}

(* Mutants of WriteCycle: the total is overwritten; only the first node's  *)
(* report reaches the total.                                               *)
WriteCycle_Overwrite ==
    /\ pc = "ask" /\ asked = {}
    /\ samples' = samples \cup batch
    /\ total' = [i \in Ids |-> IF BytesOf(i, batch) > 0 THEN BytesOf(i, batch)
                               ELSE total[i]]
    /\ Done("purge")
    /\ UNCHANGED <<users, servers, happened, purged>>

WriteCycle_LastNode ==
    /\ pc = "ask" /\ asked = {}
    /\ samples' = samples \cup batch
    /\ total' = [i \in Ids |->
                   total[i] + Max({s.bytes : s \in {t \in batch : t.user = i}} \cup {0})]
    /\ Done("purge")
    /\ UNCHANGED <<users, servers, happened, purged>>

(* One transaction: samples inserted, totals inserted or added to.         *)
WriteCycle ==
    /\ pc = "ask" /\ asked = {}
    /\ samples' = samples \cup batch
    /\ total' = [i \in Ids |-> total[i] + BytesOf(i, batch)]
    /\ Done("purge")
    /\ UNCHANGED <<users, servers, happened, purged>>

WriteFails ==
    /\ pc = "ask" /\ asked = {} /\ batch # {} /\ Happens("loss")
    /\ Done("purge")
    /\ UNCHANGED <<users, servers, tables>>

(* Every cycle ends with the removal of samples older than the retention,  *)
(* whatever it is set to; 0 keeps them all.                                *)
PurgeExpiredSamples ==
    /\ pc = "purge"
    /\ \E cutoff \in 0 .. happened["poll"] :
          /\ samples' = {s \in samples : s.period >= cutoff}
          /\ purged' = (purged \/ samples' # samples)
    /\ pc' = "idle"
    /\ UNCHANGED <<users, servers, total, emailToID, asked, batch, happened>>

(* The panel stops in the middle of a cycle.                               *)
Crash ==
    /\ pc # "idle" /\ Happens("loss")
    /\ Done("idle")
    /\ UNCHANGED <<users, servers, tables>>

PollAll == \/ BeginPoll \/ \E n \in Nodes : PollNode(n) \/ PollFails(n) \/ PollAnswerLost(n)
           \/ WriteCycle \/ WriteFails

TrafficNext ==
    \/ PollAll \/ PurgeExpiredSamples \/ Crash
    \/ \E i \in Ids, m \in Names : CreateUser(i, m) \/ RenameUser(i, m)
    \/ \E i \in Ids : DeleteUser(i)
    \/ \E n \in Nodes, i \in Ids : LearnUser(n, i) \/ Carry(n, i)
    \/ \E n \in Nodes : PushNode(n)

TrafficSpec == TrafficInit /\ [][TrafficNext]_trafficVars

-----------------------------------------------------------------------------
(* Properties.                                                             *)

(* Every variable keeps to its domain.                                     *)
TrafficTypeOK ==
    /\ user \in [Ids -> Names \cup {NoName}]
    /\ known \in [Nodes -> [Ids -> Names \cup {NoName}]]
    /\ counter \in [Nodes -> [Names -> Nat]]
    /\ pc \in {"idle", "ask", "purge"}
    /\ emailToID \in [Names -> Ids \cup {NoUser}]
    /\ asked \subseteq Nodes /\ batch \subseteq Sample /\ samples \subseteq Sample
    /\ total \in [Ids -> Nat] /\ happened \in [Happenings -> Nat]
    /\ carried \in [Ids -> Nat] /\ borne \in [Ids -> SUBSET Names]
    /\ steady \subseteq Ids /\ purged \in BOOLEAN

(* The names of i were never another user's.                               *)
Unshared(i) == \A j \in Ids \ {i} : borne[i] \cap borne[j] = {}

(* What the nodes have counted under names in S and not reported yet.      *)
Unread(S) == SumOf([n \in Nodes |-> SumOf(counter[n], S)], Nodes)

Accounted(i) == total[i] + BytesOf(i, batch) + Unread(borne[i])

(* xray/stats.go, reset = true: whatever fails, a byte is counted at most  *)
(* once, and to nobody but the user who used it as long as names are not   *)
(* handed on.                                                              *)
NoByteCountsTwice ==
    /\ \A i \in Ids : Unshared(i) => Accounted(i) <= carried[i]
    /\ SumOf(total, Ids) + Bytes(batch) + Unread(Names) <= SumOf(carried, Ids)

(* repository/traffic.go, WriteCycle: the total of a user is the sum of    *)
(* the samples, of those that were ever written once some are purged.      *)
SamplesAddUp ==
    \A i \in Ids : /\ BytesOf(i, samples) <= total[i]
                   /\ purged \/ BytesOf(i, samples) = total[i]

(* As long as nothing fails, no xray restarts over unread counters and the *)
(* user was there under one name before the poll began, every byte is in   *)
(* the total or on its way there.                                          *)
KnownUsersAreCounted ==
    happened["loss"] = 0 => \A i \in steady : Unshared(i) => Accounted(i) = carried[i]

(* service/traffic.go, pollNode: only counts of deleted users are dropped. *)
OnlyDeletedAreDropped ==
    happened["loss"] = 0 => \A i \in Ids :
        Unshared(i) /\ user[i] # NoName => Accounted(i) = carried[i]

=============================================================================
