----------------------------- MODULE Provision -----------------------------
(***************************************************************************)
(* Protocols on nodes: profile templates, the node keys that bind them to  *)
(* a node, the inbounds GenerateConfig makes of them, and the links that   *)
(* subscriptions hand to users.  ProfileService checks ports and locks     *)
(* first and writes later, one statement at a time, while other requests   *)
(* do the same.                                                            *)
(*                                                                         *)
(* A settings text is the record of the fields that decide something: the  *)
(* Reality key pair (private key, public key and short ids together), the  *)
(* server name, and for the http and socks proxies whether there is a      *)
(* whitelist, whether there are accounts, and allow_private.  Fingerprint, *)
(* path, certificate files and bandwidth are left out, and so is text that *)
(* is not JSON.  Nodes are active throughout; pushes succeed.              *)
(***************************************************************************)
EXTENDS Naturals

CONSTANTS
    Nodes, Users, Workers,
    Profiles,   \* profile ids, in the order of their creation
    Pairs,      \* Reality key pairs
    Snis,       \* server names an operator may enter
    DefaultSni, \* the server name of Reality when none is entered
    NodeAddr,   \* stands for the address of the node itself
    NoPair, NoSni,
    Due,        \* in the place of the inbounds of a node that is due a push
    Reach,      \* user -> nodes of the user's groups
    Templates,  \* profiles the requests create: protocol, port, settings
    KeyForms,   \* node keys the requests save: port (0: inherit), settings
    Limit,      \* bounds of the model: kind of event -> how often it may occur
    Budget      \* and how many of them together

Protocols == {"vless-reality", "vless-ws-tls", "trojan", "hysteria2",
              "http", "socks"}
Proxies   == {"http", "socks"}
Events    == {"request", "probe", "user"}

Settings == [pair : Pairs \cup {NoPair}, sni : Snis \cup {NoSni},
             list : BOOLEAN, accounts : BOOLEAN, private : {"unset", "yes", "no"}]
Template == [proto : Protocols, port : Nat \ {0}, set : Settings]
KeyForm  == [port : Nat, set : Settings]

ASSUME ProvisionAssumption ==
    /\ Profiles \subseteq Nat
    /\ NoPair \notin Pairs /\ NoSni \notin Snis \cup {DefaultSni, NodeAddr}
    /\ Reach \in [Users -> SUBSET Nodes]
    /\ Templates \subseteq Template /\ KeyForms \subseteq KeyForm
    /\ Limit \in [Events -> Nat] /\ Budget \in Nat

VARIABLES
    profile,    \* the inbound_profiles table
    key,        \* the node_profile_keys table: node -> profile -> row
    given,      \* the inbounds each node was last given, or Due when its sync
                \* status is drifted
    healthy,    \* last_check_ok of the nodes
    user,       \* users: enabled, disabled or past their expiry
    job,        \* the requests under way
    used        \* bounded events so far

vars == <<profile, key, given, healthy, user, job, used>>

Blank      == [pair |-> NoPair, sni |-> NoSni, list |-> FALSE,
               accounts |-> FALSE, private |-> "unset"]
NoProfile  == [st |-> "none", proto |-> "trojan", port |-> 1, set |-> Blank]
NoKey      == [bound |-> FALSE, made |-> 0, port |-> 0, set |-> Blank,
               locked |-> FALSE]
Profile    == [st : {"none", "on", "off", "gone"}, proto : Protocols,
               port : Nat \ {0}, set : Settings]
Key        == [bound : BOOLEAN, made : Nat, port : Nat, set : Settings,
               locked : BOOLEAN]
Pc         == {"idle", "edit", "check", "first", "put", "drop", "lock", "mark"}

Inbound    == [profile : Profiles, proto : Protocols, port : Nat,
               pair : Pairs \cup {NoPair}, sni : Snis \cup {DefaultSni, NoSni}]

AnyNode    == CHOOSE n \in Nodes : TRUE
AnyProfile == CHOOSE p \in Profiles : TRUE
Idle       == [pc |-> "idle", node |-> AnyNode, profile |-> AnyProfile,
               form |-> [port |-> 0, set |-> Blank], lock |-> FALSE,
               tpl |-> NoProfile, row |-> NoKey, alone |-> TRUE]

Job        == [pc : Pc, node : Nodes \cup {AnyNode}, form : KeyForm,
               profile : Profiles \cup {AnyProfile}, lock : BOOLEAN,
               tpl : Profile, row : Key, alone : BOOLEAN]

Exists(p)       == profile[p].st \in {"on", "off"}
Spend(e)        == /\ used[e] < Limit[e]
                   /\ used["request"] + used["probe"] + used["user"] < Budget
                   /\ used' = [used EXCEPT ![e] = @ + 1]

-----------------------------------------------------------------------------
(* What a key and its template come to.                                    *)

Transport(proto) == IF proto = "hysteria2" THEN "udp" ELSE "tcp"

EffectivePort(n, p) == IF key[n][p].port > 0 THEN key[n][p].port
                       ELSE profile[p].port
PortKey(n, p) == <<Transport(profile[p].proto), EffectivePort(n, p)>>

(* The node's value, else the template's.                                  *)
Override(own, inherited, none) == IF own # none THEN own ELSE inherited

EffectiveRealitySNI(n, p) ==
    Override(key[n][p].set.sni,
             Override(profile[p].set.sni, DefaultSni, NoSni), NoSni)
EffectivePair(n, p)       == Override(key[n][p].set.pair, profile[p].set.pair, NoPair)
EffectiveProxyAllowedIPs(n, p) == key[n][p].set.list \/ profile[p].set.list
EffectiveProxyAccounts(n, p)   == key[n][p].set.accounts \/ profile[p].set.accounts
EffectiveProxyAllowPrivate(n, p) ==
    Override(key[n][p].set.private, profile[p].set.private, "unset") = "yes"

FindActiveKeysForNode(n) ==
    {p \in Profiles : key[n][p].bound /\ profile[p].st = "on"}

-----------------------------------------------------------------------------
(* GenerateConfig.                                                         *)

(* Protocols xray lacks, Reality without a private key and open proxies    *)
(* get no inbound.                                                         *)
Buildable(n, p) ==
    CASE profile[p].proto = "vless-reality" -> EffectivePair(n, p) # NoPair
      [] profile[p].proto \in Proxies -> \/ EffectiveProxyAllowedIPs(n, p)
                                         \/ EffectiveProxyAccounts(n, p)
      [] profile[p].proto = "hysteria2" -> FALSE
      [] OTHER -> TRUE

(* Mutant of BuildInbound: it listens on the template's port.              *)
BuildInbound_TemplatePort(n, p) ==
    LET reality == profile[p].proto = "vless-reality"
    IN [profile |-> p, proto |-> profile[p].proto, port |-> profile[p].port,
        pair |-> IF reality THEN EffectivePair(n, p) ELSE NoPair,
        sni  |-> IF reality THEN EffectiveRealitySNI(n, p)
                 ELSE IF profile[p].proto \in Proxies THEN NoSni
                 ELSE profile[p].set.sni]

BuildInbound(n, p) ==
    LET reality == profile[p].proto = "vless-reality"
    IN [profile |-> p, proto |-> profile[p].proto, port |-> EffectivePort(n, p),
        pair |-> IF reality THEN EffectivePair(n, p) ELSE NoPair,
        sni  |-> IF reality THEN EffectiveRealitySNI(n, p)
                 ELSE IF profile[p].proto \in Proxies THEN NoSni
                 ELSE profile[p].set.sni]

(* The loop goes through the keys in the order of their profiles: the      *)
(* first that can be built on a port takes it, the later ones are skipped. *)
Candidates(n) == {p \in FindActiveKeysForNode(n) : Buildable(n, p)}
Served(n) == {p \in Candidates(n) :
                 \A q \in Candidates(n) : q < p => PortKey(n, q) # PortKey(n, p)}
Inbounds(n) == {BuildInbound(n, p) : p \in Served(n)}

(* Routing rules.  A rule matches an inbound, or private targets; direct   *)
(* rules of a proxy with a whitelist match the listed sources only.  The   *)
(* list is in order of "at": what stands before the private block and what *)
(* after, there by profile, there by number.                               *)
Before == 1
Middle == 2
After  == 3

Rule(p, source, out, at) ==
    [profiles |-> {p}, source |-> source, target |-> "any", out |-> out, at |-> at]

(* Mutant of BlockPrivate: the private block comes last.                   *)
BlockPrivate_Last ==
    [profiles |-> Profiles, source |-> "any", target |-> "private", out |-> "block",
     at |-> <<After + 1, 0, 0>>]

BlockPrivate ==
    [profiles |-> Profiles, source |-> "any", target |-> "private", out |-> "block",
     at |-> <<Middle, 0, 0>>]

(* Without a whitelist the accounts protect the proxy.                     *)
ProxyRoutingRules(n, p) ==
    LET private == EffectiveProxyAllowPrivate(n, p)
    IN IF EffectiveProxyAllowedIPs(n, p)
       THEN {Rule(p, "listed", "direct", <<IF private THEN Before ELSE After, p, 1>>),
             Rule(p, "any", "block", <<After, p, 2>>)}
       ELSE IF private THEN {Rule(p, "any", "direct", <<Before, p, 1>>)} ELSE {}

Rules(n) == {BlockPrivate} \cup
    UNION {ProxyRoutingRules(n, p) : p \in {q \in Served(n) : profile[q].proto \in Proxies}}

Precedes(r, s) ==
    \/ r.at[1] < s.at[1]
    \/ r.at[1] = s.at[1] /\ r.at[2] < s.at[2]
    \/ r.at[1] = s.at[1] /\ r.at[2] = s.at[2] /\ r.at[3] < s.at[3]

(* xray's router: the first rule that matches, else the first outbound.    *)
Matches(r, p, listed, private) == /\ p \in r.profiles
                                  /\ r.source = "any" \/ listed
                                  /\ r.target = "any" \/ private
Routed(rules, p, listed, private) ==
    LET hits == {r \in rules : Matches(r, p, listed, private)}
    IN IF hits = {} THEN "direct"
       ELSE (CHOOSE r \in hits : \A s \in hits : s = r \/ Precedes(r, s)).out

-----------------------------------------------------------------------------
(* Subscriptions.                                                          *)

Offer(n, p, sni, pair) ==
    {[node |-> n, profile |-> p, proto |-> profile[p].proto,
      port |-> EffectivePort(n, p), sni |-> sni, pair |-> pair]}

Reality(p)   == profile[p].proto = "vless-reality"
OverTls(p)   == profile[p].proto \in {"vless-ws-tls", "trojan", "hysteria2"}
TlsSni(p)    == Override(profile[p].set.sni, NodeAddr, NoSni)
OwnPair(n, p) == key[n][p].set.pair

(* What each format says of a binding, as a set: nothing of a proxy.       *)
BuildURI(n, p) ==
    CASE Reality(p) -> Offer(n, p, EffectiveRealitySNI(n, p), OwnPair(n, p))
      [] OverTls(p) -> Offer(n, p, TlsSni(p), NoPair)
      [] OTHER -> {}

BuildClashProxy(n, p) ==
    CASE Reality(p) -> Offer(n, p, EffectiveRealitySNI(n, p), OwnPair(n, p))
      [] OverTls(p) -> Offer(n, p, TlsSni(p), NoPair)
      [] OTHER -> {}

(* Mutant of BuildSingboxOutbound: the server name of the template only.   *)
BuildSingboxOutbound_TemplateSni(n, p) ==
    CASE Reality(p) -> Offer(n, p, Override(profile[p].set.sni, DefaultSni, NoSni),
                             OwnPair(n, p))
      [] OverTls(p) -> Offer(n, p, TlsSni(p), NoPair)
      [] OTHER -> {}

BuildSingboxOutbound(n, p) ==
    CASE Reality(p) -> Offer(n, p, EffectiveRealitySNI(n, p), OwnPair(n, p))
      [] OverTls(p) -> Offer(n, p, TlsSni(p), NoPair)
      [] OTHER -> {}

(* Who is served: FindActiveUsersByNodeID for the configuration, the tests *)
(* at the head of every subscription format, and the nodes of the user's   *)
(* groups: the healthy ones, or all of them when none is.                  *)
FindActiveUsersByNodeID(n) == {u \in Users : user[u] = "on" /\ n \in Reach[u]}
FindHealthyByGroupIDs(u) == Reach[u] \cap healthy

Offered(u, Build(_, _)) ==
    LET nodes == IF FindHealthyByGroupIDs(u) # {} THEN FindHealthyByGroupIDs(u)
                 ELSE Reach[u]
    IN IF user[u] # "on" THEN {}
       ELSE UNION {Build(b[1], b[2]) : b \in
                     {c \in nodes \X Profiles : c[2] \in FindActiveKeysForNode(c[1])}}

GenerateSubscription(u) == Offered(u, BuildURI)
GenerateClash(u)        == Offered(u, BuildClashProxy)
GenerateSingbox(u)      == Offered(u, BuildSingboxOutbound)

(* The information page: of each node the first binding that has a link.   *)
SubscribePage(u) ==
    {e \in GenerateSubscription(u) :
        \A f \in GenerateSubscription(u) : f.node = e.node => e.profile <= f.profile}

-----------------------------------------------------------------------------
(* A panel in use: some profiles, some of them bound, no two on one port   *)
(* of a node, and nothing pushed yet.                                      *)

PortTaken(n, p, transport, port) ==
    \E q \in Profiles \ {p} : /\ key[n][q].bound /\ Exists(q)
                              /\ PortKey(n, q) = <<transport, port>>

FromTemplate(t) == [st |-> "on", proto |-> t.proto, port |-> t.port, set |-> t.set]
FromForm(f)     == [bound |-> TRUE, made |-> 1, port |-> f.port, set |-> f.set,
                    locked |-> FALSE]

Init ==
    /\ profile \in [Profiles -> {NoProfile} \cup {FromTemplate(t) : t \in Templates}]
    /\ \A p, q \in Profiles : q < p /\ Exists(p) => Exists(q)
    /\ key \in [Nodes -> [Profiles -> {NoKey} \cup {FromForm(f) : f \in KeyForms}]]
    /\ \A n \in Nodes, p \in Profiles : key[n][p].bound =>
          /\ Exists(p)
          /\ ~PortTaken(n, p, Transport(profile[p].proto), EffectivePort(n, p))
    /\ given = [n \in Nodes |-> Due]
    /\ healthy = Nodes
    /\ user = [u \in Users |-> "on"]
    /\ job = [w \in Workers |-> Idle]
    /\ used = [e \in Events |-> 0]

-----------------------------------------------------------------------------
(* Requests.                                                               *)

(* A request that writes leaves the others with what they have read.       *)
Marking        == [Idle EXCEPT !.pc = "mark"]
Step(w, next)  == job' = [job EXCEPT ![w] = next]
Write(w, next) ==
    job' = [v \in Workers |->
               IF v = w THEN next
               ELSE [job[v] EXCEPT !.alone = @ /\ job[v].pc \in {"idle", "mark"}]]

(* The row is inserted with active = true whatever the request says: the   *)
(* database default stands in for a false.                                 *)
CreateProfile(w) ==
    /\ job[w].pc = "idle" /\ Spend("request")
    /\ \E p \in Profiles, t \in Templates :
        /\ profile[p].st = "none" /\ \A q \in Profiles : q < p => profile[q].st # "none"
        /\ profile' = [profile EXCEPT ![p] = FromTemplate(t)]
    /\ Write(w, Marking)
    /\ UNCHANGED <<key, given, healthy, user>>

(* Bindings of a deleted profile stay behind, without a profile.           *)
DeleteProfile(w) ==
    /\ job[w].pc = "idle" /\ Spend("request")
    /\ \E p \in Profiles : /\ Exists(p)
                           /\ profile' = [profile EXCEPT ![p].st = "gone"]
    /\ Write(w, Marking)
    /\ UNCHANGED <<key, given, healthy, user>>

UpdateFind(w) ==
    /\ job[w].pc = "idle" /\ Spend("request")
    /\ \E p \in Profiles :
        /\ Exists(p)
        /\ Step(w, [job[w] EXCEPT !.pc = "edit", !.profile = p, !.tpl = profile[p]])
    /\ UNCHANGED <<profile, key, given, healthy, user>>

(* The whole row as read, with the fields of the request: a profile that   *)
(* was deleted meanwhile is inserted again.  Ports are not checked.        *)
UpdateSave(w) ==
    /\ job[w].pc = "edit"
    /\ \E t \in Templates, st \in {"on", "off"} :
        \E row \in {[job[w].tpl EXCEPT !.proto = t.proto],
                    [job[w].tpl EXCEPT !.port = t.port],
                    [job[w].tpl EXCEPT !.set = t.set],
                    [job[w].tpl EXCEPT !.st = st]} :
            profile' = [profile EXCEPT ![job[w].profile] = row]
    /\ Write(w, Marking)
    /\ UNCHANGED <<key, given, healthy, user, used>>

(* UpsertNodeKey and KeygenForNode: the template, the port check, the row  *)
(* there is, the write.  Keygen inherits the template's port and comes     *)
(* with a pair of its own.                                                 *)
UpsertNodeKey(w) ==
    /\ job[w].pc = "idle" /\ Spend("request")
    /\ \E n \in Nodes, p \in Profiles, f \in KeyForms :
        /\ Exists(p)
        /\ Step(w, [job[w] EXCEPT !.pc = "check", !.node = n, !.profile = p,
                                  !.form = f, !.tpl = profile[p]])
    /\ UNCHANGED <<profile, key, given, healthy, user>>

KeygenForNode(w) ==
    /\ job[w].pc = "idle" /\ Spend("request")
    /\ \E n \in Nodes, p \in Profiles, k \in Pairs :
        /\ Exists(p) /\ Reality(p)
        /\ Step(w, [job[w] EXCEPT !.pc = "check", !.node = n, !.profile = p,
                                  !.form = [port |-> 0, set |-> [Blank EXCEPT !.pair = k]],
                                  !.tpl = profile[p]])
    /\ UNCHANGED <<profile, key, given, healthy, user>>

(* Mutant of EnsureNoPortConflict: the override of the request is ignored. *)
EnsureNoPortConflict_TemplatePort(w) ==
    LET j == job[w]
    IN /\ j.pc = "check"
       /\ Step(w, IF PortTaken(j.node, j.profile, Transport(j.tpl.proto), j.tpl.port)
                  THEN Idle ELSE [job[w] EXCEPT !.pc = "first", !.tpl = NoProfile])
       /\ UNCHANGED <<profile, key, given, healthy, user, used>>

EnsureNoPortConflict(w) ==
    LET j == job[w]
        port == IF j.form.port > 0 THEN j.form.port ELSE j.tpl.port
    IN /\ j.pc = "check"
       /\ Step(w, IF PortTaken(j.node, j.profile, Transport(j.tpl.proto), port)
                  THEN Idle ELSE [job[w] EXCEPT !.pc = "first", !.tpl = NoProfile])
       /\ UNCHANGED <<profile, key, given, healthy, user, used>>

(* Mutant of UpsertFind: the lock is not looked at.                        *)
UpsertFind_IgnoreLock(w) ==
    /\ job[w].pc = "first"
    /\ Step(w, [job[w] EXCEPT !.pc = "put", !.row = key[job[w].node][job[w].profile]])
    /\ UNCHANGED <<profile, key, given, healthy, user, used>>

UpsertFind(w) ==
    LET row == key[job[w].node][job[w].profile]
    IN /\ job[w].pc = "first"
       /\ Step(w, IF row.bound /\ row.locked THEN Idle
                  ELSE [job[w] EXCEPT !.pc = "put", !.row = row])
       /\ UNCHANGED <<profile, key, given, healthy, user, used>>

(* The row as read is saved whole, its lock flag included, and inserted    *)
(* again if it was deleted; a row that was not there is created, which the *)
(* unique index refuses when somebody else has created it meanwhile.       *)
UpsertWrite(w) ==
    LET j   == job[w]
        now == key[j.node][j.profile]
        new == IF j.row.bound THEN j.row
               ELSE [NoKey EXCEPT !.bound = TRUE, !.made = now.made + 1]
        refused == now.bound /\ now.made # new.made
    IN /\ j.pc = "put"
       /\ IF refused THEN Step(w, Idle) /\ UNCHANGED key
          ELSE /\ key' = [key EXCEPT ![j.node][j.profile] =
                             [new EXCEPT !.port = j.form.port, !.set = j.form.set]]
               /\ Write(w, Marking)
       /\ UNCHANGED <<profile, given, healthy, user, used>>

DeleteKeyFind(w) ==
    /\ job[w].pc = "idle" /\ Spend("request")
    /\ \E n \in Nodes, p \in Profiles :
        /\ key[n][p].bound /\ ~key[n][p].locked
        /\ Step(w, [job[w] EXCEPT !.pc = "drop", !.node = n, !.profile = p])
    /\ UNCHANGED <<profile, key, given, healthy, user>>

(* Mutant of DeleteKey: the nodes are not marked.                          *)
DeleteKey_NoMark(w) ==
    /\ job[w].pc = "drop"
    /\ key' = [key EXCEPT ![job[w].node][job[w].profile] =
                  [NoKey EXCEPT !.made = key[job[w].node][job[w].profile].made]]
    /\ Write(w, Idle)
    /\ UNCHANGED <<profile, given, healthy, user, used>>

DeleteKey(w) ==
    /\ job[w].pc = "drop"
    /\ key' = [key EXCEPT ![job[w].node][job[w].profile] =
                  [NoKey EXCEPT !.made = key[job[w].node][job[w].profile].made]]
    /\ Write(w, Marking)
    /\ UNCHANGED <<profile, given, healthy, user, used>>

SetNodeKeyLocked(w) ==
    /\ job[w].pc = "idle" /\ Spend("request")
    /\ \E n \in Nodes, p \in Profiles, locked \in BOOLEAN :
        /\ key[n][p].bound
        /\ Step(w, [job[w] EXCEPT !.pc = "lock", !.node = n, !.profile = p,
                                  !.lock = locked])
    /\ UNCHANGED <<profile, key, given, healthy, user>>

SetKeyLocked(w) ==
    LET j == job[w]
    IN /\ j.pc = "lock"
       /\ key' = [key EXCEPT ![j.node][j.profile].locked =
                     IF key[j.node][j.profile].bound THEN j.lock ELSE FALSE]
       /\ Write(w, Idle)
       /\ UNCHANGED <<profile, given, healthy, user, used>>

MarkAllDrifted(w) ==
    /\ job[w].pc = "mark"
    /\ given' = [n \in Nodes |-> Due]
    /\ Step(w, Idle)
    /\ UNCHANGED <<profile, key, healthy, user, used>>

-----------------------------------------------------------------------------
(* The rest of the panel.                                                  *)

(* A push that succeeds (ConfigSync has its steps): refused while no       *)
(* protocol is bound.                                                      *)
SyncNode(n) ==
    /\ FindActiveKeysForNode(n) # {}
    /\ given' = [given EXCEPT ![n] = Inbounds(n)]
    /\ UNCHANGED <<profile, key, healthy, user, job, used>>

CheckNode(n) ==
    /\ Spend("probe")
    /\ healthy' = IF n \in healthy THEN healthy \ {n} ELSE healthy \cup {n}
    /\ UNCHANGED <<profile, key, given, user, job>>

ChangeUser(u) ==
    /\ Spend("user")
    /\ \E st \in {"on", "off", "expired"} : user' = [user EXCEPT ![u] = st]
    /\ UNCHANGED <<profile, key, given, healthy, job>>

Request(w) ==
    \/ CreateProfile(w) \/ DeleteProfile(w) \/ UpdateFind(w) \/ UpdateSave(w)
    \/ UpsertNodeKey(w) \/ KeygenForNode(w) \/ EnsureNoPortConflict(w)
    \/ UpsertFind(w) \/ UpsertWrite(w) \/ DeleteKeyFind(w) \/ DeleteKey(w)
    \/ SetNodeKeyLocked(w) \/ SetKeyLocked(w) \/ MarkAllDrifted(w)

Next ==
    \/ \E w \in Workers : Request(w)
    \/ \E n \in Nodes : SyncNode(n) \/ CheckNode(n)
    \/ \E u \in Users : ChangeUser(u)

Spec == Init /\ [][Next]_vars

-----------------------------------------------------------------------------
(* Properties.                                                             *)

(* Every variable keeps to its domain.                                     *)
TypeOK ==
    /\ profile \in [Profiles -> Profile]
    /\ key \in [Nodes -> [Profiles -> Key]]
    /\ given \in [Nodes -> {Due} \cup SUBSET Inbound]
    /\ healthy \subseteq Nodes
    /\ user \in [Users -> {"on", "off", "expired"}]
    /\ job \in [Workers -> Job]
    /\ used \in [Events -> Nat]

(* config.go, proxyRoutingRules: whatever else is bound to the node, the   *)
(* traffic of a proxy goes out only from its listed sources (from any when *)
(* it has accounts and no whitelist), and to private addresses only when   *)
(* that proxy allows it.                                                   *)
ProxiesKeepToTheirRules ==
    \A n \in Nodes : \A p \in Served(n) : profile[p].proto \in Proxies =>
        \A listed, private \in BOOLEAN :
            Routed(Rules(n), p, listed, private) = "direct" <=>
                /\ EffectiveProxyAllowedIPs(n, p) => listed
                /\ private => EffectiveProxyAllowPrivate(n, p)

(* pkg/types: URI, Clash and sing-box subscriptions name the same servers, *)
(* ports, server names and keys, and the page has a link of every node     *)
(* that the URI list has.                                                  *)
FormatsAgree ==
    \A u \in Users :
        /\ GenerateClash(u) = GenerateSubscription(u)
        /\ GenerateSingbox(u) = GenerateSubscription(u)
        /\ \A e \in GenerateSubscription(u) :
               \E f \in SubscribePage(u) : f.node = e.node

(* Once all requests are through their marking, a node that is not marked  *)
(* has the inbounds that would be generated for it now.                    *)
Settled(n) == given[n] # Due /\ \A w \in Workers : job[w].pc # "mark"
UnmarkedIsCurrent ==
    \A n \in Nodes : Settled(n) => given[n] = Inbounds(n)

(* What a subscription offers on a node that is up to date is served there *)
(* as described and to that user, but for three known kinds of dead link:  *)
(* Hysteria2, which xray lacks; a Reality key pair that is only in the     *)
(* template; a port that an older profile holds.                           *)
Answers(i, e) ==
    /\ i.profile = e.profile /\ i.port = e.port /\ i.pair = e.pair
    /\ i.sni = e.sni \/ (i.sni = NoSni /\ e.sni = NodeAddr)
DeadLinksAreKnown ==
    \A u \in Users : \A e \in GenerateSubscription(u) :
        Settled(e.node) =>
            \/ /\ \E i \in given[e.node] : Answers(i, e)
               /\ u \in FindActiveUsersByNodeID(e.node)
            \/ e.proto = "hysteria2"
            \/ e.proto = "vless-reality" /\ e.pair = NoPair
            \/ \E i \in given[e.node] : i.port = e.port /\ i.profile < e.profile

(* release-notes/v0.3.0.md: clients connect where the node listens.        *)
LinksAreListenedOn ==
    \A u \in Users : \A e \in GenerateSubscription(u) :
        Settled(e.node) /\ e.proto # "hysteria2" /\ (Reality(e.profile) => e.pair # NoPair)
            => \E i \in given[e.node] : Answers(i, e)

(* pkg/types: a key without a pair falls back to the template's, in the    *)
(* subscription as in the inbound.                                         *)
TemplatePairIsAdvertised ==
    \A u \in Users : \A e \in GenerateSubscription(u) :
        Settled(e.node) /\ e.profile \in Served(e.node)
            => \E i \in given[e.node] : Answers(i, e)

(* ensureNoPortConflict: saving a key takes no other protocol of the node  *)
(* off its port, unless another request wrote between check and save.      *)
NobodyIsDisplaced ==
    [][\A w \in Workers, n \in Nodes :
        /\ job[w].pc = "put" /\ job'[w].pc = "mark"
        /\ job[w].alone /\ job[w].node = n
        => Served(n) \ {job[w].profile} \subseteq Served(n)']_vars

(* A locked binding is changed only by a request that had passed its check *)
(* before the lock was set.                                                *)
LockHolds ==
    [][\A n \in Nodes, p \in Profiles :
        key[n][p].locked =>
            \/ /\ key'[n][p].bound
               /\ key'[n][p].port = key[n][p].port /\ key'[n][p].set = key[n][p].set
            \/ \E w \in Workers : /\ job[w].pc \in {"put", "drop"} /\ ~job[w].alone
                                  /\ job[w].node = n /\ job[w].profile = p]_vars

(* release-notes/v0.1.10.md: the settings of a locked binding stay.        *)
LockIsFinal ==
    [][\A n \in Nodes, p \in Profiles : key[n][p].locked /\ key'[n][p].bound =>
        key'[n][p].port = key[n][p].port /\ key'[n][p].set = key[n][p].set]_vars

=============================================================================
