-------------------------- MODULE ProvisionProofs --------------------------
(* Proofs about Provision, for any nodes, profiles, users, overlapping     *)
(* requests, inputs and bounds.                                            *)
(*                                                                         *)
(* The order of the routing rules, the agreement of the formats and what a *)
(* link promises are matters of one state.  The rest is invariants: a node *)
(* that is not marked runs what its keys and templates say, and what a     *)
(* request has read still stands as long as nobody else has written.       *)
EXTENDS Provision, WellFoundedInduction, TLAPS

LEMMA Minimum ==
    ASSUME NEW S, S \subseteq Nat, S # {}
    PROVE  \E m \in S : \A k \in S : m <= k
<1>1. IsWellFoundedOn(OpToRel(<, Nat), Nat)
  BY NatLessThanWellFounded
<1>2. PICK m \in S : \A k \in S : ~(<<k, m>> \in OpToRel(<, Nat))
  BY <1>1, WFMin
<1>3. ASSUME NEW k \in S PROVE m <= k
  <2>1. ~(<<k, m>> \in OpToRel(<, Nat))
    BY <1>2
  <2>2. k \in Nat /\ m \in Nat
    OBVIOUS
  <2>. QED
    BY <2>1, <2>2 DEF OpToRel
<1>. QED
  BY <1>3


-----------------------------------------------------------------------------
(* Inbounds, rules and links of one state.                                 *)

LEMMA ServedFits ==
    ASSUME NEW n \in Nodes, NEW p \in Served(n)
    PROVE  /\ p \in Profiles /\ p \in Nat
           /\ p \in FindActiveKeysForNode(n) /\ Buildable(n, p)
           /\ key[n][p].bound /\ profile[p].st = "on"
BY ProvisionAssumption DEF ProvisionAssumption, Served, Candidates, FindActiveKeysForNode

(* A binding that can be built is served, or an older one holds its port.  *)
LEMMA PortIsHeld ==
    ASSUME NEW n \in Nodes, NEW p \in Candidates(n)
    PROVE  \/ p \in Served(n)
           \/ \E q \in Served(n) : q < p /\ PortKey(n, q) = PortKey(n, p)
<1>. DEFINE T == {q \in Candidates(n) : q < p /\ PortKey(n, q) = PortKey(n, p)}
<1>1. Candidates(n) \subseteq Nat
  BY ProvisionAssumption DEF ProvisionAssumption, Candidates, FindActiveKeysForNode
<1>2. CASE T = {}
  BY <1>2 DEF Served
<1>3. CASE T # {}
  <2>1. PICK m \in T : \A k \in T : m <= k
    BY <1>1, <1>3, Minimum
  <2>2. m \in Candidates(n) /\ m < p /\ PortKey(n, m) = PortKey(n, p)
    OBVIOUS
  <2>3. ASSUME NEW q \in Candidates(n), q < m PROVE PortKey(n, q) # PortKey(n, m)
    <3>1. q \in Nat /\ m \in Nat /\ p \in Nat
      BY <1>1, <2>2
    <3>2. q \notin T
      BY <2>1, <2>3, <3>1
    <3>3. q < p
      BY <2>2, <2>3, <3>1
    <3>. QED
      BY <2>2, <3>2, <3>3
  <2>4. m \in Served(n)
    BY <2>2, <2>3 DEF Served
  <2>. QED
    BY <2>2, <2>4
<1>. QED
  BY <1>2, <1>3

(* The first rule is the one that precedes all others.                     *)
LEMMA FirstRule ==
    ASSUME NEW hits, NEW r \in hits,
           \A s \in hits : s.at[1] \in Nat /\ s.at[2] \in Nat /\ s.at[3] \in Nat,
           \A s \in hits : s = r \/ Precedes(r, s)
    PROVE  (CHOOSE x \in hits : \A s \in hits : s = x \/ Precedes(x, s)) = r
<1>. DEFINE First(x) == \A s \in hits : s = x \/ Precedes(x, s)
<1>1. First(r)
  OBVIOUS
<1>2. ASSUME NEW x \in hits, First(x) PROVE x = r
  <2>1. x = r \/ (Precedes(r, x) /\ Precedes(x, r))
    BY <1>1, <1>2
  <2>2. /\ x.at[1] \in Nat /\ x.at[2] \in Nat /\ x.at[3] \in Nat
        /\ r.at[1] \in Nat /\ r.at[2] \in Nat /\ r.at[3] \in Nat
    OBVIOUS
  <2>. QED
    BY <2>1, <2>2 DEF Precedes
<1>. HIDE DEF First
<1>3. (CHOOSE x \in hits : First(x)) \in hits /\ First(CHOOSE x \in hits : First(x))
  BY <1>1
<1>4. (CHOOSE x \in hits : First(x)) = r
  BY <1>2, <1>3
<1>. QED
  BY <1>4 DEF First

(* Of the rules of a node those that match a proxy are its own and the     *)
(* private block.                                                          *)
LEMMA RulesThatMatch ==
    ASSUME NEW n \in Nodes, NEW p \in Served(n), profile[p].proto \in Proxies,
           NEW listed \in BOOLEAN, NEW private \in BOOLEAN
    PROVE  {r \in Rules(n) : Matches(r, p, listed, private)} =
               {r \in {BlockPrivate} \cup ProxyRoutingRules(n, p) :
                    Matches(r, p, listed, private)}
<1>. DEFINE Others == {q \in Served(n) : profile[q].proto \in Proxies}
            All    == UNION {ProxyRoutingRules(n, q) : q \in Others}
<1>1. p \in Others
  OBVIOUS
<1>2. ASSUME NEW q \in Others, NEW r \in ProxyRoutingRules(n, q) PROVE r.profiles = {q}
  BY DEF ProxyRoutingRules, Rule
<1>3. ASSUME NEW r \in All, Matches(r, p, listed, private)
      PROVE  r \in ProxyRoutingRules(n, p)
  <2>1. PICK q \in Others : r \in ProxyRoutingRules(n, q)
    OBVIOUS
  <2>2. p \in {q}
    BY <1>2, <1>3, <2>1 DEF Matches
  <2>. QED
    BY <2>1, <2>2
<1>4. ProxyRoutingRules(n, p) \subseteq All
  BY <1>1
<1>5. Rules(n) = {BlockPrivate} \cup All
  BY DEF Rules
<1>. HIDE DEF All
<1>. QED
  BY <1>3, <1>4, <1>5

(* What xray does with a connection of a served proxy.                     *)
LEMMA ProxyIsRouted ==
    ASSUME NEW n \in Nodes, NEW p \in Served(n), profile[p].proto \in Proxies,
           NEW listed \in BOOLEAN, NEW private \in BOOLEAN
    PROVE  Routed(Rules(n), p, listed, private) = "direct" <=>
               /\ EffectiveProxyAllowedIPs(n, p) => listed
               /\ private => EffectiveProxyAllowPrivate(n, p)
<1>. DEFINE W    == EffectiveProxyAllowedIPs(n, p)
            A    == EffectiveProxyAllowPrivate(n, p)
            rules == {BlockPrivate} \cup ProxyRoutingRules(n, p)
            hits == {r \in rules : Matches(r, p, listed, private)}
            Out  == Routed(Rules(n), p, listed, private)
            In   == Rule(p, "listed", "direct", <<IF A THEN Before ELSE After, p, 1>>)
            Shut == Rule(p, "any", "block", <<After, p, 2>>)
            Open == Rule(p, "any", "direct", <<Before, p, 1>>)
<1>1. p \in Profiles /\ p \in Nat
  BY ServedFits
<1>2. {r \in Rules(n) : Matches(r, p, listed, private)} = hits
  BY RulesThatMatch
<1>3. hits = {} => Out = "direct"
  BY <1>2 DEF Routed
<1>4. \A s \in hits : s.at[1] \in Nat /\ s.at[2] \in Nat /\ s.at[3] \in Nat
  BY <1>1 DEF BlockPrivate, ProxyRoutingRules, Rule, Before, Middle, After
<1>5. ASSUME NEW r \in hits, \A s \in hits : s = r \/ Precedes(r, s)
      PROVE  Out = r.out
  <2>1. (CHOOSE x \in hits : \A s \in hits : s = x \/ Precedes(x, s)) = r
    BY <1>4, <1>5, FirstRule
  <2>2. hits # {}
    OBVIOUS
  <2>. HIDE DEF hits
  <2>. QED
    BY <1>2, <2>1, <2>2 DEF Routed
<1>6. ASSUME NEW r \in rules
      PROVE  r \in hits <=> Matches(r, p, listed, private)
  OBVIOUS
<1>7. Matches(BlockPrivate, p, listed, private) <=> private
  BY <1>1 DEF Matches, BlockPrivate
<1>8. /\ Matches(In, p, listed, private) <=> listed
      /\ Matches(Shut, p, listed, private)
      /\ Matches(Open, p, listed, private)
  BY DEF Matches, Rule
<1>9. /\ W => rules = {BlockPrivate, In, Shut}
      /\ ~W /\ A => rules = {BlockPrivate, Open}
      /\ ~W /\ ~A => rules = {BlockPrivate}
  BY DEF ProxyRoutingRules
<1>10. /\ Precedes(In, Shut) /\ Precedes(Open, BlockPrivate)
       /\ Precedes(BlockPrivate, Shut)
       /\ A => Precedes(In, BlockPrivate)
       /\ ~A => Precedes(BlockPrivate, In)
  BY <1>1 DEF Precedes, Rule, BlockPrivate, Before, Middle, After
<1>11. /\ In.out = "direct" /\ Open.out = "direct"
       /\ Shut.out = "block" /\ BlockPrivate.out = "block"
  BY DEF Rule, BlockPrivate
<1>. HIDE DEF W, A, rules, Out, In, Shut, Open
<1>12. CASE W /\ listed /\ (private => A)
  <2>1. In \in hits /\ \A s \in hits : s = In \/ Precedes(In, s)
    BY <1>7, <1>8, <1>9, <1>10, <1>12
  <2>. QED
    BY <1>5, <1>11, <1>12, <2>1 DEF W, A, Out
<1>13. CASE private /\ ~A
  <2>1. BlockPrivate \in hits /\ \A s \in hits : s = BlockPrivate \/ Precedes(BlockPrivate, s)
    BY <1>7, <1>8, <1>9, <1>10, <1>13
  <2>. QED
    BY <1>5, <1>11, <1>13, <2>1 DEF W, A, Out
<1>14. CASE W /\ ~listed /\ ~private
  <2>1. Shut \in hits /\ \A s \in hits : s = Shut \/ Precedes(Shut, s)
    BY <1>7, <1>8, <1>9, <1>14
  <2>. QED
    BY <1>5, <1>11, <1>14, <2>1 DEF W, A, Out
<1>15. CASE W /\ ~listed /\ private /\ A
  <2>1. BlockPrivate \in hits /\ \A s \in hits : s = BlockPrivate \/ Precedes(BlockPrivate, s)
    BY <1>7, <1>8, <1>9, <1>10, <1>15
  <2>. QED
    BY <1>5, <1>11, <1>15, <2>1 DEF W, A, Out
<1>16. CASE ~W /\ A
  <2>1. Open \in hits /\ \A s \in hits : s = Open \/ Precedes(Open, s)
    BY <1>7, <1>8, <1>9, <1>10, <1>16
  <2>. QED
    BY <1>5, <1>11, <1>16, <2>1 DEF W, A, Out
<1>17. CASE ~W /\ ~A /\ ~private
  <2>1. hits = {}
    BY <1>7, <1>9, <1>17
  <2>. QED
    BY <1>3, <1>17, <2>1 DEF W, A, Out
<1>. QED
  BY <1>12, <1>13, <1>14, <1>15, <1>16, <1>17

(* Whatever is bound to the node, the traffic of a proxy goes out as its   *)
(* own settings say: the order of the rules is right.                      *)
THEOREM ProxyRulesAreKept == Spec => []ProxiesKeepToTheirRules
<1>1. ProxiesKeepToTheirRules
  BY ProxyIsRouted DEF ProxiesKeepToTheirRules
<1>. QED
  BY <1>1, PTL

-----------------------------------------------------------------------------
(* Subscriptions.                                                          *)

(* Where a link comes from.                                                *)
LEMMA LinkOfBinding ==
    ASSUME NEW u \in Users, NEW e \in GenerateSubscription(u)
    PROVE  \E n \in Nodes, p \in Profiles :
              /\ user[u] = "on" /\ n \in Reach[u]
              /\ p \in FindActiveKeysForNode(n)
              /\ e \in BuildURI(n, p) /\ e.node = n /\ e.profile = p
<1>. DEFINE nodes == IF FindHealthyByGroupIDs(u) # {} THEN FindHealthyByGroupIDs(u)
                     ELSE Reach[u]
            links(b) == BuildURI(b[1], b[2])
            bound == {c \in nodes \X Profiles : c[2] \in FindActiveKeysForNode(c[1])}
<1>1. nodes \subseteq Reach[u] /\ Reach[u] \subseteq Nodes
  BY ProvisionAssumption DEF ProvisionAssumption, FindHealthyByGroupIDs
<1>2. user[u] = "on" /\ e \in UNION {links(b) : b \in bound}
  BY DEF GenerateSubscription, Offered
<1>3. PICK b \in bound : e \in links(b)
  BY <1>2
<1>4. /\ b[1] \in nodes /\ b[2] \in Profiles
      /\ b[2] \in FindActiveKeysForNode(b[1])
  BY <1>3
<1>5. e \in BuildURI(b[1], b[2])
  BY <1>3
<1>. HIDE DEF nodes
<1>6. e.node = b[1] /\ e.profile = b[2]
  BY <1>5 DEF BuildURI, Offer
<1>. QED
  BY <1>1, <1>2, <1>4, <1>5, <1>6

LEMMA FormatsSayTheSame ==
    ASSUME NEW u \in Users
    PROVE  /\ GenerateClash(u) = GenerateSubscription(u)
           /\ GenerateSingbox(u) = GenerateSubscription(u)
<1>1. \A n, p : /\ BuildClashProxy(n, p) = BuildURI(n, p)
                /\ BuildSingboxOutbound(n, p) = BuildURI(n, p)
  BY DEF BuildClashProxy, BuildSingboxOutbound, BuildURI
<1>. QED
  BY <1>1, ZenonT(40) DEF GenerateClash, GenerateSingbox, GenerateSubscription, Offered

(* The page takes the first link of each node, and there is a first one.   *)
LEMMA PageHasTheNode ==
    ASSUME NEW u \in Users, NEW e \in GenerateSubscription(u)
    PROVE  \E f \in SubscribePage(u) : f.node = e.node
<1>. DEFINE same == {f \in GenerateSubscription(u) : f.node = e.node}
            ids  == {f.profile : f \in same}
<1>1. ids \subseteq Nat
  BY LinkOfBinding, ProvisionAssumption DEF ProvisionAssumption
<1>2. ids # {}
  OBVIOUS
<1>. HIDE DEF ids
<1>3. PICK m \in ids : \A k \in ids : m <= k
  BY <1>1, <1>2, Minimum
<1>4. PICK f \in same : f.profile = m
  BY DEF ids
<1>5. \A g \in same : f.profile <= g.profile
  BY <1>3, <1>4 DEF ids
<1>6. f \in SubscribePage(u)
  BY <1>4, <1>5 DEF SubscribePage
<1>. QED
  BY <1>4, <1>6

(* Every subscription format describes the same servers, and the page has  *)
(* every node that the URI list has.                                       *)
THEOREM FormatsAlwaysAgree == Spec => []FormatsAgree
<1>1. FormatsAgree
  BY FormatsSayTheSame, PageHasTheNode DEF FormatsAgree
<1>. QED
  BY <1>1, PTL

(* What a link promises is what the inbound of its binding does, if there  *)
(* is one.                                                                 *)
LEMMA LinkIsAnswered ==
    ASSUME NEW u \in Users, NEW n \in Nodes, NEW p \in FindActiveKeysForNode(n),
           NEW e \in BuildURI(n, p), p \in Profiles
    PROVE  \/ /\ p \in Candidates(n)
              /\ Answers(BuildInbound(n, p), e)
           \/ e.proto = "hysteria2"
           \/ e.proto = "vless-reality" /\ e.pair = NoPair
<1>1. CASE Reality(p)
  <2>1. /\ e.port = EffectivePort(n, p) /\ e.profile = p /\ e.proto = "vless-reality"
        /\ e.pair = OwnPair(n, p) /\ e.sni = EffectiveRealitySNI(n, p)
    BY <1>1 DEF BuildURI, Offer, Reality, OverTls
  <2>2. CASE OwnPair(n, p) = NoPair
    BY <2>1, <2>2
  <2>3. CASE OwnPair(n, p) # NoPair
    <3>1. EffectivePair(n, p) = OwnPair(n, p)
      BY <2>3 DEF EffectivePair, OwnPair, Override
    <3>2. p \in Candidates(n)
      BY <1>1, <2>3, <3>1 DEF Candidates, Buildable, Reality, Proxies
    <3>. QED
      BY <1>1, <2>1, <3>1, <3>2 DEF BuildInbound, Answers, Reality
  <2>. QED
    BY <2>2, <2>3
<1>2. CASE OverTls(p)
  <2>1. ~Reality(p)
    BY <1>2 DEF OverTls, Reality
  <2>2. /\ e.port = EffectivePort(n, p) /\ e.profile = p /\ e.proto = profile[p].proto
        /\ e.pair = NoPair /\ e.sni = TlsSni(p)
    BY <1>2, <2>1 DEF BuildURI, Offer
  <2>3. CASE profile[p].proto = "hysteria2"
    BY <2>2, <2>3
  <2>4. CASE profile[p].proto # "hysteria2"
    <3>1. profile[p].proto \in {"vless-ws-tls", "trojan"}
      BY <1>2, <2>4 DEF OverTls
    <3>2. p \in Candidates(n)
      BY <3>1 DEF Candidates, Buildable, Proxies
    <3>. QED
      BY <2>2, <3>1, <3>2 DEF BuildInbound, Answers, TlsSni, Override, Proxies
  <2>. QED
    BY <2>3, <2>4
<1>. QED
  BY <1>1, <1>2 DEF BuildURI

(* Dead links are the three known kinds, given that an unmarked node is up *)
(* to date.                                                                *)
LEMMA DeadLinksFollow == UnmarkedIsCurrent => DeadLinksAreKnown
<1>. SUFFICES ASSUME UnmarkedIsCurrent, NEW u \in Users,
                     NEW e \in GenerateSubscription(u), Settled(e.node)
              PROVE  \/ /\ \E i \in given[e.node] : Answers(i, e)
                        /\ u \in FindActiveUsersByNodeID(e.node)
                     \/ e.proto = "hysteria2"
                     \/ e.proto = "vless-reality" /\ e.pair = NoPair
                     \/ \E i \in given[e.node] : i.port = e.port /\ i.profile < e.profile
  BY DEF DeadLinksAreKnown
<1>1. PICK n \in Nodes, p \in Profiles :
         /\ user[u] = "on" /\ n \in Reach[u]
         /\ p \in FindActiveKeysForNode(n)
         /\ e \in BuildURI(n, p) /\ e.node = n /\ e.profile = p
  BY LinkOfBinding
<1>2. given[n] = Inbounds(n)
  BY <1>1 DEF UnmarkedIsCurrent
<1>3. u \in FindActiveUsersByNodeID(n)
  BY <1>1 DEF FindActiveUsersByNodeID
<1>4. e.port = EffectivePort(n, p)
  BY <1>1 DEF BuildURI, Offer
<1>5. \/ p \in Candidates(n) /\ Answers(BuildInbound(n, p), e)
      \/ e.proto = "hysteria2"
      \/ e.proto = "vless-reality" /\ e.pair = NoPair
  BY <1>1, LinkIsAnswered
<1>6. CASE p \in Served(n) /\ Answers(BuildInbound(n, p), e)
  BY <1>1, <1>2, <1>3, <1>6 DEF Inbounds
<1>7. CASE \E q \in Served(n) : q < p /\ PortKey(n, q) = PortKey(n, p)
  <2>1. PICK q \in Served(n) : q < p /\ PortKey(n, q) = PortKey(n, p)
    BY <1>7
  <2>2. BuildInbound(n, q) \in given[n]
    BY <1>2 DEF Inbounds
  <2>3. /\ BuildInbound(n, q).profile = q
        /\ BuildInbound(n, q).port = EffectivePort(n, q)
    BY DEF BuildInbound
  <2>4. EffectivePort(n, q) = EffectivePort(n, p)
    BY <2>1 DEF PortKey
  <2>. QED
    BY <1>1, <1>4, <2>1, <2>2, <2>3, <2>4
<1>. QED
  BY <1>1, <1>5, <1>6, <1>7, PortIsHeld

-----------------------------------------------------------------------------
(* Types.                                                                  *)

LEMMA Constants ==
    /\ Blank \in Settings /\ NoProfile \in Profile /\ NoKey \in Key
    /\ \A t \in Templates : FromTemplate(t) \in Profile
    /\ \A f \in KeyForms : FromForm(f) \in Key /\ f \in KeyForm
    /\ \A k \in Pairs : [port |-> 0, set |-> [Blank EXCEPT !.pair = k]] \in KeyForm
    /\ Idle \in Job /\ Marking \in Job
<1>1. Blank \in Settings
  BY DEF Blank, Settings
<1>2. NoProfile \in Profile /\ NoKey \in Key
  BY <1>1 DEF NoProfile, Profile, NoKey, Key, Protocols
<1>3. ASSUME NEW t \in Templates PROVE FromTemplate(t) \in Profile
  BY ProvisionAssumption DEF ProvisionAssumption, FromTemplate, Profile, Template
<1>4. ASSUME NEW f \in KeyForms PROVE FromForm(f) \in Key /\ f \in KeyForm
  BY ProvisionAssumption DEF ProvisionAssumption, FromForm, Key, KeyForm
<1>5. ASSUME NEW k \in Pairs
      PROVE  [port |-> 0, set |-> [Blank EXCEPT !.pair = k]] \in KeyForm
  BY <1>1 DEF KeyForm, Settings, Blank
<1>6. [port |-> 0, set |-> Blank] \in KeyForm
  BY <1>1 DEF KeyForm
<1>7. Idle \in Job
  BY <1>2, <1>6 DEF Idle, Job, Pc
<1>8. Marking \in Job
  BY <1>7 DEF Marking, Job, Pc
<1>. QED
  BY <1>1, <1>2, <1>3, <1>4, <1>5, <1>7, <1>8

LEMMA InboundFits ==
    ASSUME TypeOK, NEW n \in Nodes, NEW p \in Profiles
    PROVE  BuildInbound(n, p) \in Inbound
<1>1. /\ profile[p] \in Profile /\ key[n][p] \in Key
  BY DEF TypeOK
<1>2. /\ profile[p].proto \in Protocols /\ profile[p].port \in Nat
      /\ key[n][p].port \in Nat
      /\ profile[p].set \in Settings /\ key[n][p].set \in Settings
  BY <1>1 DEF Profile, Key
<1>3. EffectivePort(n, p) \in Nat
  BY <1>2 DEF EffectivePort
<1>4. EffectivePair(n, p) \in Pairs \cup {NoPair}
  BY <1>2 DEF EffectivePair, Override, Settings
<1>5. /\ EffectiveRealitySNI(n, p) \in Snis \cup {DefaultSni, NoSni}
      /\ profile[p].set.sni \in Snis \cup {NoSni}
  BY <1>2 DEF EffectiveRealitySNI, Override, Settings
<1>. QED
  BY <1>2, <1>3, <1>4, <1>5 DEF BuildInbound, Inbound

LEMMA JobSteps ==
    ASSUME NEW w \in Workers, NEW next \in Job, job \in [Workers -> Job],
           Step(w, next) \/ Write(w, next)
    PROVE  job' \in [Workers -> Job]
<1>1. CASE Step(w, next)
  BY <1>1 DEF Step
<1>2. CASE Write(w, next)
  <2>1. ASSUME NEW v \in Workers
        PROVE  [job[v] EXCEPT !.alone = @ /\ job[v].pc \in {"idle", "mark"}] \in Job
    <3>. DEFINE b == job[v].alone /\ job[v].pc \in {"idle", "mark"}
    <3>1. job[v] \in Job
      OBVIOUS
    <3>2. b \in BOOLEAN
      OBVIOUS
    <3>. HIDE DEF b
    <3>3. [job[v] EXCEPT !.alone = b] \in Job
      BY <3>1, <3>2 DEF Job
    <3>. QED
      BY <3>3 DEF b
  <2>. QED
    BY <1>2, <2>1 DEF Write
<1>. QED
  BY <1>1, <1>2

LEMMA InitTypes == Init => TypeOK
<1>. SUFFICES ASSUME Init PROVE TypeOK
  OBVIOUS
<1>1. profile \in [Profiles -> Profile]
  BY Constants DEF Init
<1>2. key \in [Nodes -> [Profiles -> Key]]
  BY Constants DEF Init
<1>3. job \in [Workers -> Job]
  BY Constants DEF Init
<1>4. /\ given \in [Nodes -> {Due} \cup SUBSET Inbound] /\ healthy \subseteq Nodes
      /\ user \in [Users -> {"on", "off", "expired"}] /\ used \in [Events -> Nat]
  BY DEF Init
<1>. QED
  BY <1>1, <1>2, <1>3, <1>4 DEF TypeOK

LEMMA SpendTypes ==
    ASSUME used \in [Events -> Nat], NEW e \in Events, Spend(e)
    PROVE  used' \in [Events -> Nat]
BY DEF Spend

-----------------------------------------------------------------------------
(* The invariant.  "alone" is TRUE of a request as long as nobody wrote    *)
(* since it began to read: what such a request has read still stands.      *)

(* The effective port of a binding, of rows given as arguments.            *)
PortOf(own, template) == IF own.port > 0 THEN own.port ELSE template.port

(* No other binding of the node is where the form would put this one.      *)
PortFree(j, P, K) ==
    \A q \in Profiles \ {j.profile} :
        K[j.node][q].bound /\ P[q].st \in {"on", "off"} =>
            <<Transport(P[q].proto), PortOf(K[j.node][q], P[q])>>
              # <<Transport(P[j.profile].proto), PortOf(j.form, P[j.profile])>>

Fit(j, P, K) ==
    /\ j.pc \in {"check", "first", "put", "drop", "lock"} =>
          j.node \in Nodes /\ j.profile \in Profiles
    /\ j.pc = "edit" => j.profile \in Profiles
    /\ j.alone /\ j.pc = "check" => j.tpl = P[j.profile]
    /\ j.alone /\ j.pc \in {"first", "put"} => PortFree(j, P, K)
    /\ j.alone /\ j.pc = "put" => /\ j.row = K[j.node][j.profile]
                                  /\ ~j.row.locked
    /\ j.alone /\ j.pc = "drop" => ~K[j.node][j.profile].locked

JobsFit == \A w \in Workers : Fit(job[w], profile, key)

(* SetKeyLocked updates the rows there are.                                *)
LocksFit == \A n \in Nodes, p \in Profiles : key[n][p].locked => key[n][p].bound

ProvisionInv == /\ TypeOK
                /\ LocksFit
                /\ JobsFit
                /\ UnmarkedIsCurrent

LEMMA IdleFits == \A P, K : Fit(Idle, P, K) /\ Fit(Marking, P, K)
BY DEF Fit, Idle, Marking

LEMMA StepKeepsFits ==
    ASSUME TypeOK, JobsFit, NEW w \in Workers, NEW next, Step(w, next),
           UNCHANGED <<profile, key>>, Fit(next, profile, key)
    PROVE  JobsFit'
<1>1. ASSUME NEW v \in Workers PROVE Fit(job'[v], profile', key')
  <2>1. job'[v] = IF v = w THEN next ELSE job[v]
    BY DEF Step, TypeOK
  <2>2. profile' = profile /\ key' = key
    OBVIOUS
  <2>. QED
    BY <2>1, <2>2 DEF JobsFit
<1>. QED
  BY <1>1 DEF JobsFit

LEMMA WriteKeepsFits ==
    ASSUME TypeOK, JobsFit, NEW w \in Workers, NEW next, Write(w, next),
           Fit(next, profile', key')
    PROVE  JobsFit'
<1>1. ASSUME NEW v \in Workers, v # w PROVE Fit(job'[v], profile', key')
  <2>. DEFINE j == job[v]
              b == j.alone /\ j.pc \in {"idle", "mark"}
  <2>1. j \in Job /\ b \in BOOLEAN /\ Fit(j, profile, key)
    BY DEF TypeOK, JobsFit
  <2>2. job'[v] = [j EXCEPT !.alone = b]
    BY <1>1 DEF Write
  <2>3. b => j.pc \in {"idle", "mark"}
    OBVIOUS
  <2>. HIDE DEF b
  <2>4. /\ job'[v].pc = j.pc /\ job'[v].node = j.node
        /\ job'[v].profile = j.profile /\ job'[v].alone = b
    BY <2>1, <2>2 DEF Job
  <2>. HIDE DEF j
  <2>. QED
    BY <2>1, <2>3, <2>4 DEF Fit
<1>2. job'[w] = next
  BY DEF Write
<1>3. \A v \in Workers : Fit(job'[v], profile', key')
  BY <1>1, <1>2
<1>. QED
  BY <1>3 DEF JobsFit

(* The inbounds of a node depend on its keys and the templates alone, and  *)
(* not on the lock flag.                                                   *)
LEMMA SameInbounds ==
    ASSUME profile' = profile,
           \A n \in Nodes, p \in Profiles :
              /\ key'[n][p].bound = key[n][p].bound
              /\ key'[n][p].port = key[n][p].port /\ key'[n][p].set = key[n][p].set
    PROVE  \A n \in Nodes : /\ Inbounds(n)' = Inbounds(n)
                            /\ Candidates(n)' = Candidates(n)
<1>. SUFFICES ASSUME NEW n \in Nodes
              PROVE  Inbounds(n)' = Inbounds(n) /\ Candidates(n)' = Candidates(n)
  OBVIOUS
<1>1. FindActiveKeysForNode(n)' = FindActiveKeysForNode(n)
  BY DEF FindActiveKeysForNode
<1>2. ASSUME NEW p \in Profiles
      PROVE  /\ EffectivePort(n, p)' = EffectivePort(n, p)
             /\ PortKey(n, p)' = PortKey(n, p)
             /\ EffectivePair(n, p)' = EffectivePair(n, p)
             /\ EffectiveRealitySNI(n, p)' = EffectiveRealitySNI(n, p)
             /\ EffectiveProxyAllowedIPs(n, p)' = EffectiveProxyAllowedIPs(n, p)
             /\ EffectiveProxyAccounts(n, p)' = EffectiveProxyAccounts(n, p)
  BY DEF EffectivePort, PortKey, Transport, EffectivePair, EffectiveRealitySNI,
         EffectiveProxyAllowedIPs, EffectiveProxyAccounts, Override
<1>3. ASSUME NEW p \in Profiles
      PROVE  /\ Buildable(n, p)' = Buildable(n, p)
             /\ BuildInbound(n, p)' = BuildInbound(n, p)
  BY <1>2 DEF Buildable, BuildInbound
<1>4. Candidates(n)' = Candidates(n)
  BY <1>1, <1>3 DEF Candidates, FindActiveKeysForNode
<1>5. Candidates(n) \subseteq Profiles
  BY DEF Candidates, FindActiveKeysForNode
<1>6. Served(n)' = Served(n)
  BY <1>2, <1>4, <1>5 DEF Served
<1>7. Served(n) \subseteq Profiles
  BY <1>5 DEF Served
<1>. QED
  BY <1>3, <1>4, <1>6, <1>7 DEF Inbounds

(* A step that leaves a request in its marking leaves no node settled.     *)
LEMMA MarkingIsUnsettled ==
    ASSUME TypeOK, NEW w \in Workers, Write(w, Marking)
    PROVE  UnmarkedIsCurrent'
<1>1. job'[w].pc = "mark"
  BY DEF Write, Marking, Idle
<1>. QED
  BY <1>1 DEF UnmarkedIsCurrent, Settled

(* A step that touches no inbound and no pushed list, and ends no marking. *)
LEMMA CurrentStays ==
    ASSUME UnmarkedIsCurrent, given' = given,
           \A n \in Nodes : Inbounds(n)' = Inbounds(n),
           \A w \in Workers : job[w].pc = "mark" => job'[w].pc = "mark"
    PROVE  UnmarkedIsCurrent'
BY DEF UnmarkedIsCurrent, Settled

LEMMA ReadingKeeps ==
    ASSUME ProvisionInv, NEW w \in Workers, NEW next \in Job, Step(w, next),
           UNCHANGED <<profile, key, given, healthy, user>>,
           used' \in [Events -> Nat], Fit(next, profile, key), job[w].pc # "mark"
    PROVE  ProvisionInv'
<1>1. TypeOK'
  BY JobSteps DEF ProvisionInv, TypeOK
<1>2. LocksFit'
  BY DEF ProvisionInv, LocksFit
<1>3. JobsFit'
  BY StepKeepsFits DEF ProvisionInv
<1>4. \A n \in Nodes : Inbounds(n)' = Inbounds(n)
  BY SameInbounds
<1>5. \A v \in Workers : job[v].pc = "mark" => job'[v].pc = "mark"
  BY DEF ProvisionInv, TypeOK, Step
<1>6. UnmarkedIsCurrent'
  BY <1>4, <1>5, CurrentStays DEF ProvisionInv
<1>. QED
  BY <1>1, <1>2, <1>3, <1>6 DEF ProvisionInv

LEMMA WritingKeeps ==
    ASSUME ProvisionInv, NEW w \in Workers, Write(w, Marking),
           profile' \in [Profiles -> Profile],
           key' \in [Nodes -> [Profiles -> Key]], LocksFit',
           UNCHANGED <<given, healthy, user>>, used' \in [Events -> Nat]
    PROVE  ProvisionInv'
<1>1. TypeOK'
  BY JobSteps, Constants DEF ProvisionInv, TypeOK
<1>2. JobsFit'
  BY WriteKeepsFits, IdleFits DEF ProvisionInv
<1>3. UnmarkedIsCurrent'
  BY MarkingIsUnsettled DEF ProvisionInv
<1>. QED
  BY <1>1, <1>2, <1>3 DEF ProvisionInv

-----------------------------------------------------------------------------
(* Every action keeps the invariant.                                       *)

LEMMA ProfilesKeep ==
    ASSUME ProvisionInv, NEW w \in Workers,
           CreateProfile(w) \/ DeleteProfile(w) \/ UpdateSave(w)
    PROVE  ProvisionInv'
<1>. USE DEF ProvisionInv
<1>1. /\ Write(w, Marking) /\ key' = key
      /\ UNCHANGED <<given, healthy, user>>
      /\ (\E e \in Events : Spend(e)) \/ used' = used
  BY DEF CreateProfile, DeleteProfile, UpdateSave, Events
<1>2. used' \in [Events -> Nat]
  BY <1>1, SpendTypes DEF TypeOK
<1>3. LocksFit' /\ key' \in [Nodes -> [Profiles -> Key]]
  BY <1>1 DEF LocksFit, TypeOK
<1>4. profile' \in [Profiles -> Profile]
  <2>1. CASE CreateProfile(w)
    <3>1. PICK p \in Profiles, t \in Templates : profile' = [profile EXCEPT ![p] = FromTemplate(t)]
      BY <2>1 DEF CreateProfile
    <3>2. FromTemplate(t) \in Profile
      BY Constants
    <3>. QED
      BY <3>1, <3>2 DEF TypeOK
  <2>2. CASE DeleteProfile(w)
    <3>1. PICK p \in Profiles : profile' = [profile EXCEPT ![p].st = "gone"]
      BY <2>2 DEF DeleteProfile
    <3>2. [profile[p] EXCEPT !.st = "gone"] \in Profile
      BY DEF TypeOK, Profile
    <3>. QED
      BY <3>1, <3>2 DEF TypeOK
  <2>3. CASE UpdateSave(w)
    <3>1. PICK t \in Templates, st \in {"on", "off"} :
            \E row \in {[job[w].tpl EXCEPT !.proto = t.proto],
                        [job[w].tpl EXCEPT !.port = t.port],
                        [job[w].tpl EXCEPT !.set = t.set],
                        [job[w].tpl EXCEPT !.st = st]} :
              profile' = [profile EXCEPT ![job[w].profile] = row]
      BY <2>3 DEF UpdateSave
    <3>2. job[w].tpl \in Profile /\ t \in Template
      BY ProvisionAssumption DEF ProvisionAssumption, TypeOK, Job
    <3>3. {[job[w].tpl EXCEPT !.proto = t.proto], [job[w].tpl EXCEPT !.port = t.port],
           [job[w].tpl EXCEPT !.set = t.set], [job[w].tpl EXCEPT !.st = st]} \subseteq Profile
      BY <3>2 DEF Profile, Template
    <3>4. PICK row \in Profile : profile' = [profile EXCEPT ![job[w].profile] = row]
      BY <3>1, <3>3
    <3>5. profile \in [Profiles -> Profile]
      BY DEF TypeOK
    <3>. QED
      BY <3>4, <3>5
  <2>. QED
    BY <2>1, <2>2, <2>3
<1>. QED
  BY <1>1, <1>2, <1>3, <1>4, WritingKeeps

(* The requests that read: the job takes what the action says.             *)
LEMMA StartKeeps ==
    ASSUME ProvisionInv, NEW w \in Workers,
           \/ UpdateFind(w) \/ UpsertNodeKey(w) \/ KeygenForNode(w)
           \/ DeleteKeyFind(w) \/ SetNodeKeyLocked(w)
    PROVE  ProvisionInv'
<1>. DEFINE j == job[w]
<1>1. /\ j \in Job /\ j.pc = "idle" /\ Spend("request")
      /\ UNCHANGED <<profile, key, given, healthy, user>>
  BY DEF ProvisionInv, TypeOK, UpdateFind, UpsertNodeKey, KeygenForNode, DeleteKeyFind,
         SetNodeKeyLocked
<1>2. used' \in [Events -> Nat]
  BY <1>1, SpendTypes DEF ProvisionInv, TypeOK, Events
<1>3. \A n \in Nodes, p \in Profiles : profile[p] \in Profile /\ key[n][p] \in Key
  BY DEF ProvisionInv, TypeOK
<1>4. \E next \in Job : Step(w, next) /\ Fit(next, profile, key)
  <2>1. CASE UpdateFind(w)
    <3>1. PICK p \in Profiles :
             Step(w, [j EXCEPT !.pc = "edit", !.profile = p, !.tpl = profile[p]])
      BY <2>1 DEF UpdateFind
    <3>. DEFINE next == [j EXCEPT !.pc = "edit", !.profile = p, !.tpl = profile[p]]
    <3>2. next \in Job /\ next.pc = "edit" /\ next.profile = p
      <4>1. j \in Job /\ profile[p] \in Profile /\ p \in Profiles \cup {AnyProfile}
            /\ "edit" \in Pc
        BY <1>1 DEF ProvisionInv, TypeOK, Pc
      <4>. HIDE DEF j
      <4>. QED
        BY <4>1 DEF Job
    <3>. QED
      BY <3>1, <3>2 DEF Fit
  <2>2. CASE UpsertNodeKey(w) \/ KeygenForNode(w)
    <3>1. PICK n \in Nodes, p \in Profiles, f \in KeyForm :
             Step(w, [j EXCEPT !.pc = "check", !.node = n, !.profile = p,
                               !.form = f, !.tpl = profile[p]])
      BY <2>2, Constants DEF UpsertNodeKey, KeygenForNode
    <3>. DEFINE next == [j EXCEPT !.pc = "check", !.node = n, !.profile = p,
                                  !.form = f, !.tpl = profile[p]]
    <3>2. /\ next \in Job /\ next.pc = "check" /\ next.node = n /\ next.profile = p
          /\ next.tpl = profile[p]
      <4>1. j \in Job /\ profile[p] \in Profile /\ n \in Nodes \cup {AnyNode}
            /\ p \in Profiles \cup {AnyProfile} /\ "check" \in Pc
        BY <1>1, <1>3 DEF Pc
      <4>. HIDE DEF j
      <4>. QED
        BY <4>1 DEF Job
    <3>. QED
      BY <3>1, <3>2 DEF Fit
  <2>3. CASE DeleteKeyFind(w)
    <3>1. PICK n \in Nodes, p \in Profiles :
             /\ ~key[n][p].locked
             /\ Step(w, [j EXCEPT !.pc = "drop", !.node = n, !.profile = p])
      BY <2>3 DEF DeleteKeyFind
    <3>. DEFINE next == [j EXCEPT !.pc = "drop", !.node = n, !.profile = p]
    <3>2. next \in Job /\ next.pc = "drop" /\ next.node = n /\ next.profile = p
      BY <1>1 DEF Job, Pc
    <3>. QED
      BY <3>1, <3>2 DEF Fit
  <2>4. CASE SetNodeKeyLocked(w)
    <3>1. PICK n \in Nodes, p \in Profiles, locked \in BOOLEAN :
             Step(w, [j EXCEPT !.pc = "lock", !.node = n, !.profile = p, !.lock = locked])
      BY <2>4 DEF SetNodeKeyLocked
    <3>. DEFINE next == [j EXCEPT !.pc = "lock", !.node = n, !.profile = p, !.lock = locked]
    <3>2. next \in Job /\ next.pc = "lock" /\ next.node = n /\ next.profile = p
      BY <1>1 DEF Job, Pc
    <3>. QED
      BY <3>1, <3>2 DEF Fit
  <2>. QED
    BY <2>1, <2>2, <2>3, <2>4
<1>. QED
  BY <1>1, <1>2, <1>4, ReadingKeeps

(* The check and the first look at the row: a request that is alone has    *)
(* found its port free and its row unlocked.                               *)
LEMMA CheckKeeps ==
    ASSUME ProvisionInv, NEW w \in Workers, EnsureNoPortConflict(w)
    PROVE  ProvisionInv'
<1>. DEFINE j == job[w]
            next == [j EXCEPT !.pc = "first", !.tpl = NoProfile]
            port == IF j.form.port > 0 THEN j.form.port ELSE j.tpl.port
            taken == PortTaken(j.node, j.profile, Transport(j.tpl.proto), port)
<1>1. /\ j \in Job /\ j.pc = "check" /\ Fit(j, profile, key)
      /\ UNCHANGED <<profile, key, given, healthy, user>> /\ used' \in [Events -> Nat]
      /\ Step(w, IF taken THEN Idle ELSE next)
  BY DEF ProvisionInv, TypeOK, JobsFit, EnsureNoPortConflict
<1>2. /\ next \in Job /\ next.pc = "first" /\ next.node = j.node
      /\ next.profile = j.profile /\ next.form = j.form /\ next.alone = j.alone
  <2>1. j \in Job /\ NoProfile \in Profile /\ "first" \in Pc
    BY <1>1, Constants DEF Pc
  <2>. HIDE DEF j
  <2>. QED
    BY <2>1 DEF Job
<1>3. CASE taken
  <2>1. Step(w, Idle)
    BY <1>1, <1>3
  <2>. QED
    BY <1>1, <2>1, ReadingKeeps, IdleFits, Constants
<1>4. CASE ~taken
  <2>1. Step(w, next)
    BY <1>1, <1>4
  <2>2. j.node \in Nodes /\ j.profile \in Profiles
    BY <1>1 DEF Fit
  <2>3. j.alone => PortFree(next, profile, key)
    <3>1. SUFFICES ASSUME j.alone PROVE PortFree(next, profile, key)
      OBVIOUS
    <3>2. j.tpl = profile[j.profile]
      BY <1>1, <3>1 DEF Fit
    <3>3. \A q \in Profiles \ {j.profile} : key[j.node][q].bound /\ Exists(q) =>
             PortKey(j.node, q) # <<Transport(j.tpl.proto), port>>
      BY <1>4 DEF PortTaken
    <3>. QED
      BY <1>2, <3>2, <3>3 DEF PortFree, PortOf, PortKey, EffectivePort, Exists
  <2>4. Fit(next, profile, key)
    BY <1>2, <2>2, <2>3 DEF Fit
  <2>. QED
    BY <1>1, <1>2, <2>1, <2>4, ReadingKeeps
<1>. QED
  BY <1>3, <1>4

LEMMA FindKeeps ==
    ASSUME ProvisionInv, NEW w \in Workers, UpsertFind(w)
    PROVE  ProvisionInv'
<1>. DEFINE j == job[w]
            row == key[j.node][j.profile]
            next == [j EXCEPT !.pc = "put", !.row = row]
<1>1. /\ j \in Job /\ j.pc = "first" /\ Fit(j, profile, key)
      /\ UNCHANGED <<profile, key, given, healthy, user>> /\ used' \in [Events -> Nat]
      /\ Step(w, IF row.bound /\ row.locked THEN Idle ELSE next)
  BY DEF ProvisionInv, TypeOK, JobsFit, UpsertFind
<1>2. j.node \in Nodes /\ j.profile \in Profiles
  BY <1>1 DEF Fit
<1>3. row \in Key /\ (row.locked => row.bound)
  BY <1>2 DEF ProvisionInv, TypeOK, LocksFit
<1>4. /\ next \in Job /\ next.pc = "put" /\ next.node = j.node /\ next.row = row
      /\ next.profile = j.profile /\ next.form = j.form /\ next.alone = j.alone
  <2>1. j \in Job /\ row \in Key /\ "put" \in Pc
    BY <1>1, <1>3 DEF Pc
  <2>. HIDE DEF j, row
  <2>. QED
    BY <2>1 DEF Job
<1>5. CASE row.bound /\ row.locked
  <2>1. Step(w, Idle)
    BY <1>1, <1>5
  <2>. QED
    BY <1>1, <2>1, ReadingKeeps, IdleFits, Constants
<1>6. CASE ~(row.bound /\ row.locked)
  <2>1. Step(w, next) /\ ~row.locked
    BY <1>1, <1>3, <1>6
  <2>2. j.alone => PortFree(j, profile, key)
    BY <1>1 DEF Fit
  <2>3. j.alone => PortFree(next, profile, key)
    BY <1>4, <2>2 DEF PortFree
  <2>4. Fit(next, profile, key)
    BY <1>2, <1>4, <2>1, <2>3 DEF Fit
  <2>. QED
    BY <1>1, <1>4, <2>1, <2>4, ReadingKeeps
<1>. QED
  BY <1>5, <1>6

(* What the write of a key does, for this lemma and the action properties. *)
LEMMA WhatIsWritten ==
    ASSUME ProvisionInv, NEW w \in Workers, UpsertWrite(w)
    PROVE  LET j == job[w]
           IN /\ j.pc = "put" /\ j.node \in Nodes /\ j.profile \in Profiles
              /\ UNCHANGED <<profile, given, healthy, user, used>>
              /\ \/ Step(w, Idle) /\ key' = key
                 \/ /\ Write(w, Marking)
                    /\ \E new \in Key :
                          /\ key' = [key EXCEPT ![j.node][j.profile] = new]
                          /\ new.bound /\ new.port = j.form.port
<1>. DEFINE j == job[w]
            now == key[j.node][j.profile]
            blank == [NoKey EXCEPT !.bound = TRUE, !.made = now.made + 1]
            old == IF j.row.bound THEN j.row ELSE blank
            new == [old EXCEPT !.port = j.form.port, !.set = j.form.set]
<1>1. /\ j \in Job /\ j.pc = "put" /\ Fit(j, profile, key)
      /\ UNCHANGED <<profile, given, healthy, user, used>>
  BY DEF ProvisionInv, TypeOK, JobsFit, UpsertWrite
<1>2. j.node \in Nodes /\ j.profile \in Profiles
  BY <1>1 DEF Fit
<1>3. now \in Key
  BY <1>2 DEF ProvisionInv, TypeOK
<1>4. j.row \in Key /\ j.form.port \in Nat /\ j.form.set \in Settings
  BY <1>1 DEF Job, KeyForm
<1>5. blank \in Key /\ blank.bound
  <2>1. now.made + 1 \in Nat /\ Blank \in Settings
    BY <1>3, Constants DEF Key
  <2>. HIDE DEF now
  <2>. QED
    BY <2>1 DEF Key, NoKey
<1>6. old \in Key /\ old.bound
  BY <1>4, <1>5
<1>. HIDE DEF old
<1>7. new \in Key /\ new.bound /\ new.port = j.form.port
  BY <1>4, <1>6 DEF Key
<1>8. \/ Step(w, Idle) /\ key' = key
      \/ /\ key' = [key EXCEPT ![j.node][j.profile] = new]
         /\ Write(w, Marking)
  BY DEF UpsertWrite, old
<1>. QED
  BY <1>1, <1>2, <1>7, <1>8

LEMMA PutKeeps ==
    ASSUME ProvisionInv, NEW w \in Workers, UpsertWrite(w)
    PROVE  ProvisionInv'
<1>. DEFINE j == job[w]
<1>1. /\ j.pc = "put" /\ j.node \in Nodes /\ j.profile \in Profiles
      /\ UNCHANGED <<profile, given, healthy, user, used>>
  BY WhatIsWritten
<1>2. used' \in [Events -> Nat] /\ profile' \in [Profiles -> Profile]
  BY <1>1 DEF ProvisionInv, TypeOK
<1>3. CASE Step(w, Idle) /\ key' = key
  BY <1>1, <1>2, <1>3, ReadingKeeps, IdleFits, Constants
<1>4. CASE /\ Write(w, Marking)
           /\ \E new \in Key : /\ key' = [key EXCEPT ![j.node][j.profile] = new]
                               /\ new.bound /\ new.port = j.form.port
  <2>1. PICK new \in Key : /\ key' = [key EXCEPT ![j.node][j.profile] = new]
                           /\ new.bound
    BY <1>4
  <2>2. key \in [Nodes -> [Profiles -> Key]] /\ LocksFit
    BY DEF ProvisionInv, TypeOK
  <2>. HIDE DEF j
  <2>3. key' \in [Nodes -> [Profiles -> Key]]
    BY <2>1, <2>2
  <2>4. LocksFit'
    BY <1>1, <2>1, <2>2 DEF LocksFit
  <2>. QED
    BY <1>1, <1>2, <1>4, <2>3, <2>4, WritingKeeps
<1>. QED
  BY <1>3, <1>4, WhatIsWritten

LEMMA DropKeeps ==
    ASSUME ProvisionInv, NEW w \in Workers, DeleteKey(w)
    PROVE  ProvisionInv'
<1>. DEFINE n   == job[w].node
            p   == job[w].profile
            new == [NoKey EXCEPT !.made = key[n][p].made]
<1>1. /\ n \in Nodes /\ p \in Profiles
      /\ UNCHANGED <<profile, given, healthy, user, used>> /\ Write(w, Marking)
      /\ key' = [key EXCEPT ![n][p] = new]
  BY DEF ProvisionInv, JobsFit, Fit, DeleteKey
<1>2. used' \in [Events -> Nat] /\ profile' \in [Profiles -> Profile]
  BY <1>1 DEF ProvisionInv, TypeOK
<1>3. key \in [Nodes -> [Profiles -> Key]] /\ LocksFit
  BY DEF ProvisionInv, TypeOK
<1>4. new \in Key /\ ~new.locked
  <2>1. key[n][p].made \in Nat /\ Blank \in Settings
    BY <1>1, <1>3, Constants DEF Key
  <2>. QED
    BY <2>1 DEF Key, NoKey
<1>. HIDE DEF n, p, new
<1>5. key' \in [Nodes -> [Profiles -> Key]]
  BY <1>1, <1>3, <1>4
<1>6. LocksFit'
  BY <1>1, <1>3, <1>4 DEF LocksFit
<1>. QED
  BY <1>1, <1>2, <1>5, <1>6, WritingKeeps

(* Setting a lock marks nothing: the inbounds are what they were.          *)
LEMMA WhatIsLocked ==
    ASSUME ProvisionInv, NEW w \in Workers, SetKeyLocked(w)
    PROVE  /\ job[w].pc = "lock" /\ Write(w, Idle)
           /\ UNCHANGED <<profile, given, healthy, user, used>>
           /\ key' \in [Nodes -> [Profiles -> Key]] /\ LocksFit'
           /\ \A n \in Nodes, p \in Profiles :
                 /\ key'[n][p].bound = key[n][p].bound
                 /\ key'[n][p].port = key[n][p].port /\ key'[n][p].set = key[n][p].set
<1>. DEFINE n   == job[w].node
            p   == job[w].profile
            row == key[n][p]
            b   == IF row.bound THEN job[w].lock ELSE FALSE
<1>1. /\ job[w].pc = "lock" /\ n \in Nodes /\ p \in Profiles /\ job[w] \in Job
      /\ UNCHANGED <<profile, given, healthy, user, used>> /\ Write(w, Idle)
      /\ key' = [key EXCEPT ![n][p].locked = b]
  BY DEF ProvisionInv, TypeOK, JobsFit, Fit, SetKeyLocked
<1>2. key \in [Nodes -> [Profiles -> Key]] /\ LocksFit
  BY DEF ProvisionInv, TypeOK
<1>3. row \in Key /\ b \in BOOLEAN /\ (b => row.bound)
  <2>1. row \in Key
    BY <1>1, <1>2
  <2>2. job[w].lock \in BOOLEAN
    BY <1>1 DEF Job
  <2>. HIDE DEF row, n, p
  <2>. QED
    BY <2>1, <2>2
<1>. HIDE DEF b
<1>4. key' = [key EXCEPT ![n][p] = [row EXCEPT !.locked = b]]
  BY <1>1
<1>5. /\ [row EXCEPT !.locked = b] \in Key /\ [row EXCEPT !.locked = b].locked = b
      /\ [row EXCEPT !.locked = b].bound = row.bound
      /\ [row EXCEPT !.locked = b].port = row.port
      /\ [row EXCEPT !.locked = b].set = row.set
  <2>. HIDE DEF row
  <2>. QED
    BY <1>3 DEF Key
<1>. DEFINE new == [row EXCEPT !.locked = b]
<1>6. /\ new \in Key /\ (new.locked => row.bound) /\ new.bound = row.bound
      /\ new.port = row.port /\ new.set = row.set
      /\ key' = [key EXCEPT ![n][p] = new]
  BY <1>3, <1>4, <1>5
<1>. HIDE DEF n, p, new
<1>7. key' \in [Nodes -> [Profiles -> Key]]
  BY <1>1, <1>2, <1>6
<1>8. ASSUME NEW m \in Nodes, NEW q \in Profiles
      PROVE  key'[m][q] = IF m = n /\ q = p THEN new ELSE key[m][q]
  BY <1>1, <1>2, <1>6
<1>9. LocksFit'
  BY <1>2, <1>6, <1>8 DEF LocksFit
<1>. QED
  BY <1>1, <1>6, <1>7, <1>8, <1>9 DEF n

LEMMA LockKeeps ==
    ASSUME ProvisionInv, NEW w \in Workers, SetKeyLocked(w)
    PROVE  ProvisionInv'
<1>1. /\ job[w].pc = "lock" /\ Write(w, Idle) /\ LocksFit'
      /\ UNCHANGED <<profile, given, healthy, user, used>>
      /\ key' \in [Nodes -> [Profiles -> Key]]
  BY WhatIsLocked
<1>2. TypeOK'
  BY <1>1, JobSteps, Constants DEF ProvisionInv, TypeOK
<1>3. JobsFit'
  BY <1>1, WriteKeepsFits, IdleFits DEF ProvisionInv
<1>4. \A n \in Nodes : Inbounds(n)' = Inbounds(n)
  BY <1>1, WhatIsLocked, SameInbounds
<1>5. ASSUME NEW v \in Workers, job[v].pc = "mark" PROVE job'[v].pc = "mark"
  BY <1>1, <1>5 DEF Write, ProvisionInv, TypeOK, Job
<1>6. UnmarkedIsCurrent'
  BY <1>1, <1>4, <1>5, CurrentStays DEF ProvisionInv
<1>. QED
  BY <1>1, <1>2, <1>3, <1>6 DEF ProvisionInv

LEMMA MarkKeeps ==
    ASSUME ProvisionInv, NEW w \in Workers, MarkAllDrifted(w)
    PROVE  ProvisionInv'
<1>1. /\ Step(w, Idle) /\ UNCHANGED <<profile, key, healthy, user, used>>
      /\ given' = [n \in Nodes |-> Due]
  BY DEF MarkAllDrifted
<1>2. TypeOK'
  BY <1>1, JobSteps, Constants DEF ProvisionInv, TypeOK
<1>3. JobsFit' /\ LocksFit'
  BY <1>1, StepKeepsFits, IdleFits DEF ProvisionInv, LocksFit
<1>4. UnmarkedIsCurrent'
  BY <1>1 DEF UnmarkedIsCurrent, Settled
<1>. QED
  BY <1>2, <1>3, <1>4 DEF ProvisionInv

(* A push gives the node what it should have.                              *)
LEMMA PushKeeps ==
    ASSUME ProvisionInv, NEW n \in Nodes, SyncNode(n)
    PROVE  ProvisionInv'
<1>1. /\ UNCHANGED <<profile, key, healthy, user, job, used>>
      /\ given' = [given EXCEPT ![n] = Inbounds(n)]
  BY DEF SyncNode
<1>2. Inbounds(n) \in SUBSET Inbound
  BY InboundFits, ServedFits DEF Inbounds, ProvisionInv
<1>3. TypeOK'
  BY <1>1, <1>2 DEF ProvisionInv, TypeOK
<1>4. JobsFit' /\ LocksFit'
  BY <1>1 DEF ProvisionInv, JobsFit, LocksFit
<1>5. \A m \in Nodes : Inbounds(m)' = Inbounds(m)
  BY <1>1, SameInbounds
<1>6. UnmarkedIsCurrent'
  BY <1>1, <1>5 DEF ProvisionInv, TypeOK, UnmarkedIsCurrent, Settled
<1>. QED
  BY <1>3, <1>4, <1>6 DEF ProvisionInv

(* Health checks and changes of users touch no inbound.                    *)
LEMMA OthersKeep ==
    ASSUME ProvisionInv,
           \/ \E n \in Nodes : CheckNode(n)
           \/ \E u \in Users : ChangeUser(u)
           \/ UNCHANGED vars
    PROVE  ProvisionInv'
<1>1. UNCHANGED <<profile, key, given, job>>
  BY DEF CheckNode, ChangeUser, vars
<1>2. used' \in [Events -> Nat] /\ healthy' \subseteq Nodes
      /\ user' \in [Users -> {"on", "off", "expired"}]
  <2>1. CASE \E n \in Nodes : CheckNode(n)
    BY <2>1, SpendTypes DEF CheckNode, ProvisionInv, TypeOK, Events
  <2>2. CASE \E u \in Users : ChangeUser(u)
    BY <2>2, SpendTypes DEF ChangeUser, ProvisionInv, TypeOK, Events
  <2>3. CASE UNCHANGED vars
    BY <2>3 DEF vars, ProvisionInv, TypeOK
  <2>. QED
    BY <2>1, <2>2, <2>3
<1>3. TypeOK'
  BY <1>1, <1>2 DEF ProvisionInv, TypeOK
<1>4. JobsFit' /\ LocksFit'
  BY <1>1 DEF ProvisionInv, JobsFit, LocksFit
<1>5. \A n \in Nodes : Inbounds(n)' = Inbounds(n)
  BY <1>1, SameInbounds
<1>6. UnmarkedIsCurrent'
  BY <1>1, <1>5, CurrentStays DEF ProvisionInv
<1>. QED
  BY <1>3, <1>4, <1>6 DEF ProvisionInv

LEMMA InitFits == Init => ProvisionInv
<1>. SUFFICES ASSUME Init PROVE ProvisionInv
  OBVIOUS
<1>1. LocksFit
  BY DEF Init, LocksFit, NoKey, FromForm
<1>2. JobsFit
  BY IdleFits DEF Init, JobsFit
<1>3. UnmarkedIsCurrent
  BY DEF Init, UnmarkedIsCurrent, Settled
<1>. QED
  BY <1>1, <1>2, <1>3, InitTypes DEF ProvisionInv

LEMMA NextFits == ProvisionInv /\ [Next]_vars => ProvisionInv'
<1>. SUFFICES ASSUME ProvisionInv, [Next]_vars PROVE ProvisionInv'
  OBVIOUS
<1>1. ASSUME NEW w \in Workers, Request(w) PROVE ProvisionInv'
  BY <1>1, ProfilesKeep, StartKeeps, CheckKeeps, FindKeeps, PutKeeps, DropKeeps,
     LockKeeps, MarkKeeps DEF Request
<1>. QED
  BY <1>1, PushKeeps, OthersKeep DEF Next

(* Every variable keeps to its domain.                                     *)
THEOREM ProvisionTypeCorrect == Spec => []TypeOK
<1>1. Spec => []ProvisionInv
  BY InitFits, NextFits, PTL DEF Spec
<1>2. ProvisionInv => TypeOK
  BY DEF ProvisionInv
<1>. QED
  BY <1>1, <1>2, PTL

(* A node that no mark is due for runs what its keys and templates say.    *)
THEOREM UnmarkedNodesAreCurrent == Spec => []UnmarkedIsCurrent
<1>1. Spec => []ProvisionInv
  BY InitFits, NextFits, PTL DEF Spec
<1>2. ProvisionInv => UnmarkedIsCurrent
  BY DEF ProvisionInv
<1>. QED
  BY <1>1, <1>2, PTL

(* A link to a node that is up to date works or is of a known dead kind.   *)
THEOREM LinksWorkOrAreKnown == Spec => []DeadLinksAreKnown
<1>1. Spec => []UnmarkedIsCurrent
  BY UnmarkedNodesAreCurrent
<1>. QED
  BY <1>1, DeadLinksFollow, PTL

-----------------------------------------------------------------------------
(* Action properties.                                                      *)

(* Only UpsertWrite takes a request from its write to the marking.         *)
LEMMA OnlyPutMarks ==
    ASSUME ProvisionInv, Next, NEW w \in Workers,
           job[w].pc = "put", job'[w].pc = "mark"
    PROVE  UpsertWrite(w)
<1>1. ASSUME NEW v \in Workers, NEW next, v # w, Step(v, next) \/ Write(v, next)
      PROVE  job'[w].pc = job[w].pc
  BY <1>1 DEF Step, Write, ProvisionInv, TypeOK, Job
<1>2. ASSUME NEW v \in Workers, v # w PROVE ~Request(v)
  <2>1. SUFFICES ASSUME Request(v) PROVE FALSE
    OBVIOUS
  <2>2. \E next : Step(v, next) \/ Write(v, next)
    BY <2>1 DEF Request, CreateProfile, DeleteProfile, UpdateFind, UpdateSave, UpsertNodeKey,
       KeygenForNode, EnsureNoPortConflict, UpsertFind, UpsertWrite, DeleteKeyFind, DeleteKey,
       SetNodeKeyLocked, SetKeyLocked, MarkAllDrifted
  <2>. QED
    BY <1>1, <1>2, <2>2
<1>3. ASSUME Request(w) PROVE UpsertWrite(w)
  BY <1>3 DEF Request, CreateProfile, DeleteProfile, UpdateFind, UpdateSave, UpsertNodeKey,
     KeygenForNode, EnsureNoPortConflict, UpsertFind, DeleteKeyFind, DeleteKey,
     SetNodeKeyLocked, SetKeyLocked, MarkAllDrifted
<1>4. job' # job
  OBVIOUS
<1>. QED
  BY <1>2, <1>3, <1>4 DEF Next, SyncNode, CheckNode, ChangeUser

(* A write at a port that is free hides nobody's inbound.                  *)
LEMMA PutDisplacesNobody ==
    ASSUME ProvisionInv, NEW w \in Workers, UpsertWrite(w),
           job'[w].pc = "mark", job[w].alone,
           NEW n \in Nodes, NEW p \in Profiles, job[w].node = n, job[w].profile = p
    PROVE  Served(n) \ {p} \subseteq Served(n)'
<1>. DEFINE form == job[w].form
<1>1. /\ profile' = profile
      /\ \A q \in Profiles \ {p} : key[n][q].bound /\ profile[q].st = "on" =>
            <<Transport(profile[q].proto), PortOf(key[n][q], profile[q])>>
              # <<Transport(profile[p].proto), PortOf(form, profile[p])>>
  BY WhatIsWritten DEF ProvisionInv, JobsFit, Fit, PortFree
<1>2. ~Step(w, Idle)
  BY DEF Step, Idle, ProvisionInv, TypeOK
<1>3. PICK new \in Key : /\ key' = [key EXCEPT ![n][p] = new]
                         /\ new.bound /\ new.port = form.port
  BY <1>2, WhatIsWritten
<1>4. key \in [Nodes -> [Profiles -> Key]]
  BY DEF ProvisionInv, TypeOK
<1>. HIDE DEF form
<1>5. key'[n][p] = new /\ \A q \in Profiles \ {p} : key'[n][q] = key[n][q]
  BY <1>1, <1>3, <1>4
<1>6. ASSUME NEW q \in Profiles \ {p}
      PROVE  /\ q \in Candidates(n)' <=> q \in Candidates(n)
             /\ PortKey(n, q)' = PortKey(n, q)
  BY <1>1, <1>5
     DEF Candidates, FindActiveKeysForNode, Buildable, PortKey, EffectivePort, Transport,
         EffectivePair, EffectiveProxyAllowedIPs, EffectiveProxyAccounts, Override
<1>7. ASSUME NEW q \in Served(n), q # p PROVE q \in Served(n)'
  <2>1. /\ q \in Profiles /\ q \in Candidates(n) /\ key[n][q].bound
        /\ profile[q].st = "on"
    BY ServedFits DEF Served
  <2>2. q \in Candidates(n)'
    BY <1>6, <1>7, <2>1
  <2>3. ASSUME NEW r \in Candidates(n)', r < q PROVE PortKey(n, r)' # PortKey(n, q)'
    <3>1. r \in Profiles
      BY DEF Candidates, FindActiveKeysForNode
    <3>2. CASE r = p
      <4>1. PortKey(n, p)' = <<Transport(profile[p].proto), PortOf(form, profile[p])>>
        BY <1>1, <1>3, <1>5 DEF PortKey, EffectivePort, PortOf, Transport
      <4>2. PortKey(n, q) = <<Transport(profile[q].proto), PortOf(key[n][q], profile[q])>>
        BY DEF PortKey, EffectivePort, PortOf
      <4>3. PortKey(n, q) # <<Transport(profile[p].proto), PortOf(form, profile[p])>>
        BY <1>1, <1>7, <2>1, <4>2
      <4>. QED
        BY <1>6, <1>7, <2>1, <3>2, <4>1, <4>3
    <3>3. CASE r # p
      <4>1. r \in Candidates(n) /\ PortKey(n, r)' = PortKey(n, r)
        BY <1>6, <2>3, <3>1, <3>3
      <4>2. PortKey(n, r) # PortKey(n, q)
        BY <1>7, <2>3, <4>1 DEF Served
      <4>. QED
        BY <1>6, <1>7, <2>1, <4>1, <4>2
    <3>. QED
      BY <3>2, <3>3
  <2>. QED
    BY <2>2, <2>3 DEF Served
<1>. QED
  BY <1>7

(* Saving a key hides no other inbound of the node when no other request   *)
(* wrote between its port check and its write.                             *)
THEOREM NobodyIsEverDisplaced == Spec => NobodyIsDisplaced
<1>. DEFINE A == \A w \in Workers, n \in Nodes :
                    /\ job[w].pc = "put" /\ job'[w].pc = "mark"
                    /\ job[w].alone /\ job[w].node = n
                    => Served(n) \ {job[w].profile} \subseteq Served(n)'
<1>1. ProvisionInv /\ [Next]_vars => [A]_vars
  <2>. SUFFICES ASSUME ProvisionInv, Next,
                       NEW w \in Workers, NEW n \in Nodes,
                       job[w].pc = "put", job'[w].pc = "mark",
                       job[w].alone, job[w].node = n
                PROVE  Served(n) \ {job[w].profile} \subseteq Served(n)'
    OBVIOUS
  <2>1. UpsertWrite(w)
    BY OnlyPutMarks
  <2>2. PICK p \in Profiles : job[w].profile = p
    BY <2>1, WhatIsWritten
  <2>3. Served(n) \ {p} \subseteq Served(n)'
    BY <2>1, <2>2, PutDisplacesNobody
  <2>. QED
    BY <2>2, <2>3
<1>2. Spec => []ProvisionInv
  BY InitFits, NextFits, PTL DEF Spec
<1>. QED
  BY <1>1, <1>2, PTL DEF Spec, NobodyIsDisplaced

(* What a step does to a locked row.                                       *)
LEMMA LockedRowStays ==
    ASSUME ProvisionInv, Next, NEW n \in Nodes, NEW p \in Profiles, key[n][p].locked
    PROVE  \/ /\ key'[n][p].bound
              /\ key'[n][p].port = key[n][p].port /\ key'[n][p].set = key[n][p].set
           \/ \E w \in Workers : /\ job[w].pc \in {"put", "drop"} /\ ~job[w].alone
                                 /\ job[w].node = n /\ job[w].profile = p
<1>. DEFINE Stays == /\ key'[n][p].bound
                     /\ key'[n][p].port = key[n][p].port /\ key'[n][p].set = key[n][p].set
<1>1. key[n][p].bound /\ key \in [Nodes -> [Profiles -> Key]]
  BY DEF ProvisionInv, LocksFit, TypeOK
<1>2. CASE key' = key
  BY <1>1, <1>2
<1>3. CASE \E w \in Workers : SetKeyLocked(w)
  BY <1>1, <1>3, WhatIsLocked
<1>4. ASSUME NEW w \in Workers, UpsertWrite(w) \/ DeleteKey(w), key' # key
      PROVE  \/ Stays
             \/ /\ job[w].pc \in {"put", "drop"} /\ ~job[w].alone
                /\ job[w].node = n /\ job[w].profile = p
  <2>. DEFINE j == job[w]
  <2>1. /\ j.pc \in {"put", "drop"} /\ Fit(j, profile, key) /\ j \in Job
        /\ \E new : key' = [key EXCEPT ![j.node][j.profile] = new]
    BY <1>4, WhatIsWritten DEF DeleteKey, ProvisionInv, JobsFit, TypeOK
  <2>2. CASE j.node = n /\ j.profile = p
    <3>1. ~j.alone
      BY <2>1, <2>2 DEF Fit
    <3>. QED
      BY <2>1, <2>2, <3>1
  <2>3. CASE ~(j.node = n /\ j.profile = p)
    <3>. HIDE DEF j
    <3>1. key'[n][p] = key[n][p]
      BY <1>1, <2>1, <2>3
    <3>. QED
      BY <1>1, <3>1
  <2>. QED
    BY <2>2, <2>3
<1>5. \/ key' = key
      \/ \E w \in Workers : SetKeyLocked(w) \/ UpsertWrite(w) \/ DeleteKey(w)
  BY DEF Next, Request, CreateProfile, DeleteProfile, UpdateFind, UpdateSave, UpsertNodeKey,
     KeygenForNode, EnsureNoPortConflict, UpsertFind, DeleteKeyFind, SetNodeKeyLocked,
     MarkAllDrifted, SyncNode, CheckNode, ChangeUser
<1>. QED
  BY <1>2, <1>3, <1>4, <1>5

(* A locked binding changes only by a request that overlapped the locking. *)
THEOREM LocksAreHeld == Spec => LockHolds
<1>. DEFINE A == \A n \in Nodes, p \in Profiles :
        key[n][p].locked =>
            \/ /\ key'[n][p].bound
               /\ key'[n][p].port = key[n][p].port /\ key'[n][p].set = key[n][p].set
            \/ \E w \in Workers : /\ job[w].pc \in {"put", "drop"} /\ ~job[w].alone
                                  /\ job[w].node = n /\ job[w].profile = p
<1>1. ProvisionInv /\ [Next]_vars => [A]_vars
  <2>. SUFFICES ASSUME ProvisionInv, Next PROVE A
    OBVIOUS
  <2>. QED
    BY LockedRowStays
<1>2. Spec => []ProvisionInv
  BY InitFits, NextFits, PTL DEF Spec
<1>. QED
  BY <1>1, <1>2, PTL DEF Spec, LockHolds
=============================================================================
