------------------------------ MODULE NodeInstall ------------------------------
(***************************************************************************)
(* One-click node installation: an administrator issues a one-time token,  *)
(* the bootstrap script calls the panel with it (first for the panel's     *)
(* public key, then to register), and the registration creates a node or,  *)
(* for a replacement token, moves an existing node to its new server.      *)
(*                                                                         *)
(* InstallService holds no lock: what keeps concurrent and repeated calls  *)
(* apart is the conditional UPDATE of MarkUsed.  One database statement is *)
(* one step; every call makes one request.                                 *)
(***************************************************************************)
EXTENDS Naturals, FiniteSets

CONSTANTS
    Tokens, Ids, Names,  \* token rows, node ids, node names
    Sources,             \* addresses a call may come from
    Calls,               \* requests of bootstrap scripts
    NoIp, NoNode, NoCall,
    Limit                \* bounds of the model: event -> how often it occurs

Events == {"revoke", "delete", "expire", "crash"}

ASSUME NodeInstallAssumption ==
    /\ NoIp \notin Sources /\ NoNode \notin Ids /\ NoCall \notin Calls
    /\ Names # {} /\ Tokens # {} /\ Limit \in [Events -> Nat]

Token == [st : {"unissued", "open", "used", "gone"}, name : Names,
          target : Ids \cup {NoNode}, ip : Sources \cup {NoIp},
          node : Ids \cup {NoNode}, expired : BOOLEAN]
Node  == [st : {"free", "live", "deleted"}, name : Names,
          by : Calls \cup {NoCall}]
Call  == [pc : {"idle", "bind", "create", "find", "mark", "undo", "save", "done"},
          kind : {"pubkey", "register"}, token : Tokens,
          source : Sources \cup {NoIp}, seen : Token, made : Ids \cup {NoNode},
          result : {"none", "ok", "refused", "lost"}]

VARIABLES
    token,  \* node_install_tokens
    node,   \* nodes; `by` is the call that wrote the address of the row
    call,   \* each request: where it is, what it read, how it ended
    used    \* bounded events so far

vars == <<token, node, call, used>>

NewToken == [st |-> "unissued", name |-> CHOOSE m \in Names : TRUE,
             target |-> NoNode, ip |-> NoIp, node |-> NoNode,
             expired |-> FALSE]
NewCall  == [pc |-> "idle", kind |-> "pubkey", token |-> CHOOSE t \in Tokens : TRUE,
             source |-> NoIp, seen |-> NewToken, made |-> NoNode,
             result |-> "none"]

(* Some nodes exist already, added by hand.                                *)
Init ==
    /\ token = [t \in Tokens |-> NewToken]
    /\ node \in [Ids -> [st : {"free", "live"}, name : Names, by : {NoCall}]]
    /\ call = [c \in Calls |-> NewCall]
    /\ used = [e \in Events |-> 0]

Spend(e) == /\ used[e] < Limit[e]
            /\ used' = [used EXCEPT ![e] = @ + 1]

Live(i) == node[i].st = "live"
Goto(c, label) == call' = [call EXCEPT ![c].pc = label]
End(c, how)    == call' = [call EXCEPT ![c] = [@ EXCEPT !.pc = "done", !.result = how]]

-----------------------------------------------------------------------------
(* The administrator and the clock.                                        *)

(* CreateToken for a new node: no node has that name now.                  *)
IssueCreate(t, m) ==
    /\ token[t].st = "unissued"
    /\ \A i \in Ids : Live(i) => node[i].name # m
    /\ token' = [token EXCEPT ![t] = [@ EXCEPT !.st = "open", !.name = m]]
    /\ UNCHANGED <<node, call, used>>

(* CreateToken to replace the server of node i: its name is taken over.    *)
IssueReplace(t, i) ==
    /\ token[t].st = "unissued" /\ Live(i)
    /\ token' = [token EXCEPT ![t] = [@ EXCEPT !.st = "open", !.name = node[i].name,
                                                !.target = i]]
    /\ UNCHANGED <<node, call, used>>

RevokeToken(t) ==
    /\ token[t].st \in {"open", "used"} /\ Spend("revoke")
    /\ token' = [token EXCEPT ![t].st = "gone"]
    /\ UNCHANGED <<node, call>>

Expire(t) ==
    /\ token[t].st = "open" /\ ~token[t].expired /\ Spend("expire")
    /\ token' = [token EXCEPT ![t].expired = TRUE]
    /\ UNCHANGED <<node, call>>

(* Mutant of CleanupExpired: used tokens are cleaned up as well.           *)
CleanupExpired_UsedToo ==
    /\ \E t \in Tokens : token[t].st \in {"open", "used"} /\ token[t].expired
    /\ token' = [t \in Tokens |->
                    IF token[t].st \in {"open", "used"} /\ token[t].expired
                    THEN [token[t] EXCEPT !.st = "gone"] ELSE token[t]]
    /\ UNCHANGED <<node, call, used>>

(* The hourly cleanup: expired tokens that were never used.                *)
CleanupExpired ==
    /\ \E t \in Tokens : token[t].st = "open" /\ token[t].expired
    /\ token' = [t \in Tokens |->
                    IF token[t].st = "open" /\ token[t].expired
                    THEN [token[t] EXCEPT !.st = "gone"] ELSE token[t]]
    /\ UNCHANGED <<node, call, used>>

DeleteNode(i) ==
    /\ Live(i) /\ Spend("delete")
    /\ node' = [node EXCEPT ![i].st = "deleted"]
    /\ UNCHANGED <<token, call>>

-----------------------------------------------------------------------------
(* A call of the bootstrap script.                                         *)

(* AuthorizeToken, on a row read here and used from now on: neither used   *)
(* nor expired, and not bound to another address.                          *)
Authorize(c, kind, t, ip) ==
    /\ call[c].pc = "idle" /\ token[t].st # "unissued"
    /\ LET passed == /\ token[t].st = "open" /\ ~token[t].expired
                     /\ token[t].ip \in {NoIp, ip}
       IN call' = [call EXCEPT ![c] =
                    [@ EXCEPT !.pc = IF passed THEN "bind" ELSE "done",
                              !.kind = kind, !.token = t, !.source = ip,
                              !.seen = token[t],
                              !.result = IF passed THEN "none" ELSE "refused"]]
    /\ UNCHANGED <<token, node, used>>

(* BindTokenIP: only when the row read was not bound, and only as long as  *)
(* the row is not.                                                         *)
BindTokenIP(c) ==
    LET t == call[c].token
        free == call[c].seen.ip = NoIp /\ token[t].ip = NoIp
    IN /\ call[c].pc = "bind"
       /\ token' = IF free THEN [token EXCEPT ![t].ip = call[c].source] ELSE token
       /\ IF call[c].kind = "pubkey" THEN End(c, "ok")
          ELSE Goto(c, IF call[c].seen.target = NoNode THEN "create" ELSE "find")
       /\ UNCHANGED <<node, used>>

(* registerCreate inserts the node before it claims the token.             *)
RegisterCreate(c) ==
    /\ call[c].pc = "create"
    /\ \E i \in Ids :
        /\ node[i].st = "free"
        /\ node' = [node EXCEPT ![i] = [st |-> "live", name |-> call[c].seen.name,
                                        by |-> c]]
        /\ call' = [call EXCEPT ![c] = [@ EXCEPT !.pc = "mark", !.made = i]]
    /\ UNCHANGED <<token, used>>

(* registerReplace reads the node before it claims the token.              *)
ReplaceFind(c) ==
    /\ call[c].pc = "find"
    /\ IF Live(call[c].seen.target)
       THEN call' = [call EXCEPT ![c] = [@ EXCEPT !.pc = "mark", !.made = call[c].seen.target]]
       ELSE End(c, "refused")
    /\ UNCHANGED <<token, node, used>>

Claim(c) == token' = [token EXCEPT ![call[c].token] =
                                [@ EXCEPT !.st = "used", !.node = call[c].made]]

(* What follows the claim: a new node is done, a replaced one is saved.    *)
Claimed(c) == IF call[c].seen.target = NoNode THEN End(c, "ok") ELSE Goto(c, "save")
(* A lost claim: a node created for it is deleted again.                   *)
Beaten(c)  == IF call[c].seen.target = NoNode THEN Goto(c, "undo")
              ELSE End(c, "refused")

(* Mutant of MarkUsed: no condition on used_at.                            *)
MarkUsed_Always(c) ==
    /\ call[c].pc = "mark"
    /\ IF token[call[c].token].st \in {"open", "used"}
       THEN Claim(c) /\ Claimed(c)
       ELSE Beaten(c) /\ UNCHANGED token
    /\ UNCHANGED <<node, used>>

(* Mutant of MarkUsed: whoever loses the claim just returns.               *)
MarkUsed_NoUndo(c) ==
    /\ call[c].pc = "mark"
    /\ IF token[call[c].token].st = "open"
       THEN Claim(c) /\ Claimed(c)
       ELSE End(c, "refused") /\ UNCHANGED token
    /\ UNCHANGED <<node, used>>

(* MarkUsed: UPDATE ... WHERE id = ? AND used_at IS NULL.                  *)
MarkUsed(c) ==
    /\ call[c].pc = "mark"
    /\ IF token[call[c].token].st = "open"
       THEN Claim(c) /\ Claimed(c)
       ELSE Beaten(c) /\ UNCHANGED token
    /\ UNCHANGED <<node, used>>

RegisterUndo(c) ==
    /\ call[c].pc = "undo"
    /\ node' = [node EXCEPT ![call[c].made].st = "deleted"]
    /\ End(c, "refused")
    /\ UNCHANGED <<token, used>>

(* registerReplace saves the whole row it read: GORM's Save updates it or, *)
(* when there is no such row, inserts it.                                  *)
ReplaceSave(c) ==
    /\ call[c].pc = "save"
    /\ node' = [node EXCEPT ![call[c].made] = [@ EXCEPT !.st = "live", !.by = c]]
    /\ End(c, "ok")
    /\ UNCHANGED <<token, used>>

(* The panel stops: the requests under way get no answer.                  *)
Crash ==
    /\ Spend("crash")
    /\ call' = [c \in Calls |->
                IF call[c].pc \in {"idle", "done"} THEN call[c]
                ELSE [call[c] EXCEPT !.pc = "done", !.result = "lost"]]
    /\ UNCHANGED <<token, node>>

Next ==
    \/ \E t \in Tokens, m \in Names : IssueCreate(t, m)
    \/ \E t \in Tokens, i \in Ids : IssueReplace(t, i)
    \/ \E t \in Tokens : RevokeToken(t) \/ Expire(t)
    \/ \E i \in Ids : DeleteNode(i)
    \/ \E c \in Calls, kind \in {"pubkey", "register"}, t \in Tokens, ip \in Sources :
            Authorize(c, kind, t, ip)
    \/ \E c \in Calls : BindTokenIP(c) \/ RegisterCreate(c) \/ ReplaceFind(c)
                          \/ MarkUsed(c) \/ RegisterUndo(c) \/ ReplaceSave(c)
    \/ CleanupExpired \/ Crash

Spec == Init /\ [][Next]_vars

-----------------------------------------------------------------------------
(* Properties.                                                             *)

(* Every variable keeps to its domain.                                     *)
TypeOK == /\ token \in [Tokens -> Token] /\ node \in [Ids -> Node]
          /\ call \in [Calls -> Call] /\ used \in [Events -> Nat]

Registered(c) == call[c].kind = "register" /\ call[c].result = "ok"

(* A token is one-time: of all the calls that register with it, however    *)
(* they interleave with each other, with expiry, cleanup, revocation and   *)
(* restarts, at most one succeeds (install.go, MarkUsed).                  *)
OneWinner ==
    \A c, d \in Calls :
        Registered(c) /\ Registered(d) /\ call[c].token = call[d].token => c = d

(* A call that was turned away has left nothing behind: no node created    *)
(* by it is still there, no node was moved to its server.                  *)
LosersLeaveNoTrace ==
    \A i \in Ids : Live(i) /\ node[i].by \in Calls =>
        call[node[i].by].result # "refused"

(* The audit trail: the token row names the node of the call that          *)
(* succeeded, and stays unless an administrator deletes it.                *)
WinnerIsRecorded ==
    \A c \in Calls : Registered(c) =>
        \/ /\ token[call[c].token].st = "used"
           /\ token[call[c].token].node = call[c].made
        \/ token[call[c].token].st = "gone" /\ used["revoke"] > 0

(* Why every step keeps the three of them.  A call that has claimed its    *)
(* token is the only one, because the claim needs an open token and leaves *)
(* a used one; the address of a live node was written by a call that is    *)
(* either finished or will take the node it made away again.               *)
Claimant(c) == /\ call[c].kind = "register"
               /\ call[c].pc = "save" \/ call[c].result = "ok"
CallShape ==
    \A c \in Calls :
        /\ call[c].result # "none" <=> call[c].pc = "done"
        /\ call[c].pc \in {"create", "find", "mark", "undo", "save"} =>
              call[c].kind = "register"
        /\ call[c].pc = "create" => call[c].seen.target = NoNode
        /\ call[c].pc = "find" => call[c].seen.target # NoNode
        /\ call[c].pc \in {"mark", "undo", "save"} => call[c].made \in Ids
OneClaimant ==
    \A c, d \in Calls :
        Claimant(c) /\ Claimant(d) /\ call[c].token = call[d].token => c = d
ClaimRecorded ==
    \A c \in Calls : Claimant(c) =>
        \/ /\ token[call[c].token].st = "used"
           /\ token[call[c].token].node = call[c].made
        \/ token[call[c].token].st = "gone" /\ used["revoke"] > 0
Excused(c, i) ==
    \/ /\ call[c].pc \in {"mark", "undo"} /\ call[c].made = i
       /\ call[c].seen.target = NoNode
    \/ call[c].result \in {"ok", "lost"}
NodeOwner ==
    \A i \in Ids : Live(i) /\ node[i].by \in Calls => Excused(node[i].by, i)
InstallInv == /\ TypeOK /\ CallShape /\ OneClaimant /\ ClaimRecorded
              /\ NodeOwner

(* entity/node_install_token.go, UsedAt: it is set when a registration has *)
(* succeeded.  So the node of a used token carries the address it brought. *)
UsedMeansRegistered ==
    \A t \in Tokens :
        /\ token[t].st = "used"
        /\ \A c \in Calls : call[c].token = t => call[c].pc = "done"
        => \E c \in Calls : call[c].token = t /\ Registered(c)

(* install.go, registerReplace: it updates an existing node and creates no *)
(* record.                                                                 *)
ReplaceCreatesNoRecord ==
    [][\A i \in Ids : node[i].st = "deleted" => ~Live(i)']_vars

=============================================================================
