-------------------------- MODULE NodeInstallProofs --------------------------
(***************************************************************************)
(* Proofs about NodeInstall, for any number of tokens, nodes, addresses    *)
(* and calls and any bounds.                                               *)
(***************************************************************************)
EXTENDS NodeInstall, TLAPS

-----------------------------------------------------------------------------
(* Types.                                                                  *)

LEMMA NewTokenType == NewToken \in Token
  BY NodeInstallAssumption DEF NewToken, Token

LEMMA NewCallType == NewCall \in Call
  <1>1. (CHOOSE t \in Tokens : TRUE) \in Tokens
    BY NodeInstallAssumption
  <1> QED
    BY <1>1, NewTokenType DEF NewCall, Call

LEMMA InitType == Init => TypeOK
  <1> SUFFICES ASSUME Init PROVE TypeOK
    OBVIOUS
  <1>1. token \in [Tokens -> Token]
    BY NewTokenType DEF Init
  <1>2. node \in [Ids -> Node]
    BY DEF Init, Node
  <1>3. call \in [Calls -> Call]
    BY NewCallType DEF Init
  <1>4. used \in [Events -> Nat]
    BY DEF Init
  <1> QED
    BY <1>1, <1>2, <1>3, <1>4 DEF TypeOK

LEMMA SpendType ==
  ASSUME TypeOK, NEW e \in Events, Spend(e)
  PROVE  /\ used' \in [Events -> Nat] /\ used'[e] > 0
         /\ \A f \in Events : used'[f] >= used[f]
  BY NodeInstallAssumption DEF TypeOK, Spend

(* Steps of the administrator and of the clock.                            *)
AdminStep ==
    \/ \E t \in Tokens, m \in Names : IssueCreate(t, m)
    \/ \E t \in Tokens, i \in Ids : IssueReplace(t, i)
    \/ \E t \in Tokens : RevokeToken(t) \/ Expire(t)
    \/ \E i \in Ids : DeleteNode(i)
    \/ CleanupExpired

LEMMA AdminType == TypeOK /\ AdminStep => TypeOK'
  <1> SUFFICES ASSUME TypeOK, AdminStep PROVE TypeOK'
    OBVIOUS
  <1> USE DEF TypeOK
  <1>1. ASSUME NEW t \in Tokens, NEW m \in Names, IssueCreate(t, m)
        PROVE  TypeOK'
    BY <1>1 DEF IssueCreate, Token
  <1>2. ASSUME NEW t \in Tokens, NEW i \in Ids, IssueReplace(t, i)
        PROVE  TypeOK'
    <2> DEFINE new == [token[t] EXCEPT !.st = "open", !.name = node[i].name, !.target = i]
    <2>1. node[i].name \in Names
      BY DEF Node
    <2>2. new \in Token
      BY <2>1 DEF Token
    <2>3. token' = [token EXCEPT ![t] = new] /\ UNCHANGED <<node, call, used>>
      BY <1>2 DEF IssueReplace
    <2> HIDE DEF new
    <2>4. token' \in [Tokens -> Token]
      BY <2>2, <2>3
    <2> QED
      BY <2>3, <2>4
  <1>3. ASSUME NEW t \in Tokens, RevokeToken(t)
        PROVE  TypeOK'
    BY <1>3, SpendType DEF RevokeToken, Token, Events
  <1>4. ASSUME NEW t \in Tokens, Expire(t)
        PROVE  TypeOK'
    BY <1>4, SpendType, ZenonT(40) DEF Expire, Token, Events
  <1>5. ASSUME NEW i \in Ids, DeleteNode(i)
        PROVE  TypeOK'
    BY <1>5, SpendType DEF DeleteNode, Node, Events
  <1>6. CASE CleanupExpired
    BY <1>6 DEF CleanupExpired, Token
  <1> QED
    BY <1>1, <1>2, <1>3, <1>4, <1>5, <1>6 DEF AdminStep

(* Steps of a call.                                                        *)
CallStep(c) ==
    \/ \E kind \in {"pubkey", "register"}, t \in Tokens, ip \in Sources :
            Authorize(c, kind, t, ip)
    \/ BindTokenIP(c) \/ RegisterCreate(c) \/ ReplaceFind(c)
    \/ MarkUsed(c) \/ RegisterUndo(c) \/ ReplaceSave(c)

LEMMA NextCases ==
    Next => AdminStep \/ (\E c \in Calls : CallStep(c)) \/ Crash
  BY DEF Next, AdminStep, CallStep

LEMMA CallParts ==
  ASSUME TypeOK, NEW c \in Calls
  PROVE  /\ call[c] \in Call /\ call[c].token \in Tokens
         /\ call[c].kind \in {"pubkey", "register"}
         /\ call[c].source \in Sources \cup {NoIp}
         /\ call[c].made \in Ids \cup {NoNode}
         /\ call[c].seen \in Token /\ call[c].seen.name \in Names
         /\ call[c].seen.target \in Ids \cup {NoNode}
  BY DEF TypeOK, Call, Token

(* Writing one call, one field after the other.                            *)
Pcs == {"idle", "bind", "create", "find", "mark", "undo", "save", "done"}

LEMMA CallWrite ==
  ASSUME TypeOK, NEW c \in Calls, NEW r \in Call,
         call' = [call EXCEPT ![c] = r]
  PROVE  call' \in [Calls -> Call]
  BY DEF TypeOK

LEMMA PcWrite ==
  ASSUME NEW r \in Call, NEW l \in Pcs
  PROVE  [r EXCEPT !.pc = l] \in Call
  BY DEF Call, Pcs

LEMMA ResultWrite ==
  ASSUME NEW r \in Call, NEW how \in {"none", "ok", "refused", "lost"}
  PROVE  [r EXCEPT !.result = how] \in Call
  BY DEF Call

LEMMA MadeWrite ==
  ASSUME NEW r \in Call, NEW i \in Ids \cup {NoNode}
  PROVE  [r EXCEPT !.made = i] \in Call
  BY DEF Call

LEMMA AuthorizeWrite ==
  ASSUME NEW r \in Call, NEW l \in Pcs, NEW kind \in {"pubkey", "register"},
         NEW t \in Tokens, NEW ip \in Sources, NEW seen \in Token,
         NEW how \in {"none", "ok", "refused", "lost"}
  PROVE  [r EXCEPT !.pc = l, !.kind = kind, !.token = t, !.source = ip,
                   !.seen = seen, !.result = how] \in Call
  <1> DEFINE s == [[r EXCEPT !.pc = l] EXCEPT !.kind = kind]
             u == [[s EXCEPT !.token = t] EXCEPT !.source = ip]
  <1>1. s \in Call
    BY DEF Call, Pcs
  <1>2. u \in Call
    <2> HIDE DEF s
    <2> QED
      BY <1>1 DEF Call
  <1> HIDE DEF u
  <1>3. [[u EXCEPT !.seen = seen] EXCEPT !.result = how] \in Call
    BY <1>2 DEF Call
  <1> QED
    BY <1>3 DEF u

LEMMA EndType ==
  ASSUME TypeOK, NEW c \in Calls, NEW how \in {"ok", "refused", "lost"},
         End(c, how)
  PROVE  call' \in [Calls -> Call]
  <1>1. [[call[c] EXCEPT !.pc = "done"] EXCEPT !.result = how] \in Call
    BY CallParts, PcWrite, ResultWrite DEF Pcs
  <1> QED
    BY <1>1, CallWrite DEF End

LEMMA MarkType ==
  ASSUME TypeOK, NEW c \in Calls, NEW i \in Ids \cup {NoNode},
         call' = [call EXCEPT ![c] = [@ EXCEPT !.pc = "mark", !.made = i]]
  PROVE  call' \in [Calls -> Call]
  <1>1. [[call[c] EXCEPT !.pc = "mark"] EXCEPT !.made = i] \in Call
    BY CallParts, PcWrite, MadeWrite DEF Pcs
  <1> QED
    BY <1>1, CallWrite

LEMMA GotoType ==
  ASSUME TypeOK, NEW c \in Calls, NEW l \in {"create", "find", "undo", "save"},
         Goto(c, l)
  PROVE  call' \in [Calls -> Call]
  BY DEF TypeOK, Goto, Call

LEMMA CallType == ASSUME TypeOK, NEW c \in Calls, CallStep(c) PROVE TypeOK'
  <1> USE DEF TypeOK
  <1>1. ASSUME NEW kind \in {"pubkey", "register"}, NEW t \in Tokens,
               NEW ip \in Sources, Authorize(c, kind, t, ip)
        PROVE  TypeOK'
    <2> DEFINE passed == /\ token[t].st = "open" /\ ~token[t].expired
                         /\ token[t].ip \in {NoIp, ip}
               l == IF passed THEN "bind" ELSE "done"
               how == IF passed THEN "none" ELSE "refused"
               r == [call[c] EXCEPT !.pc = l, !.kind = kind, !.token = t,
                                    !.source = ip, !.seen = token[t],
                                    !.result = how]
    <2>1. l \in Pcs /\ how \in {"none", "ok", "refused", "lost"}
      BY DEF Pcs
    <2>2. r \in Call
      <3>1. call[c] \in Call /\ token[t] \in Token
        OBVIOUS
      <3> HIDE DEF l, how, TypeOK
      <3> QED
        BY <2>1, <3>1, AuthorizeWrite, ZenonT(40)
    <2>3. call' = [call EXCEPT ![c] = r]
      BY <1>1 DEF Authorize
    <2> QED
      BY <1>1, <2>2, <2>3, CallWrite DEF Authorize
  <1>2. CASE BindTokenIP(c)
    <2>1. token' \in [Tokens -> Token]
      BY <1>2, CallParts DEF BindTokenIP, Token
    <2>2. call' \in [Calls -> Call]
      BY <1>2, EndType, GotoType DEF BindTokenIP
    <2> QED
      BY <1>2, <2>1, <2>2 DEF BindTokenIP
  <1>3. CASE RegisterCreate(c)
    <2>1. PICK i \in Ids :
            /\ node' = [node EXCEPT ![i] = [st |-> "live",
                                            name |-> call[c].seen.name, by |-> c]]
            /\ call' = [call EXCEPT ![c] = [@ EXCEPT !.pc = "mark", !.made = i]]
      BY <1>3 DEF RegisterCreate
    <2>2. node' \in [Ids -> Node]
      BY <2>1, CallParts DEF Node
    <2>3. call' \in [Calls -> Call]
      BY <2>1, MarkType
    <2> QED
      BY <1>3, <2>2, <2>3 DEF RegisterCreate
  <1>4. CASE ReplaceFind(c)
    <2>1. call' \in [Calls -> Call]
      BY <1>4, EndType, MarkType, CallParts DEF ReplaceFind
    <2> QED
      BY <1>4, <2>1 DEF ReplaceFind
  <1>5. CASE MarkUsed(c)
    <2>1. token' \in [Tokens -> Token]
      <3> DEFINE k == call[c].token
                 r == [[token[k] EXCEPT !.st = "used"]
                          EXCEPT !.node = call[c].made]
      <3>1. token[k] \in Token
        BY CallParts
      <3>2. r \in Token
        <4> HIDE DEF k
        <4> QED
          BY <3>1, CallParts DEF Token
      <3>3. token' = token \/ token' = [token EXCEPT ![k] = r]
        BY <1>5 DEF MarkUsed, Claim, Beaten
      <3> QED
        BY <3>2, <3>3
    <2>2. call' \in [Calls -> Call]
      BY <1>5, EndType, GotoType DEF MarkUsed, Claimed, Beaten
    <2> QED
      BY <1>5, <2>1, <2>2 DEF MarkUsed
  <1>6. CASE RegisterUndo(c)
    BY <1>6, EndType DEF RegisterUndo, Node
  <1>7. CASE ReplaceSave(c)
    BY <1>7, EndType DEF ReplaceSave, Node
  <1> QED
    BY <1>1, <1>2, <1>3, <1>4, <1>5, <1>6, <1>7 DEF CallStep

LEMMA CrashType == TypeOK /\ Crash => TypeOK'
  <1> SUFFICES ASSUME TypeOK, Crash PROVE TypeOK'
    OBVIOUS
  <1>1. call' \in [Calls -> Call]
    <2>1. ASSUME NEW c \in Calls
          PROVE  [call[c] EXCEPT !.pc = "done", !.result = "lost"] \in Call
      BY CallParts, PcWrite, ResultWrite DEF Pcs
    <2> QED
      BY <2>1, CallParts DEF Crash
  <1> QED
    BY <1>1, SpendType DEF TypeOK, Crash, Events

LEMMA TypeStep == TypeOK /\ [Next]_vars => TypeOK'
  <1>1. TypeOK /\ UNCHANGED vars => TypeOK'
    BY DEF TypeOK, vars
  <1> QED
    BY <1>1, NextCases, AdminType, CallType, CrashType

(* Every variable keeps to its domain.                                     *)
THEOREM TypeCorrect == Spec => []TypeOK
  BY InitType, TypeStep, PTL DEF Spec

-----------------------------------------------------------------------------
(* The course of a call.                                                   *)

LEMMA ShapeInit == Init => CallShape
  BY DEF Init, CallShape, NewCall

LEMMA AdminFrame == AdminStep => call' = call
  BY DEF AdminStep, IssueCreate, IssueReplace, RevokeToken, Expire,
         DeleteNode, CleanupExpired

(* A step of c changes what c does and nothing of the other calls.         *)
LEMMA OwnCall ==
  ASSUME TypeOK, NEW c \in Calls, CallStep(c)
  PROVE  \A d \in Calls \ {c} : call'[d] = call[d]
  BY DEF TypeOK, CallStep, Authorize, BindTokenIP, RegisterCreate,
         ReplaceFind, MarkUsed, RegisterUndo, ReplaceSave, Claimed, Beaten,
         End, Goto

(* What ending a call, or sending it on, leaves in it.                     *)
LEMMA EndEffect ==
  ASSUME TypeOK, NEW c \in Calls, NEW how, End(c, how)
  PROVE  /\ call'[c].pc = "done" /\ call'[c].result = how
         /\ call'[c].kind = call[c].kind /\ call'[c].token = call[c].token
         /\ call'[c].made = call[c].made /\ call'[c].seen = call[c].seen
  <1>1. call[c] \in Call
    BY CallParts
  <1>2. call'[c] = [[call[c] EXCEPT !.pc = "done"] EXCEPT !.result = how]
    BY DEF TypeOK, End
  <1> QED
    BY <1>1, <1>2 DEF Call

LEMMA GotoEffect ==
  ASSUME TypeOK, NEW c \in Calls, NEW l, Goto(c, l)
  PROVE  /\ call'[c].pc = l /\ call'[c].result = call[c].result
         /\ call'[c].kind = call[c].kind /\ call'[c].token = call[c].token
         /\ call'[c].made = call[c].made /\ call'[c].seen = call[c].seen
  <1>1. call[c] \in Call
    BY CallParts
  <1>2. call'[c] = [call[c] EXCEPT !.pc = l]
    BY DEF TypeOK, Goto
  <1> QED
    BY <1>1, <1>2 DEF Call

LEMMA MarkEffect ==
  ASSUME TypeOK, NEW c \in Calls, NEW i,
         call' = [call EXCEPT ![c] = [@ EXCEPT !.pc = "mark", !.made = i]]
  PROVE  /\ call'[c].pc = "mark" /\ call'[c].result = call[c].result
         /\ call'[c].kind = call[c].kind /\ call'[c].token = call[c].token
         /\ call'[c].made = i /\ call'[c].seen = call[c].seen
  <1>1. call[c] \in Call
    BY CallParts
  <1> DEFINE r == [call[c] EXCEPT !.pc = "mark"]
  <1>2. call'[c] = [r EXCEPT !.made = i]
    BY DEF TypeOK
  <1>3. r \in Call
    BY <1>1, PcWrite DEF Pcs
  <1>4. r.pc = "mark" /\ r.result = call[c].result /\ r.kind = call[c].kind
        /\ r.token = call[c].token /\ r.seen = call[c].seen
    BY <1>1 DEF Call
  <1> HIDE DEF r
  <1> QED
    BY <1>2, <1>3, <1>4 DEF Call

LEMMA AuthorizeEffect ==
  ASSUME TypeOK, CallShape, NEW c \in Calls, NEW kind \in {"pubkey", "register"},
         NEW t \in Tokens, NEW ip \in Sources, Authorize(c, kind, t, ip)
  PROVE  /\ call[c].pc = "idle"
         /\ \/ call'[c].pc = "bind" /\ call'[c].result = "none"
            \/ call'[c].pc = "done" /\ call'[c].result = "refused"
  <1> DEFINE passed == /\ token[t].st = "open" /\ ~token[t].expired
                       /\ token[t].ip \in {NoIp, ip}
             l == IF passed THEN "bind" ELSE "done"
             how == IF passed THEN "none" ELSE "refused"
  <1>1. call[c] \in Call
    BY CallParts
  <1> DEFINE r == [[[[[call[c] EXCEPT !.pc = l] EXCEPT !.kind = kind]
                     EXCEPT !.token = t] EXCEPT !.source = ip]
                     EXCEPT !.seen = token[t]]
  <1>2. call[c].pc = "idle" /\ call'[c] = [r EXCEPT !.result = how]
    BY DEF TypeOK, Authorize
  <1>3. r.pc = l /\ "result" \in DOMAIN r /\ "pc" \in DOMAIN r
    <2> HIDE DEF l
    <2> QED
      BY <1>1 DEF Call
  <1>4. call'[c].pc = l /\ call'[c].result = how
    <2> HIDE DEF r, l, how
    <2> QED
      BY <1>2, <1>3
  <1> QED
    BY <1>2, <1>4

LEMMA CrashEffect ==
  ASSUME TypeOK, Crash, NEW c \in Calls
  PROVE  \/ call'[c] = call[c]
         \/ /\ call[c].pc \notin {"idle", "done"}
            /\ call'[c].pc = "done" /\ call'[c].result = "lost"
            /\ call'[c].kind = call[c].kind
  BY CallParts DEF Crash, Call

LEMMA ShapeStep == TypeOK /\ CallShape /\ [Next]_vars => CallShape'
  <1> SUFFICES ASSUME TypeOK, CallShape, [Next]_vars PROVE CallShape'
    OBVIOUS
  <1>1. ASSUME NEW c \in Calls, CallStep(c) PROVE CallShape'
    <2> DEFINE Shape(r) == /\ r.result # "none" <=> r.pc = "done"
                           /\ r.pc \in {"create", "find", "mark", "undo", "save"}
                                => r.kind = "register"
                           /\ r.pc = "create" => r.seen.target = NoNode
                           /\ r.pc = "find" => r.seen.target # NoNode
                           /\ r.pc \in {"mark", "undo", "save"} => r.made \in Ids
    <2>1. Shape(call[c])
      BY DEF CallShape
    <2>2. Shape(call'[c])
      <3>1. ASSUME NEW kind \in {"pubkey", "register"}, NEW t \in Tokens,
                   NEW ip \in Sources, Authorize(c, kind, t, ip)
            PROVE  Shape(call'[c])
        BY <3>1, AuthorizeEffect
      <3>2. CASE BindTokenIP(c)
        BY <2>1, <3>2, CallParts, EndEffect, GotoEffect DEF BindTokenIP
      <3>3. CASE RegisterCreate(c)
        BY <2>1, <3>3, MarkEffect, ZenonT(40) DEF RegisterCreate
      <3>4. CASE ReplaceFind(c)
        <4>1. CASE Live(call[c].seen.target)
          BY <2>1, <3>4, <4>1, MarkEffect, CallParts DEF ReplaceFind
        <4>2. CASE ~Live(call[c].seen.target)
          BY <2>1, <3>4, <4>2, EndEffect DEF ReplaceFind
        <4> QED
          BY <4>1, <4>2
      <3>5. CASE MarkUsed(c)
        BY <2>1, <3>5, EndEffect, GotoEffect DEF MarkUsed, Claimed, Beaten
      <3>6. CASE RegisterUndo(c) \/ ReplaceSave(c)
        BY <2>1, <3>6, EndEffect DEF RegisterUndo, ReplaceSave
      <3> QED
        BY <1>1, <3>1, <3>2, <3>3, <3>4, <3>5, <3>6 DEF CallStep
    <2> QED
      BY <1>1, <2>2, OwnCall DEF CallShape
  <1>2. CASE Crash
    BY <1>2, CrashEffect DEF CallShape
  <1>3. CASE AdminStep \/ UNCHANGED vars
    BY <1>3, AdminFrame DEF CallShape, vars
  <1> QED
    BY <1>1, <1>2, <1>3, NextCases

-----------------------------------------------------------------------------
(* Claims.                                                                 *)

ClaimInv == OneClaimant /\ ClaimRecorded

(* A step of a call either claims its open token, or makes nobody a        *)
(* claimant and leaves every claim as it is.                               *)
LEMMA ClaimCases ==
  ASSUME TypeOK, CallShape, NEW c \in Calls, CallStep(c)
  PROVE  /\ used' = used
         /\ \/ /\ \A t \in Tokens : /\ token'[t].st = token[t].st
                                    /\ token'[t].node = token[t].node
               /\ Claimant(c)' => /\ Claimant(c)
                                  /\ call'[c].token = call[c].token
                                  /\ call'[c].made = call[c].made
            \/ /\ token[call[c].token].st = "open"
               /\ token'[call[c].token].st = "used"
               /\ token'[call[c].token].node = call[c].made
               /\ \A t \in Tokens \ {call[c].token} : token'[t] = token[t]
               /\ call'[c].token = call[c].token
               /\ call'[c].made = call[c].made
  <1> USE DEF Claimant
  <1>0. /\ call[c].result # "none" <=> call[c].pc = "done"
        /\ call[c].pc \in {"create", "find", "mark", "undo", "save"} =>
              call[c].kind = "register"
    BY DEF CallShape
  <1>1. ASSUME NEW kind \in {"pubkey", "register"}, NEW t \in Tokens,
               NEW ip \in Sources, Authorize(c, kind, t, ip)
        PROVE  used' = used /\ token' = token /\ ~Claimant(c)'
    BY <1>1, AuthorizeEffect DEF Authorize
  <1>2. CASE BindTokenIP(c)
    <2>1. \A t \in Tokens : /\ token'[t].st = token[t].st
                            /\ token'[t].node = token[t].node
      BY <1>2 DEF BindTokenIP, TypeOK, Token
    <2>2. ~Claimant(c)'
      BY <1>0, <1>2, EndEffect, GotoEffect DEF BindTokenIP
    <2> QED
      BY <1>2, <2>1, <2>2 DEF BindTokenIP
  <1>3. CASE RegisterCreate(c)
    BY <1>0, <1>3, MarkEffect DEF RegisterCreate
  <1>4. CASE ReplaceFind(c)
    <2>1. ~Claimant(c)'
      <3>1. CASE Live(call[c].seen.target)
        BY <1>0, <1>4, <3>1, MarkEffect, CallParts DEF ReplaceFind
      <3>2. CASE ~Live(call[c].seen.target)
        BY <1>0, <1>4, <3>2, EndEffect DEF ReplaceFind
      <3> QED
        BY <3>1, <3>2
    <2> QED
      BY <1>4, <2>1 DEF ReplaceFind
  <1>5. CASE MarkUsed(c)
    <2>1. CASE token[call[c].token].st = "open"
      <3> DEFINE k == call[c].token
      <3>1. token' = [token EXCEPT ![k] = [[token[k] EXCEPT !.st = "used"]
                                              EXCEPT !.node = call[c].made]]
        BY <1>5, <2>1 DEF MarkUsed, Claim
      <3>2. k \in Tokens /\ token[k] \in Token
        BY CallParts DEF TypeOK
      <3>3. token'[k] = [[token[k] EXCEPT !.st = "used"]
                            EXCEPT !.node = call[c].made]
        BY <3>1, <3>2 DEF TypeOK
      <3>4. token'[k].st = "used" /\ token'[k].node = call[c].made
        <4> HIDE DEF k
        <4> QED
          BY <3>2, <3>3 DEF Token
      <3>5. \A t \in Tokens \ {k} : token'[t] = token[t]
        BY <3>1 DEF TypeOK
      <3>6. call'[c].token = k /\ call'[c].made = call[c].made
        BY <1>5, <2>1, EndEffect, GotoEffect DEF MarkUsed, Claimed
      <3> QED
        BY <1>5, <2>1, <3>4, <3>5, <3>6 DEF MarkUsed
    <2>2. CASE token[call[c].token].st # "open"
      BY <1>0, <1>5, <2>2, EndEffect, GotoEffect DEF MarkUsed, Beaten
    <2> QED
      BY <2>1, <2>2
  <1>6. CASE RegisterUndo(c)
    BY <1>6, EndEffect DEF RegisterUndo
  <1>7. CASE ReplaceSave(c)
    BY <1>0, <1>7, EndEffect DEF ReplaceSave
  <1> QED
    BY <1>1, <1>2, <1>3, <1>4, <1>5, <1>6, <1>7 DEF CallStep

LEMMA ClaimInit == Init => ClaimInv
  BY DEF Init, ClaimInv, OneClaimant, ClaimRecorded, Claimant, NewCall

(* No step of the administrator or of the clock touches a used token,      *)
(* but for its revocation.                                                 *)
LEMMA AdminClaims ==
  ASSUME TypeOK, AdminStep, NEW t \in Tokens
  PROVE  /\ token[t].st = "used" =>
              \/ token'[t].st = "used" /\ token'[t].node = token[t].node
              \/ token'[t].st = "gone" /\ used'["revoke"] > 0
         /\ token[t].st = "gone" => token'[t].st = "gone"
         /\ used["revoke"] > 0 => used'["revoke"] > 0
  <1> USE DEF TypeOK
  <1>0. used["revoke"] \in Nat
    BY DEF Events
  <1>1. ASSUME NEW s \in Tokens, NEW m \in Names, IssueCreate(s, m)
        PROVE  used' = used /\ (token'[t] = token[t] \/ token[t].st = "unissued")
    BY <1>1 DEF IssueCreate
  <1>2. ASSUME NEW s \in Tokens, NEW i \in Ids, IssueReplace(s, i)
        PROVE  used' = used /\ (token'[t] = token[t] \/ token[t].st = "unissued")
    BY <1>2 DEF IssueReplace
  <1>3. ASSUME NEW s \in Tokens, RevokeToken(s)
        PROVE  /\ token'[t] = token[t] \/ token'[t].st = "gone"
               /\ used'["revoke"] > 0
    <2>1. used'["revoke"] > 0
      BY <1>3, SpendType DEF RevokeToken, Events
    <2>2. token'[t] = token[t] \/ token'[t] = [token[t] EXCEPT !.st = "gone"]
      BY <1>3 DEF RevokeToken
    <2> QED
      BY <2>1, <2>2 DEF Token
  <1>4. ASSUME NEW s \in Tokens, Expire(s)
        PROVE  /\ used["revoke"] > 0 => used'["revoke"] > 0
               /\ token'[t] = token[t] \/ token[t].st = "open"
    <2>1. used'["revoke"] >= used["revoke"] /\ used'["revoke"] \in Nat
      BY <1>4, SpendType DEF Expire, Events
    <2> QED
      BY <1>0, <1>4, <2>1 DEF Expire
  <1>5. ASSUME NEW i \in Ids, DeleteNode(i)
        PROVE  (used["revoke"] > 0 => used'["revoke"] > 0) /\ token' = token
    <2>1. used'["revoke"] >= used["revoke"] /\ used'["revoke"] \in Nat
      BY <1>5, SpendType DEF DeleteNode, Events
    <2> QED
      BY <1>0, <1>5, <2>1 DEF DeleteNode
  <1>6. CASE CleanupExpired
    <2>1. used' = used /\ (token'[t] = token[t] \/ token[t].st = "open")
      BY <1>6 DEF CleanupExpired
    <2> QED
      BY <2>1
  <1> QED
    BY <1>1, <1>2, <1>3, <1>4, <1>5, <1>6 DEF AdminStep

LEMMA ClaimStep ==
    TypeOK /\ CallShape /\ ClaimInv /\ [Next]_vars => ClaimInv'
  <1> SUFFICES ASSUME TypeOK, CallShape, ClaimInv, [Next]_vars
               PROVE  ClaimInv'
    OBVIOUS
  <1>0. ASSUME NEW c \in Calls
        PROVE  /\ call[c].token \in Tokens
               /\ Claimant(c) =>
                    \/ /\ token[call[c].token].st = "used"
                       /\ token[call[c].token].node = call[c].made
                    \/ token[call[c].token].st = "gone" /\ used["revoke"] > 0
    BY CallParts DEF ClaimInv, ClaimRecorded
  <1>1. ASSUME NEW c \in Calls, CallStep(c) PROVE ClaimInv'
    <2>1. \A d \in Calls \ {c} :
            /\ Claimant(d)' <=> Claimant(d)
            /\ call'[d].token = call[d].token /\ call'[d].made = call[d].made
      BY <1>1, OwnCall DEF Claimant
    <2>2. CASE /\ \A t \in Tokens : /\ token'[t].st = token[t].st
                                    /\ token'[t].node = token[t].node
               /\ Claimant(c)' => /\ Claimant(c)
                                  /\ call'[c].token = call[c].token
                                  /\ call'[c].made = call[c].made
      <3>1. used' = used
        BY <1>1, ClaimCases
      <3>2. \A d \in Calls : Claimant(d)' => /\ Claimant(d)
                                             /\ call'[d].token = call[d].token
                                             /\ call'[d].made = call[d].made
        BY <2>1, <2>2
      <3>3. OneClaimant'
        BY <3>2 DEF ClaimInv, OneClaimant
      <3>4. ClaimRecorded'
        BY <1>0, <2>2, <3>1, <3>2 DEF ClaimRecorded
      <3> QED
        BY <3>3, <3>4 DEF ClaimInv
    <2>3. CASE /\ token[call[c].token].st = "open"
               /\ token'[call[c].token].st = "used"
               /\ token'[call[c].token].node = call[c].made
               /\ \A t \in Tokens \ {call[c].token} : token'[t] = token[t]
               /\ call'[c].token = call[c].token
               /\ call'[c].made = call[c].made
      <3>1. used' = used
        BY <1>1, ClaimCases
      <3>2. \A d \in Calls : Claimant(d) => call[d].token # call[c].token
        BY <1>0, <2>3
      <3>3. OneClaimant'
        BY <2>1, <2>3, <3>2 DEF ClaimInv, OneClaimant
      <3>4. ClaimRecorded'
        BY <1>0, <2>1, <2>3, <3>1, <3>2 DEF ClaimRecorded
      <3> QED
        BY <3>3, <3>4 DEF ClaimInv
    <2> QED
      BY <1>1, <2>2, <2>3, ClaimCases
  <1>2. CASE Crash
    <2>1. token' = token /\ used'["revoke"] >= used["revoke"]
          /\ used["revoke"] \in Nat /\ used'["revoke"] \in Nat
      BY <1>2, SpendType DEF Crash, Events, TypeOK
    <2>2. \A d \in Calls : Claimant(d)' => /\ Claimant(d)
                                           /\ call'[d] = call[d]
      BY <1>2, CrashEffect DEF Claimant
    <2>3. OneClaimant'
      BY <2>2 DEF ClaimInv, OneClaimant
    <2>4. ClaimRecorded'
      BY <1>0, <2>1, <2>2 DEF ClaimRecorded
    <2> QED
      BY <2>3, <2>4 DEF ClaimInv
  <1>3. CASE AdminStep
    <2>1. call' = call
      BY <1>3, AdminFrame
    <2>2. \A d \in Calls : Claimant(d)' <=> Claimant(d)
      BY <2>1 DEF Claimant
    <2>3. OneClaimant'
      BY <2>1, <2>2 DEF ClaimInv, OneClaimant
    <2>4. ClaimRecorded'
      BY <1>0, <1>3, <2>1, <2>2, AdminClaims DEF ClaimRecorded
    <2> QED
      BY <2>3, <2>4 DEF ClaimInv
  <1>4. CASE UNCHANGED vars
    BY <1>4 DEF vars, ClaimInv, OneClaimant, ClaimRecorded, Claimant
  <1> QED
    BY <1>1, <1>2, <1>3, <1>4, NextCases

-----------------------------------------------------------------------------
(* Who wrote the addresses of the nodes.                                   *)

LEMMA OwnerInit == Init => NodeOwner
  <1> SUFFICES ASSUME Init PROVE NodeOwner
    OBVIOUS
  <1>1. \A i \in Ids : node[i].by = NoCall
    BY DEF Init
  <1> QED
    BY <1>1, NodeInstallAssumption DEF NodeOwner

(* A step of a call writes its own name into a node, or none, and then     *)
(* keeps the excuse it has, or kills the node it made.                     *)
LEMMA OwnerCases ==
  ASSUME TypeOK, CallShape, NEW c \in Calls, CallStep(c), NEW i \in Ids
  PROVE  \/ Live(i)' /\ node'[i].by = c /\ Excused(c, i)'
         \/ /\ Live(i)' => Live(i) /\ node'[i].by = node[i].by
            /\ Excused(c, i) => Excused(c, i)' \/ ~Live(i)'
  <1> USE DEF Excused, Live
  <1>0. /\ call[c].result # "none" <=> call[c].pc = "done"
        /\ call[c].pc = "create" => call[c].seen.target = NoNode
        /\ call[c].pc \in {"mark", "undo", "save"} => call[c].made \in Ids
    BY DEF CallShape
  <1>1. ASSUME NEW kind \in {"pubkey", "register"}, NEW t \in Tokens,
               NEW ip \in Sources, Authorize(c, kind, t, ip)
        PROVE  node' = node /\ ~Excused(c, i)
    BY <1>0, <1>1, AuthorizeEffect DEF Authorize
  <1>2. CASE BindTokenIP(c)
    BY <1>0, <1>2 DEF BindTokenIP
  <1>3. CASE RegisterCreate(c)
    <2>1. PICK j \in Ids :
            /\ node' = [node EXCEPT ![j] = [st |-> "live",
                                            name |-> call[c].seen.name, by |-> c]]
            /\ call' = [call EXCEPT ![c] = [@ EXCEPT !.pc = "mark", !.made = j]]
      BY <1>3 DEF RegisterCreate
    <2>2. call'[c].pc = "mark" /\ call'[c].made = j /\ call'[c].seen = call[c].seen
      BY <2>1, MarkEffect
    <2>3. ~Excused(c, i)
      BY <1>0, <1>3 DEF RegisterCreate
    <2>4. i # j => node'[i] = node[i]
      BY <2>1 DEF TypeOK
    <2>5. i = j => node'[i].st = "live" /\ node'[i].by = c
      BY <2>1 DEF TypeOK
    <2> QED
      BY <1>0, <1>3, <2>2, <2>3, <2>4, <2>5 DEF RegisterCreate
  <1>4. CASE ReplaceFind(c)
    BY <1>0, <1>4 DEF ReplaceFind
  <1>5. CASE MarkUsed(c)
    <2>1. node' = node /\ call[c].pc = "mark"
      BY <1>5 DEF MarkUsed
    <2>2. \/ call'[c].pc = "undo" /\ call'[c].made = call[c].made
             /\ call'[c].seen = call[c].seen
          \/ call[c].seen.target # NoNode
          \/ call'[c].result = "ok"
      BY <1>5, EndEffect, GotoEffect DEF MarkUsed, Claimed, Beaten
    <2> QED
      BY <1>0, <2>1, <2>2
  <1>6. CASE RegisterUndo(c)
    <2>1. /\ call[c].pc = "undo" /\ call[c].made \in Ids
          /\ node' = [node EXCEPT ![call[c].made].st = "deleted"]
      BY <1>0, <1>6 DEF RegisterUndo
    <2>2. i # call[c].made => node'[i] = node[i]
      BY <2>1 DEF TypeOK
    <2>3. i = call[c].made => node'[i].st = "deleted"
      BY <2>1 DEF TypeOK, Node
    <2> QED
      BY <1>0, <2>1, <2>2, <2>3
  <1>7. CASE ReplaceSave(c)
    <2> DEFINE m == call[c].made
    <2>1. /\ call[c].pc = "save" /\ m \in Ids
          /\ node' = [node EXCEPT ![m] = [[node[m] EXCEPT !.st = "live"]
                                              EXCEPT !.by = c]]
      BY <1>0, <1>7 DEF ReplaceSave
    <2>2. i # m => node'[i] = node[i]
      BY <2>1 DEF TypeOK
    <2>3. i = m => node'[i] = [[node[i] EXCEPT !.st = "live"] EXCEPT !.by = c]
      BY <2>1 DEF TypeOK
    <2>4. node[i] \in Node
      BY DEF TypeOK
    <2>5. i = m => node'[i].st = "live" /\ node'[i].by = c
      BY <2>3, <2>4 DEF Node
    <2>6. call'[c].result = "ok"
      BY <1>7, EndEffect DEF ReplaceSave
    <2> QED
      BY <2>1, <2>2, <2>5, <2>6
  <1> QED
    BY <1>1, <1>2, <1>3, <1>4, <1>5, <1>6, <1>7 DEF CallStep

LEMMA OwnerStep ==
    TypeOK /\ CallShape /\ NodeOwner /\ [Next]_vars => NodeOwner'
  <1> SUFFICES ASSUME TypeOK, CallShape, NodeOwner, [Next]_vars,
                      NEW i \in Ids, Live(i)', node'[i].by \in Calls
               PROVE  Excused(node[i].by, i)'
    BY DEF NodeOwner
  <1>0. Live(i) /\ node[i].by \in Calls => Excused(node[i].by, i)
    BY DEF NodeOwner
  <1>1. ASSUME NEW c \in Calls, CallStep(c)
        PROVE  Excused(node[i].by, i)'
    <2>1. \A d \in Calls \ {c} : Excused(d, i) => Excused(d, i)'
      BY <1>1, OwnCall DEF Excused
    <2> QED
      BY <1>0, <1>1, <2>1, OwnerCases
  <1>2. CASE Crash
    <2>1. node' = node
      BY <1>2 DEF Crash
    <2>2. \A d \in Calls : Excused(d, i) => Excused(d, i)'
      BY <1>2, CrashEffect DEF Excused
    <2> QED
      BY <1>0, <2>1, <2>2 DEF Live
  <1>3. CASE AdminStep
    <2>1. call' = call
      BY <1>3, AdminFrame
    <2>2. node' = node \/ \E j \in Ids : node' = [node EXCEPT ![j].st = "deleted"]
      BY <1>3 DEF AdminStep, IssueCreate, IssueReplace, RevokeToken, Expire,
                  DeleteNode, CleanupExpired
    <2>3. Live(i) /\ node'[i].by = node[i].by
      BY <2>2 DEF TypeOK, Node, Live
    <2> QED
      BY <1>0, <2>1, <2>3 DEF Excused
  <1>4. CASE UNCHANGED vars
    BY <1>0, <1>4 DEF vars, Live, Excused
  <1> QED
    BY <1>1, <1>2, <1>3, <1>4, NextCases

-----------------------------------------------------------------------------
(* The theorems.                                                           *)

(* What keeps the token one-time and the nodes table clean is inductive.   *)
THEOREM InstallInvHolds == Spec => []InstallInv
  <1>1. Init => InstallInv
    BY InitType, ShapeInit, ClaimInit, OwnerInit DEF InstallInv, ClaimInv
  <1>2. InstallInv /\ [Next]_vars => InstallInv'
    BY TypeStep, ShapeStep, ClaimStep, OwnerStep DEF InstallInv, ClaimInv
  <1> QED
    BY <1>1, <1>2, PTL DEF Spec

(* A one-time token registers at most once, however its calls interleave   *)
(* (install.go, RegisterNode and MarkUsed).                                *)
THEOREM TokensAreOneTime == Spec => []OneWinner
  <1>1. InstallInv => OneWinner
    BY DEF InstallInv, OneClaimant, Claimant, OneWinner, Registered
  <1> QED
    BY <1>1, InstallInvHolds, PTL

(* A call that was refused leaves no node and no address behind            *)
(* (install.go, registerCreate and registerReplace).                       *)
THEOREM RefusedCallsLeaveNothing == Spec => []LosersLeaveNoTrace
  <1>1. InstallInv => LosersLeaveNoTrace
    <2> SUFFICES ASSUME InstallInv, NEW i \in Ids, Live(i),
                        node[i].by \in Calls
                 PROVE  call[node[i].by].result # "refused"
      BY DEF LosersLeaveNoTrace
    <2> DEFINE c == node[i].by
    <2>1. \/ call[c].pc \in {"mark", "undo"}
          \/ call[c].result \in {"ok", "lost"}
      BY DEF InstallInv, NodeOwner, Excused
    <2>2. call[c].result # "none" <=> call[c].pc = "done"
      BY DEF InstallInv, CallShape
    <2> QED
      BY <2>1, <2>2
  <1> QED
    BY <1>1, InstallInvHolds, PTL

(* The token row names the node of the registration that succeeded, until  *)
(* an administrator deletes it (install.go, MarkUsed; DeleteExpired).      *)
THEOREM WinnersAreRecorded == Spec => []WinnerIsRecorded
  <1>1. InstallInv => WinnerIsRecorded
    BY DEF InstallInv, ClaimRecorded, Claimant, WinnerIsRecorded, Registered
  <1> QED
    BY <1>1, InstallInvHolds, PTL

=============================================================================
