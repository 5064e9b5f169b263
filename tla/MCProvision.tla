----------------------------- MODULE MCProvision -----------------------------
(* Model-checking instances of Provision: small inputs and the bounds.     *)
EXTENDS Provision, TLC

AllNodes == [u \in Users |-> Nodes]

Sni(s)  == [Blank EXCEPT !.sni = s]
Pair(k) == [Blank EXCEPT !.pair = k]

AnySni  == CHOOSE s \in Snis : TRUE
OtherSni == CHOOSE s \in Snis : s # AnySni
AnyPair == CHOOSE k \in Pairs : TRUE

SomeTemplates ==
    {[proto |-> "vless-reality", port |-> 443, set |-> Sni(AnySni)],
     [proto |-> "trojan", port |-> 443, set |-> Blank],
     [proto |-> "hysteria2", port |-> 443, set |-> Blank],
     [proto |-> "socks", port |-> 8443, set |-> [Blank EXCEPT !.list = TRUE]]}
SomeKeys ==
    {[port |-> 0, set |-> Blank],
     [port |-> 8443, set |-> Pair(AnyPair)],
     [port |-> 0, set |-> [Blank EXCEPT !.private = "yes", !.sni = OtherSni]]}

PairInTemplate ==
    {[proto |-> "vless-reality", port |-> 443, set |-> Pair(AnyPair)]}

Bounds == [e \in Events |-> IF e = "request" THEN 2 ELSE 1]

Interchangeable == Permutations(Workers)

=============================================================================
