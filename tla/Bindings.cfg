\* One node, two profiles, two requests at a time.  Requests are bounded and a
\* node without protocols is not pushed to, so the system may stop.
SPECIFICATION Spec
CONSTANTS
    Nodes = {n1}
    Users = {u1}
    Workers = {w1, w2}
    Profiles = {1, 2}
    Pairs = {k1}
    Snis = {s1, s2}
    DefaultSni = DefaultSni
    NodeAddr = NodeAddr
    NoPair = NoPair
    NoSni = NoSni
    Due = Due
    Reach <- AllNodes
    Templates <- SomeTemplates
    KeyForms <- SomeKeys
    Limit <- Bounds
    Budget = 2
CHECK_DEADLOCK FALSE
SYMMETRY Interchangeable
INVARIANTS
    ProxiesKeepToTheirRules
    FormatsAgree
    
    
PROPERTIES
    NobodyIsDisplaced
    LockHolds
