\* Two requests at a time, three in all, and a panel that stops once.
SPECIFICATION Spec
CONSTANTS
    Ids = {1, 2, 3}
    Workers = {w1, w2}
    Seeds <- TwoSeeds
    Limit <- Requests
INVARIANTS
    SomeSuperAdminLeft
    DecisionsStand
SYMMETRY Interchangeable
CHECK_DEADLOCK FALSE
