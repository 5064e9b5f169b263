\* Two nodes, two users with two names between them, two polls, two units of
\* traffic, three user changes, one loss.
SPECIFICATION TrafficSpec
CONSTANTS
    Nodes = {n1, n2}
    Ids = {i1, i2}
    Names = {alice, bob}
    NoName = NoName
    NoUser = NoUser
    Most <- Cycles
INVARIANTS
    NoByteCountsTwice
    SamplesAddUp
    KnownUsersAreCounted
SYMMETRY Interchangeable
CHECK_DEADLOCK FALSE
