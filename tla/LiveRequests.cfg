\* Requests, pushes and drift checks that take turns, with a server that cannot
\* be reached or restarts at any point; and ones that overlap.
SPECIFICATION Spec
CONSTANTS
    Users = {u1, u2}
    Nodes = {n1}
    Procs = {p1, p2}
    Sweeper = Sweeper
    Nobody = Nobody
    Modes <- LiveRequests
INVARIANTS
    SyncedMeansServed
    
SYMMETRY Interchangeable
