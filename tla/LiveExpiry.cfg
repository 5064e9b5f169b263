\* Requests, sweeps and drift checks in turn; users expire and servers
\* restart at any time, a node goes off, the panel stops anywhere.
SPECIFICATION FairSpec
CONSTANTS
    Users = {u1}
    Nodes = {n1, n2}
    Procs = {p1}
    Sweeper = Sweeper
    Nobody = Nobody
    Modes <- OnlyExpiry
INVARIANTS
    SweptMeansExpired

    
