\* One node with two servers, two requests and the drift loop, and any two
\* outside events: a change of the sources, a full-row save, a move or a
\* replacement of the server, a toggle, a hand edit, a panel that dies.
SPECIFICATION Spec
CONSTANTS
    Nodes = {n1}
    Addrs = {a1, a2}
    Workers = {w1, w2}
    Config = {c1, c2}
    NoConfig = NoConfig
    Foreign = Foreign
    NoWorker = NoWorker
    Limit <- Pushes
    Budget = 2
SYMMETRY Interchangeable
INVARIANTS
    TypeOK
    HashWasDelivered
    
    SyncedIsWatched
PROPERTIES
    AtomicInstall
