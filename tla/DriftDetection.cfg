\* The drift loop against lost marks and hand edits, and pushes that end.
SPECIFICATION FairSpec
CONSTANTS
    Nodes = {n1}
    Addrs = {a1}
    Workers = {w1}
    Config = {c1, c2}
    NoConfig = NoConfig
    Foreign = Foreign
    NoWorker = NoWorker
    Limit <- Detection
    Budget = 3
PROPERTIES
    SourceDriftIsDetected
    HandEditIsDetected
    
