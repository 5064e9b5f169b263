\* Three requests of every mix, connections around a removal, backups around
\* a clean-up, and a stop of the panel: each under a budget of its own.
SPECIFICATION MCPanelSpec
CONSTANTS
    u1 = u1
    g1 = g1
    g2 = g2
    n1 = n1
    n2 = n2
    ip1 = ip1
    dom1 = dom1
    ip2 = ip2
    Users <- MCUsers
    Groups <- MCGroups
    Nodes <- MCNodes
    Addrs <- MCAddrs
    Odd <- MCOdd
    Ip <- MCIp
    ConnectAddr <- MCConnectAddr
    Events <- MCEvents
    Budgets <- MCBudgets
    Admins = {p, q}
    Removers = {p, q}
    NoOne = NoOne
    Conns = {c, d}
    GroupIdsReturn = FALSE
    Operator = operator
    Scheduler = scheduler
    Seconds = 4
    Keep = 2
INVARIANTS
    
    RevokedStaysRevoked
    
    CleanedMeansClean
    ReportedBackupsStay
    RetentionLeavesOne
SYMMETRY Symmetric
\* A budget is spent in the end.
CHECK_DEADLOCK FALSE
