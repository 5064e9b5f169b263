\* One node and the panel row, probed for SSH and proxy ports, two observations
\* for a verdict; the node is disabled or enabled once, sending fails at will.
SPECIFICATION FairSpec
CONSTANTS
    Nodes = {n1}
    Panel = Panel
    Reporters = {}
    Health = Health
    Ticked = {"node_unreachable", "xray_down", "panel_unreachable"}
    Ids = {i1, i2, i3, i4, i5}
    NoId = NoId
    FailThreshold = 2
    RecoverThreshold = 2
    Limit <- Rounds
PROPERTIES
    
    OneAlarmPerOutage
    ChatCatchesUp
