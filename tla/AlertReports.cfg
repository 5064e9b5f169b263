\* One node, two pushes that report and flush, a health loop that flushes.
SPECIFICATION Spec
CONSTANTS
    Nodes = {n1}
    Panel = Panel
    Reporters = {r1, r2}
    Health = Health
    Ticked = {"sync_failed"}
    Ids = {i1, i2, i3}
    NoId = NoId
    FailThreshold = 1
    RecoverThreshold = 1
    Limit <- PushReports
SYMMETRY Interchangeable
INVARIANTS
    NotifiedMatchesChat
    VerdictIsCurrent
