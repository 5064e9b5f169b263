\* Three calls with one token. Every call makes one request, so the system stops.
SPECIFICATION Spec
CONSTANTS
    Tokens = {t1}
    Ids = {i1, i2, i3}
    Names = {m1}
    Sources = {a1, a2}
    Calls = {c1, c2, c3}
    NoIp = NoIp
    NoNode = NoNode
    NoCall = NoCall
    Limit <- OneEach
SYMMETRY Interchangeable
CHECK_DEADLOCK FALSE
INVARIANTS
    OneWinner
    LosersLeaveNoTrace
    WinnerIsRecorded
