\* Two rows, two persons with one message each, two workers, two bindings and
\* one of everything else, three of these in all; all rows enabled at
\* first.
SPECIFICATION Spec
CONSTANTS
    Users = {u1, u2}
    Persons = {p1, p2}
    Nobody = Nobody
    Workers = {w1, w2}
    Messages = 1
    Limit <- Chats
    Budget = 3
    Given <- Welcome
INVARIANTS
    OneReplyPerEvent
    LinksReachTheirOwner
    IdentityMatchesMail
SYMMETRY Interchangeable
CHECK_DEADLOCK FALSE
