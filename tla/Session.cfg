SPECIFICATION FairSpec
CONSTANTS
    Servers = {s1, s2}
    Ids = {i1}
    Users = {u1}
    NoServer = NoServer
    NoId = NoId
    LibdarAsks = TRUE
    LibdarFails = TRUE
INVARIANTS RefCounted NoDanglingReference
PROPERTIES ImplementsSessionLife ClosingSessionEnds WaiterIsServed
CHECK_DEADLOCK FALSE
