SPECIFICATION FairSpec
CONSTANTS
    Sessions = {s1, s2}
    MaxSessions = 1
    TTL = 2
    Requests = {r1, r2}
    Handlers = {"heartbeat", "delete", "offer", "close"}
    Conns = {p1, p2}
    NoConn = NoConn
    NoSession = NoSession
INVARIANTS
    RegisteredPeerOpen
    OnePumpUnlessOverlapped
    NoDoubleClose
PROPERTIES
    ImplementsLease
    ExpiredLeaves
    ReapedPeerStops
