\* Four threads compete for two connections.
SPECIFICATION FairSpec
CONSTANTS
    Threads = {t1, t2, t3, t4}
    Conns = {c1, c2}
    NoConn = NoConn
INVARIANTS
    TypeOK
    TakeFindsConnection
    ConnectionIsExclusive
    CountersAgree
PROPERTY WaiterIsServed
