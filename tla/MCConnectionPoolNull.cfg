\* Two threads ask for the last connection.
SPECIFICATION Spec
CONSTANTS
    Threads = {t1, t2, t3}
    Conns = {c1, c2}
    NoConn = NoConn
INVARIANT ExhaustedReturnsNull
