\* Three clients that wait for their replies, and descriptors for two of them.
SPECIFICATION FairSpecOfGoodClients
CONSTANTS
    Conns = {c1, c2, c3}
    Requests = 1
    Fds = {1, 2}
    Window = 1
    Workers = {w1}
    Capacity = 1
    NoTask = NoTask
    NoConn = NoConn
    Listen = Listen
    Event = Event
    Patient = TRUE
INVARIANTS
    ReplyGoesOutOnce
    ServerSurvives
PROPERTIES
    ReplyIsSent
