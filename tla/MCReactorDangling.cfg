\* A client that leaves while a worker answers it.
SPECIFICATION Spec
CONSTANTS
    Conns = {c1, c2}
    Requests = 1
    Fds = {1, 2}
    Window = 1
    Workers = {w1}
    Capacity = 1
    NoTask = NoTask
    NoConn = NoConn
    Listen = Listen
    Event = Event
    Patient = FALSE
INVARIANT FunctorTargetExists
