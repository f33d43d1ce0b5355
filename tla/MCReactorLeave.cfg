\* A client that sends three requests at once, stops or leaves when it likes, and
\* does not have to read its replies.
SPECIFICATION FairSpec
CONSTANTS
    Conns = {c1}
    Requests = 3
    Fds = {1}
    Window = 1
    Workers = {w1}
    Capacity = 1
    NoTask = NoTask
    NoConn = NoConn
    Listen = Listen
    Event = Event
    Patient = FALSE
PROPERTIES
    HandlersReturn
    
