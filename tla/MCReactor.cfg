\* Two clients that leave when they like, two descriptors, two workers.
SPECIFICATION Spec
CONSTANTS
    Conns = {c1, c2}
    Requests = 1
    Fds = {1, 2}
    Window = 1
    Workers = {w1, w2}
    Capacity = 1
    NoTask = NoTask
    NoConn = NoConn
    Listen = Listen
    Event = Event
    Patient = FALSE
SYMMETRY Symmetry
INVARIANTS
    TypeOK
    EventIsCurrent
    DescriptorHasOneOwner
    WakeupIsNotLost
