\* What the comment in HeaderCallBack says of a header line.
SPECIFICATION DemosSpec
CONSTANTS
    Alphabets <- MCAlphabets
    MaxText = 6
    ParamMaps <- MCParamMaps
    Threads = {t1, t2}
    QueueSize = 2
    Logs = 2
    Timers = {cell1, cell2, cell3, cell4}
    Null = Null
    MaxTime = 2
INVARIANTS
    HeadersAreStripped
CHECK_DEADLOCK FALSE
