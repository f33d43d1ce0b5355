\* Texts of up to six characters, two threads that log, and four timer cells that
\* are made, moved, deleted and fired in any order over three moments.
SPECIFICATION DemosSpec
CONSTANTS
    Alphabets <- MCAlphabets
    MaxText = 6
    ParamMaps <- MCParamMaps
    Threads = {t1, t2}
    QueueSize = 2
    Logs = 2
    Timers = {cell1, cell2, cell3, cell4}
    Null = Null
    MaxTime = 2
INVARIANTS
    ParametersAreFilled
    LookupsOnlyRead
    BodyIsKept
    ValuesStayWithNames
    InitReturnsReady
    NothingIsLeftBehind
    TypeOK
    LinksAgree
PROPERTIES
    ImplementsTimerQueue
CHECK_DEADLOCK FALSE
