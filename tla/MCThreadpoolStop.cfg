\* One worker is enough to hang the shutdown.
SPECIFICATION FairSpec
CONSTANTS
    Workers = {w1, w2}
    Tasks = {t1}
    Capacity = 1
    Main = Main
    Nobody = Nobody
    NoTask = NoTask
PROPERTY ShutdownCompletes
