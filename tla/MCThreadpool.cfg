\* Three workers compete for up to two of three tasks, from start to shutdown.
SPECIFICATION FairSpec
CONSTANTS
    Workers = {w1, w2, w3}
    Tasks = {t1, t2, t3}
    Capacity = 2
    Main = Main
    Nobody = Nobody
    NoTask = NoTask
INVARIANTS
    TypeOK
    TakeFromNonEmpty
    NoLostWakeup
    PushBlockedOnlyWhenFull
    PoolQuiescentAtReturn
PROPERTIES
    ImplementsTaskPool
    EveryTaskFinishes
    PushReturns
