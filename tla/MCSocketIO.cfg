\* Two messages, cut up and cut off in every way.
SPECIFICATION FairSpec
CONSTANTS
    Base = 4
    Word = 2
    MAX_PACKET_SIZE = 2
    Room = 4
    MaxLine = 4
    NewLine = 3
    Scripts <- MCScripts
INVARIANTS
    TypeOK
    StreamInStep
PROPERTIES
    ImplementsChannel
    EveryMessageIsRead
