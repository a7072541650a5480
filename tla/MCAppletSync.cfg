CONSTANTS
    Index = {0, 1}
    None = None
    SignalCap = 2
    EventCap = 1
    WireCap = 2
    MaxOps = 2
SPECIFICATION FairSpec
INVARIANTS
    TypeOK
    ListIsFresh
    IndexRightAtRest
    UnreachableMeansIt
PROPERTY ListConverges
CHECK_DEADLOCK FALSE
CONSTRAINT BootsInTime
