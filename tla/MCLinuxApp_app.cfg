\* Every path of main, every interleaving of the two workers, signals and the R5.
CONSTANTS
    MaxSent = 3
    Datagrams <- MCDatagrams
    MsgSize = 2
    Capacity = 2
    InboxSize = 1
    NoMsg = NoMsg
    NoThread = NoThread
    NoPath = NoPath
SPECIFICATION FairSpec
CHECK_DEADLOCK FALSE
INVARIANTS
    TypeOK
    NothingLeftBehind
    InOrder
PROPERTIES
    QueueUsedByItsRules
    TelemetrySpec
    LostOnlyForAReason
    DeadForGood
    RpmsgStops
    ShutdownUnlessIdle
    QueuedIsShown
