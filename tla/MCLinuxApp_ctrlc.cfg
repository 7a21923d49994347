\* What main.c says Ctrl+C does.
CONSTANTS
    MaxSent = 1
    Datagrams <- MCDatagrams
    MsgSize = 2
    Capacity = 1
    InboxSize = 1
    NoMsg = NoMsg
    NoThread = NoThread
    NoPath = NoPath
SPECIFICATION FairSpec
CHECK_DEADLOCK FALSE
PROPERTY CtrlCTerminates
