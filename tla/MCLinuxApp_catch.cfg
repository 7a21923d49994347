\* What main.c says signal_handler does.
CONSTANTS
    MaxSent = 1
    Datagrams <- MCDatagrams
    MsgSize = 2
    Capacity = 1
    InboxSize = 1
    NoMsg = NoMsg
    NoThread = NoThread
    NoPath = NoPath
SPECIFICATION Spec
CHECK_DEADLOCK FALSE
PROPERTY SignalsAreCaught
