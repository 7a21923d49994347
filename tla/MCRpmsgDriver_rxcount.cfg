\* What rpmsg_driver.h says rx_count counts.
CONSTANTS
    Contexts = {c1}
    Fds = {0}
    Paths = {dev0}
    DefaultPath = dev0
    NoPath = NoPath
    Datagrams = {whole, short}
    LengthOf <- MCLengthOf
    MsgSize = 2
    NoData = NoData
    CounterMod = 3
    InboxSize = 1
    whole = whole
    short = short
    long = long
    empty = empty
SPECIFICATION Spec
PROPERTY RxCountsMessages
