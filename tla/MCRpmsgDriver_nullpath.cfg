\* What rpmsg_driver.h says a NULL path opens.
CONSTANTS
    Contexts = {c1}
    Fds = {0}
    Paths = {dev0, dev1}
    DefaultPath = dev0
    NoPath = NoPath
    Datagrams = {whole}
    LengthOf <- MCLengthOf
    MsgSize = 2
    NoData = NoData
    CounterMod = 1
    InboxSize = 1
    whole = whole
    short = short
    long = long
    empty = empty
SPECIFICATION Spec
INVARIANT NullPathIsDefault
