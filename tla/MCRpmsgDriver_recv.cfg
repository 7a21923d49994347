\* What a receive answers, what it may claim, and that it ends: one context, datagrams
\* of every length.
CONSTANTS
    Contexts = {c1}
    Fds = {0}
    Paths = {dev0}
    DefaultPath = dev0
    NoPath = NoPath
    Datagrams = {whole, short, long, empty}
    LengthOf <- MCLengthOf
    MsgSize = 2
    NoData = NoData
    CounterMod = 2
    InboxSize = 2
    whole = whole
    short = short
    long = long
    empty = empty
SPECIFICATION FairSpec
INVARIANT TypeOK
PROPERTIES
    RecvHonest
    WaitEnds
