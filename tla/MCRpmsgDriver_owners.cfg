\* Two contexts share two descriptors and two nodes; the counters are not looked at.
CONSTANTS
    Contexts = {c1, c2}
    Fds = {0, 1}
    Paths = {dev0, dev1}
    DefaultPath = dev0
    NoPath = NoPath
    Datagrams = {whole}
    LengthOf <- MCLengthOf
    MsgSize = 2
    NoData = NoData
    CounterMod = 1
    InboxSize = 1
    whole = whole
    short = short
    long = long
    empty = empty
SPECIFICATION Spec
SYMMETRY Symmetry
INVARIANTS
    DescriptorsOwned
    ReadyMeansData
