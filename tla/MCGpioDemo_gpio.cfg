\* Two instances with every option, stopped anywhere.
CONSTANTS
    p1 = p1
    p2 = p2
    Procs = {p1, p2}
    Signals <- MCSignals
    Width = 3
    IntBits = 2
    Values = {6}
    Patterns <- MCPatterns
SPECIFICATION FairSpec
CHECK_DEADLOCK FALSE
INVARIANTS
    TypeOK
    NothingLeftExported
    BitsKeepTheirPlace
PROPERTY SignalEnds
