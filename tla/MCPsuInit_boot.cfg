\* Every answer of the hardware, and none, to a boot.
CONSTANTS
    Plls <- MCPlls
    PollTime = 3
    Retries = 10
SPECIFICATION FairSpec
CHECK_DEADLOCK FALSE
INVARIANTS
    TypeOK
    ResetIsBypassed
    HandoverIsClean
    RetriesAreCounted
    SuccessMeansMemory
PROPERTIES
    UsedLockedOrLate
    BootEnds
