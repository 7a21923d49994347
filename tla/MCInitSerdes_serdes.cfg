\* Every vote of a few calibrations and every eye of a short search.
CONSTANTS
    Rounds = 3
    Readings <- MCReadings
    Settings = 8
    Stride = 64
    Protocol <- MCProtocol
    Rate <- MCRate
SPECIFICATION Spec
CHECK_DEADLOCK FALSE
INVARIANTS
    TypeOK
    VoteIsHonest
    ChosenPassed
    FieldsAreKept
    LanesGivenBack
PROPERTIES
    ForcedOnceAndWhole
    TunedInReset
