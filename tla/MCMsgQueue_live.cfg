\* Progress, with every thread scheduled fairly.
CONSTANTS
    Producers = {p1}
    Consumers = {c1, c2}
    Messages  = {m1}
    Capacity  = 2
    NoMsg     = NoMsg
    NoThread  = NoThread
SPECIFICATION FairSpec
PROPERTIES
    PushReturns
    SleeperServed
