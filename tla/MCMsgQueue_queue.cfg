\* Two pushing and two popping threads on a ring of two slots.
CONSTANTS
    Producers = {p1, p2}
    Consumers = {c1, c2}
    Messages  = {m1, m2}
    Capacity  = 2
    NoMsg     = NoMsg
    NoThread  = NoThread
SPECIFICATION Spec
SYMMETRY Symmetry
INVARIANTS
    TypeOK
    RingConsistent
    NoLostWakeup
    IInv
PROPERTY FifoSpec
