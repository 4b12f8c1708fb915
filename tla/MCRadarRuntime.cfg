\* Two threads, a queue of two, a failing counter.
CONSTANTS
    t1 = t1
    t2 = t2
    u1 = u1
    u2 = u2
    o1 = o1
    o2 = o2
    k1 = k1
    k2 = k2
    k3 = k3
    Free = Free
    Never = Never
    Idle = Idle
    Thread = {t1, t2}
    Envelope = {u1, u2, o1, o2}
    Key = {k1, k2, k3}
    PriorityOf <- Priorities
    KeyOf <- Keys
    MaxSize = 2
    Window = 1
    MaxClock = 3
    MaxOffered = 4
    MaxRecorded = 2
    MaxFailures = 1
SPECIFICATION RuntimeSpec
SYMMETRY Symmetry
CHECK_DEADLOCK FALSE
INVARIANTS
    RuntimeTypeOK
    Accounted
    UrgentIsServedUnlessCountingFails
PROPERTIES
    WindowHoldsWhatWasQueued
