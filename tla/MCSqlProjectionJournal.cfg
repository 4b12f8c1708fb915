\* One lane whose claims, leases, control cuts and finalizations race, or two
\* lanes whose files declare one message id.
CONSTANTS
    l1 = l1
    l2 = l2
    s1 = s1
    s2 = s2
    p1 = p1
    b1 = b1
    b2 = b2
    c1 = c1
    c2 = c2
    t1 = t1
    t2 = t2
    m1 = m1
    x1 = x1
    x2 = x2
    NoHead = NoHead
    Unseeded = Unseeded
    NoCut = NoCut
    NoBatch = NoBatch
    NoClaim = NoClaim
    Idle = Idle
    NoContent = NoContent
    Lane = {l1, l2}
    Sha = {s1, s2}
    Cut = {c1, c2}
    Path = {p1}
    BatchId = {b1, b2}
    Lease = {1}
    MaxTime = 2
    Txn = {t1, t2}
    MsgId = {m1}
    Content = {x1, x2}
    IdOf <- OneId
    Carries <- Colliding
SPECIFICATION Spec
CONSTRAINT Workload
SYMMETRY Symmetry
CHECK_DEADLOCK FALSE
INVARIANTS
    LockedReadsAreCurrent
    NoLockCycle
    ExactlyOnceProjection
PROPERTIES
    CallsFitTheLane
    ImplementsJournal
