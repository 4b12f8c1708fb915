CONSTANTS
    l1 = l1
    s1 = s1
    s2 = s2
    p1 = p1
    p2 = p2
    b1 = b1
    b2 = b2
    b3 = b3
    c1 = c1
    c2 = c2
    NoHead = NoHead
    Unseeded = Unseeded
    NoCut = NoCut
    NoBatch = NoBatch
    NoClaim = NoClaim
    Lane = {l1}
    Sha = {s1, s2}
    Cut = {c1, c2}
    Path = {p1}
    BatchId = {b1, b2, b3}
    Lease = {1}
    MaxTime = 2
SPECIFICATION Spec
SYMMETRY Symmetry
CHECK_DEADLOCK FALSE
INVARIANTS
    HeadsFormOneChain
    FinalizedOnceAndResolved
PROPERTIES
    SupersededStaysDead
    LeaseIsExclusive
