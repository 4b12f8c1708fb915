\* Two runs overlap on one lane, which may fork.
CONSTANTS
    g0 = g0
    g1 = g1
    g2 = g2
    d1 = d1
    e1 = e1
    r1 = r1
    r2 = r2
    t1 = t1
    t2 = t2
    t3 = t3
    NoToken = NoToken
    NoHead = NoHead
    Unseeded = Unseeded
    NoClaim = NoClaim
    NLanes = 1
    Commit = {g0, g1, g2, d1, e1}
    Adds = {g0, g1, g2, d1, e1}
    Merge = {}
    Id = {g0, g1, g2, d1}
    IdOf <- Ids
    Historical <- NoIds
    MaxMain = 1
    Before <- Ancestry
    Anchor <- Anchors
    Run = {r1, r2}
    Token = {t1, t2, t3}
    MaxFaults = 2
SPECIFICATION Spec
CONSTRAINT Moderate
SYMMETRY Symmetry
CHECK_DEADLOCK FALSE
INVARIANTS
    StoredUpToHead
PROPERTIES
    CursorMovesForward
