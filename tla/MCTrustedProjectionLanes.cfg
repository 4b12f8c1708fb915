\* Two lanes share the loop of a scheduled run; the first may be unseeded,
\* diverge, or hold a commit that validation refuses.
CONSTANTS
    g0 = g0
    g1 = g1
    g2 = g2
    d1 = d1
    e1 = e1
    r1 = r1
    r2 = r2
    t1 = t1
    t2 = t2
    t3 = t3
    NoToken = NoToken
    NoHead = NoHead
    Unseeded = Unseeded
    NoClaim = NoClaim
    NLanes = 2
    Commit = {g0, g1, d1}
    Adds = {g0, g1}
    Merge = {}
    Id = {g0, g1, g2, d1}
    IdOf <- Ids
    Historical <- NoIds
    MaxMain = 0
    Before <- Ancestry
    Anchor <- Anchors
    Run = {r1, r2}
    Token = {t1, t2, t3}
    MaxFaults = 1
SPECIFICATION FairSpec
CHECK_DEADLOCK FALSE
PROPERTIES
    CatchesUp
