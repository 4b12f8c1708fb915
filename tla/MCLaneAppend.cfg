\* The identity is moved to another branch and back while two callers append
\* three messages, of which two share an id.
CONSTANTS
    w1 = w1
    w2 = w2
    n1 = n1
    n2 = n2
    g1 = g1
    g2 = g2
    g3 = g3
    m1 = m1
    m2 = m2
    x1 = x1
    x2 = x2
    x3 = x3
    NoId = NoId
    Undeclared = Undeclared
    Genesis = Genesis
    NoCommit = NoCommit
    Idle = Idle
    Writer = {w1, w2}
    Branch = {n1, n2}
    Content = {x1, x2, x3}
    Id = {m1, m2}
    Commit = {g1, g2}
    MaxMoves = 2
    IdOf <- Ids
    PrevOf <- Prevs
    BranchOf <- Branches
SPECIFICATION Spec
SYMMETRY Symmetry
CHECK_DEADLOCK FALSE
INVARIANTS
    TypeOK
    EffectStateHolds
    LaneIsOneThread
    RetriesLandOnce
