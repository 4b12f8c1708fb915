\* Two processes, tabs that look alike.
CONSTANTS
    r1 = r1
    r2 = r2
    t1 = t1
    t2 = t2
    v1 = v1
    v2 = v2
    v3 = v3
    e1 = e1
    e2 = e2
    e3 = e3
    i1 = i1
    i2 = i2
    h1 = h1
    h2 = h2
    Run = {r1, r2}
    Tab = {t1, t2}
    Conversation = {v1, v2, v3}
    Text = {e1, e2, e3}
    Id = {i1, i2}
    TitleOf <- Titles
    IdOf <- Ids
    TargetOf <- SameTarget
    Empty = Empty
    NoRow = NoRow
    NoReceipt = NoReceipt
    NoTab = NoTab
    MaxMoves = 3
    MaxAcks = 1
    MaxStarts = 2
SPECIFICATION MCSpec
SYMMETRY Symmetry
CHECK_DEADLOCK FALSE
INVARIANTS
    SentAtMostOnce
    RowTellsWhatHappened
    WrongPlaceTakesThreeMoves
    StrandedOnlyByKill
