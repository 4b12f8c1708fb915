\* Five messages about one assignment in every order of arrival: chains, forks,
\* a second root, another binding, colliding ids, replies; identities that are
\* registered before, between or after them.
CONSTANTS
    f1 = f1
    f2 = f2
    f3 = f3
    f4 = f4
    f5 = f5
    m1 = m1
    m2 = m2
    m3 = m3
    m4 = m4
    m5 = m5
    i1 = i1
    i2 = i2
    a1 = a1
    b1 = b1
    b2 = b2
    File = {f1, f2, f3, f4, f5}
    MessageId = {m1, m2, m3, m4, m5}
    Identity = {i1, i2}
    Assignment = {a1}
    Binding = {b1, b2}
    AssigneeOf <- Assignees
    PlaceOf <- Places
    Corpora <- MCCorpora
    NoEnvelope = NoEnvelope
    Malformed = Malformed
    None = None
SPECIFICATION PlanesSpec
INVARIANTS
    ChainIsTheEvidence
    EnvelopesAreTold
    RebuildAgreesUnlessTold
    AcknowledgementsRestOnReplies
