\* Two adapters, an alias that moves between two endpoints, and events that
\* share an operation or a message id.
CONSTANTS
    p1 = p1
    p2 = p2
    n1 = n1
    n2 = n2
    x1 = x1
    v1 = v1
    v2 = v2
    v3 = v3
    o1 = o1
    o2 = o2
    m1 = m1
    m2 = m2
    Process = {p1, p2}
    Endpoint = {n1, n2}
    Alias = {x1}
    Config <- Configs
    Sender = n1
    Event = {v1, v2, v3}
    WrittenTo <- Written
    Operation = {o1, o2}
    OpOf <- Operations
    Message = {m1, m2}
    MessageOf <- Messages
    None = None
    MaxStarts = 5
SPECIFICATION Spec
SYMMETRY Symmetry
CHECK_DEADLOCK FALSE
INVARIANTS
    PostedAtMostOnce
    ReceiptsAreForTheEnvelope
