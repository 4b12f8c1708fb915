\* Two clients race over one assignment or over two that share the event ids
\* and may supersede one another.  Nine events let one leave a state and come
\* back to it while a client still holds a snapshot of the first visit, and let
\* it be paused, interrupted, recovered, resumed, confirmed and accepted.
CONSTANTS
    a1 = a1
    a2 = a2
    k1 = k1
    k2 = k2
    None = None
    Assignment = {a1, a2}
    Client = {k1, k2}
    MaxEvents = 9
    MaxShared = 4
SPECIFICATION Spec
SYMMETRY Symmetry
CHECK_DEADLOCK FALSE
INVARIANTS
    GuardAdmitsNoOtherUpdate
    LogIsOneChain
    ValidTransitionsSucceed
    ReceiptsStayTrue
PROPERTIES
    ImplementsLifecycle
