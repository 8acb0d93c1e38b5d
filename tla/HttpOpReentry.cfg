SPECIFICATION Spec
CONSTANTS
    o1 = o1
    o2 = o2
    Ops <- MCOps
    NoOp = NoOp
    Kinds <- MCKinds
    BodyUnits = 1
    SyncHandshake = TRUE
    EagerProxy = FALSE
    LateAbort = FALSE
    BusyTeardown = FALSE
INVARIANTS NeverToldTwice
CHECK_DEADLOCK FALSE
