SPECIFICATION CtlSpec
CONSTANTS
    Conns = {k1, k2}
    Correls = {"a", "b"}
    MaxCmd = 2
    UniqueCorrel = TRUE
    LongReceipts = TRUE
    NumRuntimes = 2
    NumExplicit = 2
    SharedPath = FALSE
    MaxLife = 2
INVARIANTS ReceiptPairing TimeoutIsTrue NoDanglingSink EndpointsAreFound
PROPERTIES AnsweredUnlessAsleep
