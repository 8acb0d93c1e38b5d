SPECIFICATION WaysSpec
CONSTANTS
    Producers = {p1, p2}
    Addrs = {a1, a2, a3}
    Stub = Stub
    NULL = NULL
    MaxPush = 2
    LatePost = FALSE
    MaxTxPost = 3
    FrameSize = 3
    SockCap = 4
    SizeMod = 64
    DieInFlush = FALSE
    TermBehind = FALSE
    MaxHandles = 2  MaxSpawn = 2  MaxFrame = 1  MaxPing = 2  Reentrant = FALSE  PingBusy = FALSE
INVARIANTS NoUseAfterFree FifoOrder NodesAreKept SocketIsFifo ChildrenAreServed
PROPERTIES ImplementsFifo MessagesArrive
