SPECIFICATION ProcSpec
CONSTANTS
    MaxHandles = 1
    MaxSpawn = 1
    MaxFrame = 0
    MaxPing = 0
    Reentrant = FALSE
    PingBusy = FALSE
INVARIANT TerminatedIsReleased
