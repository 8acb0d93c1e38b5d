SPECIFICATION TxSpec
CONSTANTS
    MaxTxPost = 3
    FrameSize = 3
    SockCap = 4
    SizeMod = 64
    DieInFlush = TRUE
    TermBehind = FALSE
INVARIANT LenInBuffer
