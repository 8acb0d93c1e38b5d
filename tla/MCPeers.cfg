SPECIFICATION PeersSpec
CONSTANTS
    c1 = c1  c2 = c2  g1 = g1  g2 = g2  g3 = g3
    Kids = {g1, g2, g3}  MaxRelays = 2  MaxAsk = 1
    Conns = {c1, c2}  Transports = {"plain", "tls"}  HsUnits = 1  TcpData <- MCTcpData
    Wires <- MCWires  Probes <- MCProbes  MaxRead = 18
    SizeBufLen = 15  MaxChunk = 300  LoopGuard = 60
    PushMin = 4096  InflateMin = 256  Window = 32768  Block = 65536
INVARIANTS AnswersAreOwn ConnectionsAreSound ChunksDecode TextsAreWhole BytesAreWhole
PROPERTIES PeersEnd
CHECK_DEADLOCK FALSE
