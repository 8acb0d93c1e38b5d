SPECIFICATION MainSpec
CONSTANTS
    t1 = t1  t2 = t2  t3 = t3
    Posters = {"host", "peer"}
    HostThread = "host"
    MaxPost = 1
    MaxWork = 3
    PumpRounds = 2
    FailableInit = {"endpoint_init", "runtime_init", "eval"}
    JobsMayThrow = TRUE
    MaxIsoPost = 2  MaxEcho = 1  MaxIsoPing = 2  Replies = TRUE  PingsToo = TRUE
    Lines = {1, 2}  MaxReq = 3  MaxStops = 3  Pipelines = FALSE
    WThreads = {t1, t2, t3}  NoThread = NoThread  MaxLoads = 2  Overlap = FALSE
INVARIANTS ThreadExitIsSound HostIsToldTheTruth ChildEndsOnce StopsAreSound EngineIsShared
PROPERTIES MessageIsATask WaitsEnd
CHECK_DEADLOCK FALSE
