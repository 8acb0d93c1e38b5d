SPECIFICATION Spec
CONSTANTS
    ta = ta  tb = tb  ti = ti  ft = ft  fr = fr  fw = fw  fx = fx  fq = fq  fl = fl
    k1 = k1  k2 = k2  k3 = k3  v1 = v1  v2 = v2  o1 = o1  o2 = o2  u1 = u1  u2 = u2
    n1 = n1  n2 = n2  f1 = f1  f2 = f2  e1 = e1  e2 = e2  h1 = h1  h2 = h2
    d1 = d1  d2 = d2  t1 = t1  j1 = j1  j2 = j2
    NoCall = NoCall  NoOp = NoOp  Nil = Nil  Empty = Empty  Undefined = Undefined
    Calls <- MCCalls
    Intervals <- MCIntervals
    MaxHandles = 3  MaxTicks = 2
    MaxContexts = 3  MaxInstances = 3  MaxDepth = 3  MaxTasks = 2
    TextReads = {ft}  BinaryReads = {fr}  Writes = {fw}  Removes = {fx}  ExistsOps = {fq}  Lists = {fl}  MaxFsOps = 3
    BufInit = 2  DataLen = 3
    Owners = {o1, o2}  MaxWrites = 4
    Keys = {k1, k2, k3}  Values = {v1, v2}  StorageMax = 2
    HttpOps = {o1, o2}  Proxies = {u1, u2}
    MaxWModules = 1  MaxWInstances = 2  MaxPages = 2
    CallInsts = {n1, n2}  WFuncs = {f1, f2}  Throwables = {e1, e2}  MaxFrames = 5
    LoadCalls = {d1, d2}
    Tables = {t1}  Elems = {j1, j2}  Null = Null  MaxSlots = 3  MaxGrows = 2
    ZHandles = {h1, h2}  MaxZStreams = 3
    MaxNatives = 3
INVARIANTS TimersAreOwn ContextsAreSound FilesAreTrue StoredIsKept WasmIsSafe ResourcesAddUp
PROPERTIES TimeoutRuns
CHECK_DEADLOCK FALSE
