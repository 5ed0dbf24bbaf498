SPECIFICATION MCSpec
CONSTANTS
    ChanThreads = {1, 2, 3, 4}  ChanCap = 2  ChanSends = 4  ChanRecvs = 3
    PromiseThreads = {1, 2, 3}  PromiseOps = 4
    Elems = {1, 2, 3}  DsCap = 2  DsSize = 4
    DsKinds = {"queue", "mailbox", "stream", "map", "set", "list", "stack", "group"}
    IoWorkers = {1, 2}  IoTasks = {10, 11, 12}  NoTask = NoTask
    PrioLevels = {0, 128, 254}  PrioMax = 4  RefActors = {"a", "b"}  RefMax = 2  Cpus = {0, 1, 4}
    RegistrySize = 2  ListedMax = 4
    GcSlots = {"s", "t"}  GcState = "s"  GcFields = {1}  GcBirths = 3  GcSpace = 5  GcBase <- MCGcBase  GcLayers = {"heap", "actor"}
    WgcLayouts <- MCLayouts  WgcLengths = {2}  WgcValues = {1}  WgcMaxRoots = 3  WgcMaxHandles = 2
    DapFiles = {"f", "g"}  DapLines = {3}  DapMethods = {"m"}  DapActorIds = {1}  DapSteps = {"next"}
    DapMaxBps = 2  DapMaxNotes = 1  DapMaxSeq = 3  DapMaxHits = 1
    NetLens = {1, 3}  NetMax = 3  NetBuf = 2  NetMsgs = 3
    SupNames = {1, 2}  SupStrategies = {"one_for_one", "one_for_all", "rest_for_one"}
    SupMax = 1  SupCrashes = 2  SupTicks = 3
    IncrFiles = {"f", "g"}  IncrContents = {"A", "B"}  IncrLines <- MCLines
    IncrOutputs = {"x", "y"}  IncrMaxDeps = 3  IncrMaxOps = 6
    StrArgs <- MCStrArgs  StrWidths = {0, 2, 5}  StrBytes = 5
INVARIANTS
    ConcurrencySafe
    ContainersAgree
    StringsAgree
    SchedulerSafe
    HeapsSafe
    DebuggerStops
    DistributedSound
    CacheSound
PROPERTIES
    IoPoolIsTaskPool
    CloseReleases
CHECK_DEADLOCK FALSE
