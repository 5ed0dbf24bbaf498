SPECIFICATION Spec
CONSTANTS
    a1 = a1
    a2 = a2
    a3 = a3
    Actors = {a1, a2, a3}
    NoActor = NoActor
    Strategies = {"ONE_FOR_ONE", "ONE_FOR_ALL", "REST_FOR_ONE", "NONE"}
    RestartArgs = {1}
    MaxChildren = 2
    SizeMod = 2
INVARIANTS
    TypeOK
    ListIsLive
    TreeAgrees
    RestartBudget
PROPERTIES
    CrashStaysInGroup
    StartReachesEveryActor
SYMMETRY MCSymmetry
CHECK_DEADLOCK FALSE
