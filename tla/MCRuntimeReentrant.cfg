SPECIFICATION Spec
CONSTANTS
    a1 = a1
    a2 = a2
    b1 = b1
    b2 = b2
    Actors = {a1, a2}
    NoActor = NoActor
    Strategies = {"ONE_FOR_ONE"}
    RestartArgs = {1}
    MaxChildren = 1
    SizeMod = 1
    Behaviors = {b1}
    NoBehavior = NoBehavior
    Limits = {0, 1}
    DefaultLimit = 2
    CallTicks = 2
    MaxSends = 2
    MaxCalls = 1
    Programs = {{"call"}}
INVARIANTS
    OneMessageAtATime
