SPECIFICATION Spec
CONSTANTS
    m1 = m1
    m2 = m2
    m3 = m3
    b1 = b1
    b2 = b2
    Counts = {1, 2}
    DequeSize = 2
    Messages = {m1, m2}
    Behaviors = {b1}
    Upgrades = {b1}
    Null = Null
    Listed <- MCOneActor
    MaxStarts = 1
INVARIANTS
    UpgradeLosesNoMessage
CHECK_DEADLOCK FALSE
