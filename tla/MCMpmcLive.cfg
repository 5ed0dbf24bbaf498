SPECIFICATION FairSpec
CONSTANTS
    t1 = t1
    t2 = t2
    t3 = t3
    v1 = v1
    v2 = v2
    Threads = {t1, t2}
    Values = {v1}
    Nothing = Nothing
    Capacity = 2
    Ops = {"enqueue", "dequeue", "size"}
    SizeMod = 8
    Reliable = {t1}
    MaxEnqueues = 3
PROPERTIES
    NonBlocking
