CONSTANTS
    i1 = i1
    i2 = i2
    t1 = t1
    t2 = t2
    o1 = o1
    Instance = {i1, i2}
    Tick = {t1, t2}
    Host <- MCHost
    Org = {o1}
    NoTick = NoTick
    NoOrg = NoOrg
    Week = 2
    MaxTime = 4
    MaxExpiry = 1
    MaxCrash = 1
SPECIFICATION Spec
INVARIANT TicksNeverOverlap
