CONSTANTS
    i1 = i1
    i2 = i2
    t1 = t1
    t2 = t2
    o1 = o1
    Instance = {i1, i2}
    Tick = {t1, t2}
    Host <- MCHost
    Org = {o1}
    NoTick = NoTick
    NoOrg = NoOrg
    Week = 1
    MaxTime = 2
    MaxExpiry = 0
    MaxCrash = 1
SPECIFICATION FairSpec
PROPERTIES EveryPruneJobRuns DueDigestIsSent
