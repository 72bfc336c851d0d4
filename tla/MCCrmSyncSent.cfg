CONSTANTS
    i1 = i1
    i2 = i2
    a1 = a1
    a2 = a2
    Lead = {l1}
    Sample = {s1}
    Integration = {i1, i2}
    Routes <- MCRoutes
    Retry = {a1, a2}
    NoKey = NoKey
    MaxAttempts = 2
    MaxCrash = 1
SPECIFICATION Spec
PROPERTIES SentIsDone
CHECK_DEADLOCK FALSE
