CONSTANTS
    e1 = e1
    e2 = e2
    Event = {e1, e2}
    Endpoint = {ep1}
    Wants <- MCWants
    Shot = {r1}
    Ping = Ping
    NoTarget = NoTarget
    MaxAttempts = 3
    MaxCrash = 1
SPECIFICATION FairSpec
INVARIANTS TypeOK LogIsTruthful
PROPERTIES PromiseKept EveryDeliverySettles
CHECK_DEADLOCK FALSE
