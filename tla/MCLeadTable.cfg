CONSTANTS
    r1 = r1
    r2 = r2
    r3 = r3
    Lead = {l1}
    Alike <- MCAlike
    Request = {r1, r2}
    NoLead = NoLead
SPECIFICATION Spec
PROPERTIES StepsFollowTable
CHECK_DEADLOCK FALSE
