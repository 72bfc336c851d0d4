CONSTANTS
    r1 = r1
    r2 = r2
    r3 = r3
    Lead = {l1, l2}
    Alike <- MCAlike
    Request = {r1, r2, r3}
    NoLead = NoLead
SPECIFICATION Spec
SYMMETRY MCSymmetry
INVARIANTS TypeOK TrailExplainsStatus NothingRefersToErased
PROPERTIES StrayStepIsStale MissedDuplicateOverlaps
CHECK_DEADLOCK FALSE
