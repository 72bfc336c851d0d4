CONSTANTS
    Request = {r1, r2, r3}
    Old = {c1, c2}
    OldSlug = {1, 3}
    None = None
SPECIFICATION Spec
INVARIANTS TypeOK NoLeadLeftBehind LoopsNeedOverlap OwnerStaysGone ClashIsRace
SYMMETRY MCSymmetry
CHECK_DEADLOCK FALSE
