CONSTANTS
    Request = {r1, r2, r3}
    First = First
    None = None
    Code = {c1, c2}
SPECIFICATION Spec
INVARIANTS TypeOK OnlyNewestLink SingleUse NoStaleSession CodesStayDead FactorWasVerified
SYMMETRY MCSymmetry
CHECK_DEADLOCK FALSE
