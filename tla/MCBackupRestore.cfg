CONSTANTS
    Request = {q1, q2}
    Restore = {r1, r2}
    Backup = {b1, b2}
    Old = {c1}
    Earlier = {b1}
    MaxExcused = 1
    None = None
SPECIFICATION Spec
INVARIANTS TypeOK NothingOldSurvives DanglingNeedsOverlap FailureLeavesNoTrace
PROPERTY RestoreIsOneStep
SYMMETRY MCSymmetry
CHECK_DEADLOCK FALSE
