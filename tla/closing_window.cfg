CONSTANTS
    Tasks = {t1, t2}
    t1 = t1
    t2 = t2
    t3 = t3
SYMMETRY TaskSymmetry
SPECIFICATION Spec
INVARIANT ErrorsAreOurs
CHECK_DEADLOCK FALSE
