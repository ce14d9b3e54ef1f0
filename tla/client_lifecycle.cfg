CONSTANTS
    Tasks = {t1, t2, t3}
    t1 = t1
    t2 = t2
    t3 = t3
SYMMETRY TaskSymmetry
SPECIFICATION Spec
INVARIANTS OneResponse BlockKeepsClient
\* A closed client may be left alone.
CHECK_DEADLOCK FALSE
