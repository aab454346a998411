SPECIFICATION Spec
CONSTANTS
    Runs = {r1, r2}
    MaxEdits = 1
SYMMETRY Symmetry
INVARIANTS
    TypeOK
    Complete
CHECK_DEADLOCK FALSE
