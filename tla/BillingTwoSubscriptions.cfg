SPECIFICATION Spec
CONSTANTS
    Requests = {r1, r2, r3}
    Customers = {c1, c2, c3}
    Subs = {s1, s2}
    Plans = {pro, enterprise}
    MaxEvents = 4
    NoRow = NoRow
    NoId = NoId
SYMMETRY Symmetry
CHECK_DEADLOCK FALSE
INVARIANTS
    RowKeptCurrent
