SPECIFICATION PaywallSpec
CONSTANTS
    Users = {u1}
    Orgs = {o1, o2}
    Requests = {q1}
    None = None
SYMMETRY Symmetry
INVARIANTS
    ServedIsPaidFor
    RefusedIsUnpaid
