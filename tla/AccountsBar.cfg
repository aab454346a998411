SPECIFICATION Spec
CONSTANTS
    Users = {u1}
    Requests = {q1}
    Admins = {a1, a2}
INVARIANT BarStands
