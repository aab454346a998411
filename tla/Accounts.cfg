SPECIFICATION Spec
CONSTANTS
    Users = {u1}
    Requests = {q1, q2}
    Admins = {a1, a2}
SYMMETRY Symmetry
INVARIANTS
    BarHolds
    NoEntryUnreleased
    BanIsImmediate
    AuditTrail
