SPECIFICATION Spec
CONSTANTS
    Users = {u1, u2}
    None = None
    MaxCalls = 2
    MaxOthers = 1
SYMMETRY Symmetry
INVARIANTS
    TypeOK
    OwnActionsShown
    ReasonIsForThatUser
    DecidedOnce
CHECK_DEADLOCK FALSE
