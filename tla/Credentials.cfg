SPECIFICATION Spec
CONSTANTS
    Inputs = {weak, strong}
    Weak = {weak}
    MaxVisits = 4
    None = None
CHECK_DEADLOCK FALSE
INVARIANTS
    TypeOK
    SuccessIsTrue
    NothingDoneUnsaid
