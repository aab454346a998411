SPECIFICATION Spec
CONSTANTS
    Creators = {u1, u2}
    Users = {u1}
    Orgs = {o1, o2}
    Projects = {p1}
    Requests = {q1}
    None = None
SYMMETRY Symmetry
INVARIANTS
    ReadsWithinReach
    WritesHadStanding
