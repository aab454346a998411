SPECIFICATION Spec
CONSTANTS
    Readers = {r1, r2}
    Hooks = {w1}
    Statuses = {"inactive", "active"}
    TTL = 1
    MaxLatency = 1
    TrialLength = 1
    RedisFaults = TRUE
SYMMETRY Symmetry
INVARIANTS
    EvidenceInv
    StaleOnlyByRaceOrLoss
