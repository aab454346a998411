SPECIFICATION Spec
CONSTANTS
    Readers = {r1}
    Hooks = {w1}
    Statuses = {"inactive", "active", "canceled"}
    TTL = 1
    MaxLatency = 1
    TrialLength = 0
    RedisFaults = FALSE
INVARIANTS
    NoStaleActive
