SPECIFICATION FairSpec
CONSTANTS
    Readers = {r1}
    Hooks = {w1}
    Statuses = {"inactive", "active"}
    TTL = 2
    MaxLatency = 1
    TrialLength = 1
    RedisFaults = TRUE
INVARIANTS
    EvidenceInv
    StaleOnlyByRaceOrLoss
PROPERTIES
    RefinesEntitlement
    PaymentIsHonoured
    CancellationIsHonoured
