SPECIFICATION ClientSpec
CONSTANTS
    Requests = {r1, r2}
    MaxSessions = 2
    MaxTokens = 2
    SecureCookies = FALSE
INVARIANTS
    ClientTypeOK
    RefusalExplained
PROPERTIES
    LoginLeaves
    NoEndlessBounce
