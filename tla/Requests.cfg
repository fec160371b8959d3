SPECIFICATION RequestsSpec
CONSTANTS
    Clients = {c1, c2}
    JobIds = {j1}
    SessionIds = {s1}
    NoSession = NoSession
    NoJob = NoJob
    MaxAge = 1
    Faults = FALSE
    MaxConcurrent = 1
    JobKeepalive = 1
    SessionKeepalive = 1
    DebugDelete = TRUE
INVARIANTS RequestsTypeOK AwaitedAreFinished
PROPERTIES NothingTakenBack
SYMMETRY ClientSymmetry
