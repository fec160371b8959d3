SPECIFICATION DocSpec
CONSTANTS
    JobIds = {j1, j2}
    SessionIds = {s1}
    NoSession = NoSession
    NoJob = NoJob
    MaxAge = 1
    Faults = TRUE
    MaxConcurrent = 1
    JobKeepalive = 1
    SessionKeepalive = 1
    DebugDelete = TRUE
SYMMETRY JobSymmetry
INVARIANTS DocTypeOK ConcurrencyLimit OneOwner OwnerFindsStatus SuccessHasResult DrainWaits
