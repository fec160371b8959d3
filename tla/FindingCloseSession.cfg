SPECIFICATION DocServeSpec
CONSTANTS
    JobIds = {j1, j2}
    SessionIds = {s1}
    NoSession = NoSession
    NoJob = NoJob
    MaxAge = 1
    Faults = FALSE
    MaxConcurrent = 1
    JobKeepalive = 1
    SessionKeepalive = 1
    DebugDelete = FALSE
PROPERTIES ClosedSessionIsFinished
