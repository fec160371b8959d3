SPECIFICATION GracefulSpec
CONSTANTS
    JobIds = {j1, j2}
    SessionIds = {}
    NoSession = NoSession
    NoJob = NoJob
    MaxAge = 1
    Faults = FALSE
    MaxConcurrent = 1
PROPERTIES QueuedIsFinished
