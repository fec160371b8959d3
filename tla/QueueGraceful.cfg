SPECIFICATION GracefulSpec
CONSTANTS
    JobIds = {j1, j2, j3}
    SessionIds = {}
    NoSession = NoSession
    NoJob = NoJob
    MaxAge = 1
    Faults = FALSE
    MaxConcurrent = 2
INVARIANTS DrainWaits
PROPERTIES StartedIsFinished ShutdownCompletes
